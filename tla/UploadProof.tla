----------------------------- MODULE UploadProof -----------------------------
(***************************************************************************)
(* An upload that is tried again beside the handlers of attempts given up  *)
(* before: what of it can be relied on, for any number of readers, chunks, *)
(* attempts and faults.                                                    *)
(***************************************************************************)
EXTENDS Upload, TLAPS

Working == {"read", "callback"}

(***************************************************************************)
(* A handler and its stream.  Only a handler that is at work has the file  *)
(* open, and it writes no more than was sent; one that reaches its         *)
(* callback over a connection that is up has written all of it.            *)
(***************************************************************************)
HandlerOK(a) ==
  LET h == handler[a] IN
  /\ a > attempts => h.pc = "none"
  /\ h.pc \in Working => h.v \in Version /\ h.status = "none"
  /\ h.opened => h.pc \in Working /\ a <= newest
  /\ h.pc = "callback" => h.opened
  /\ h.pc = "callback" /\ h.up => h.written = Chunks
  /\ ~h.opened => h.written = 0
  /\ h.pc \in Working => h.written <= h.sent
  /\ h.pc = "read" /\ a = newest => h.opened

HandlersOK == \A a \in Attempt : HandlerOK(a)

(***************************************************************************)
(* The call in progress: it is made for a modified file, and its last      *)
(* attempt sends the version the local file has.                           *)
(***************************************************************************)
CallOK ==
  /\ newest <= attempts
  /\ call.pc \in {"try", "send", "finish", "return"} => dirty
  /\ dirty => streams # "no"
  /\ call.pc \in {"send", "finish"} =>
       /\ attempts > 0 /\ call.tries < MaxTries
       /\ handler[attempts].pc # "none"
       /\ handler[attempts].pc \in Working => handler[attempts].v = version
  /\ call.pc = "send" => handler[attempts].sent < Chunks /\ ~Answered(attempts)
  /\ call.pc # "return" => ~call.ok

\* The upload in progress may still succeed, or has.
Live ==
  \/ call.pc \in {"send", "finish"} /\ ~GivenUp(attempts)
  \/ call.pc = "return" /\ call.ok

(***************************************************************************)
(* Every upload is for a new version or follows a fault: the model has a   *)
(* handler for each.                                                       *)
(***************************************************************************)
CountOK ==
  /\ attempts <= version - 1 + faults
  /\ dirty /\ ~Live => attempts + 1 <= version - 1 + faults

\* open() has registered a reader that has a copy, and no restart came since.
RegisteredOK == \A r \in connected : copy[r] # "none" => r \in registered

\* The last handler to open the file alone decides what is in it.
NewestOK ==
  \A a \in Attempt :
    a = newest /\ handler[a].opened /\ ~disturbed
      => disk = [k \in 1..handler[a].written |-> handler[a].v]

(***************************************************************************)
(* The last modification is in the file, and only the handler of an        *)
(* attempt given up before may touch the file.                             *)
(***************************************************************************)
Stored ==
  /\ \A a \in Attempt : handler[a].pc \in Working => a < newest
  /\ disk = Full(version) \/ disturbed

\* It is when an upload has been answered, and until the file is modified again.
KeptOK ==
  /\ ~dirty /\ call.pc # "crashed" => Stored
  /\ call.pc = "finish" /\ Answered(attempts) => Stored
  /\ call.pc = "return" /\ call.ok => Stored

(***************************************************************************)
(* The inductive invariant.  ModificationIsKept is not inductive: it does  *)
(* not say which handlers may still write; KeptOK does.                    *)
(***************************************************************************)
UploadInv ==
  /\ TypeOK /\ HandlersOK /\ CallOK /\ CountOK
  /\ RegisteredOK /\ NewestOK /\ KeptOK
  /\ ChangeIsAnnounced /\ FileIsOneVersion

-----------------------------------------------------------------------------
(***************************************************************************)
(* The operators.                                                          *)
(***************************************************************************)
\* A handler that returns keeps nothing but the state of its connection.
LEMMA DoneIs ==
  ASSUME handler \in [Attempt -> HandlerRecord], NEW a \in Attempt,
         NEW s \in {"ok", "error"}
  PROVE  /\ Done(a, s) \in [Attempt -> HandlerRecord]
         /\ \A b \in Attempt \ {a} : Done(a, s)[b] = handler[b]
         /\ Done(a, s)[a].pc = "done" /\ ~Done(a, s)[a].opened
         /\ Done(a, s)[a].sent = 0 /\ Done(a, s)[a].written = 0
         /\ Done(a, s)[a].up = handler[a].up /\ Done(a, s)[a].status = s
<1>1. PICK u \in BOOLEAN : u = handler[a].up
  BY DEF HandlerRecord
<1>2. PICK h : h = [NoHandler EXCEPT !.pc = "done", !.up = u, !.status = s]
  OBVIOUS
<1>3. NoHandler \in HandlerRecord
  BY ChunksAssumption DEF NoHandler, HandlerRecord
<1>4. h \in HandlerRecord
  BY <1>2, <1>3 DEF HandlerRecord
<1>5. /\ h.pc = "done" /\ ~h.opened /\ h.sent = 0 /\ h.written = 0
      /\ h.up = u /\ h.status = s
  BY <1>2 DEF NoHandler
<1>6. Done(a, s) = [handler EXCEPT ![a] = h]
  BY <1>1, <1>2 DEF Done
<1> QED
  BY <1>1, <1>4, <1>5, <1>6

\* A call that begins, or has ended with its process.
LEMMA IdleIs ==
  ASSUME NEW k \in {"idle", "try", "crashed"}
  PROVE  /\ [Idle EXCEPT !.pc = k] \in CallRecord /\ Idle \in CallRecord
         /\ [Idle EXCEPT !.pc = k].pc = k /\ ~[Idle EXCEPT !.pc = k].ok
<1>1. Idle \in CallRecord
  BY TriesAssumption DEF Idle, CallRecord
<1>2. [Idle EXCEPT !.pc = k] \in CallRecord
  BY <1>1 DEF CallRecord
<1> QED
  BY <1>1, <1>2 DEF Idle

\* An attempt in progress is one of those that were started.
LEMMA AttemptInProgress ==
  ASSUME TypeOK, CallOK, call.pc \in {"send", "finish"}
  PROVE  attempts \in Attempt
BY BoundsAssumption DEF TypeOK, CallOK, Attempt, MaxAttempts

\* A chunk written into a file of n chunks.
LEMMA WriteAtType ==
  ASSUME NEW n \in 0..Chunks, NEW s \in [1..n -> Version \cup {Hole}],
         NEW i \in 1..Chunks, NEW v \in Version
  PROVE  WriteAt(s, i, v) \in UNION {[1..m -> Version \cup {Hole}] : m \in 0..Chunks}
<1>1. PICK m \in 0..Chunks : 1..n \cup 1..i = 1..m
  <2>1. CASE n <= i
    BY <2>1, ChunksAssumption
  <2>2. CASE n > i
    BY <2>2, ChunksAssumption
  <2> QED
    BY <2>1, <2>2
<1>2. WriteAt(s, i, v) \in [1..m -> Version \cup {Hole}]
  BY <1>1 DEF WriteAt
<1> QED
  BY <1>2

\* The next chunk of a version, written behind the chunks there are.
LEMMA WriteAtNext ==
  ASSUME NEW w \in Nat, NEW v
  PROVE  WriteAt([k \in 1..w |-> v], w + 1, v) = [k \in 1..(w + 1) |-> v]
<1>1. 1..w \cup 1..(w + 1) = 1..(w + 1)
  OBVIOUS
<1>2. WriteAt([k \in 1..w |-> v], w + 1, v)
        = [k \in 1..w \cup 1..(w + 1) |-> v]
  BY DEF WriteAt
<1> QED
  BY <1>1, <1>2

-----------------------------------------------------------------------------
(***************************************************************************)
(* The client's steps that involve no handler.                             *)
(***************************************************************************)
\* What such a step leaves alone.
LEMMA ClientFrame ==
  ASSUME UploadInv, UNCHANGED <<serverVars, readerVars, history, attempts>>,
         TypeOK', CallOK', CountOK', KeptOK'
  PROVE  UploadInv'
<1> USE DEF UploadInv, serverVars, readerVars, history
<1>1. HandlersOK'
  BY DEF HandlersOK, HandlerOK
<1>2. RegisteredOK' /\ NewestOK'
  BY DEF RegisteredOK, NewestOK
<1>3. ChangeIsAnnounced' /\ FileIsOneVersion'
  BY DEF ChangeIsAnnounced, FileIsOneVersion, Changing
<1> QED
  BY <1>1, <1>2, <1>3

\* open_file(), write_file() and close_file() up to the first attempt: a version
\* is made for each upload, and the mark stays.
LEMMA CallerStep ==
  ASSUME UploadInv, Caller, UNCHANGED faults
  PROVE  UploadInv'
<1> USE DEF UploadInv, serverVars, readerVars, history
<1>1. ASSUME Open \/ WriteFails \/ CloseClean
      PROVE  UploadInv'
  <2>1. UNCHANGED <<serverVars, readerVars, history, attempts, version, dirty, call>>
    BY <1>1 DEF Open, WriteFails, CloseClean
  <2>2. TypeOK'
    BY <1>1, <2>1 DEF TypeOK, Open, WriteFails, CloseClean
  <2>3. CallOK'
    BY <1>1, <2>1 DEF CallOK, Answered, Open, WriteFails, CloseClean
  <2>4. CountOK' /\ KeptOK'
    BY <2>1 DEF CountOK, Live, GivenUp, KeptOK, Stored, Answered
  <2> QED
    BY <2>1, <2>2, <2>3, <2>4, ClientFrame
<1>2. ASSUME WriteFile
      PROVE  UploadInv'
  <2> USE <1>2 DEF WriteFile
  <2>1. TypeOK'
    BY DEF TypeOK
  <2>2. CallOK'
    BY DEF CallOK
  <2>3. CountOK'
    BY BoundsAssumption DEF CountOK, Live, TypeOK, Version, Attempt
  <2>4. KeptOK'
    BY DEF KeptOK
  <2> QED
    BY <2>1, <2>2, <2>3, <2>4, ClientFrame
<1>3. ASSUME CloseFlush
      PROVE  UploadInv'
  <2> USE <1>3 DEF CloseFlush
  <2>0. call' \in CallRecord /\ call'.pc = "try" /\ ~call'.ok
    BY IdleIs
  <2>1. TypeOK'
    BY <2>0 DEF TypeOK
  <2>2. CallOK'
    BY <2>0 DEF CallOK
  <2>3. CountOK'
    BY <2>0 DEF CountOK, Live
  <2>4. KeptOK'
    BY <2>0 DEF KeptOK
  <2> QED
    BY <2>1, <2>2, <2>3, <2>4, ClientFrame
<1> QED
  BY <1>1, <1>2, <1>3 DEF Caller

\* The call goes on from its last attempt, or gives up.
LEMMA CallStep ==
  ASSUME UploadInv, SendFails \/ FinishOK \/ FinishFailed \/ GiveUp, UNCHANGED faults
  PROVE  UploadInv'
<1> USE DEF UploadInv, serverVars, readerVars, history
<1>0. /\ UNCHANGED <<serverVars, readerVars, history, version, dirty, streams, attempts>>
      /\ call \in CallRecord /\ attempts \in 0..MaxAttempts
  BY DEF SendFails, FinishOK, FinishFailed, GiveUp, TypeOK
<1> SUFFICES TypeOK' /\ CallOK' /\ CountOK' /\ KeptOK'
  BY <1>0, ClientFrame
<1>a. ASSUME call' \in CallRecord PROVE TypeOK'
  BY <1>0, <1>a DEF TypeOK
<1>1. CASE SendFails
  <2>1. /\ call' \in CallRecord /\ call'.pc = "finish"
        /\ call'.tries = call.tries /\ call'.ok = call.ok
    BY <1>0, <1>1 DEF SendFails, CallRecord
  <2>2. CallOK' /\ CountOK'
    BY <1>0, <1>1, <2>1 DEF SendFails, CallOK, CountOK, Live, GivenUp, Answered
  <2>3. KeptOK'
    BY <1>0, <1>1, <2>1 DEF SendFails, CallOK, KeptOK, Stored, Answered
  <2> QED
    BY <1>a, <2>1, <2>2, <2>3
<1>2. CASE FinishOK
  <2>1. call' \in CallRecord /\ call'.pc = "return" /\ call'.ok
    BY <1>0, <1>2 DEF FinishOK, CallRecord
  <2>2. CallOK' /\ CountOK'
    BY <1>0, <1>2, <2>1 DEF FinishOK, CallOK, CountOK, Live
  <2>3. KeptOK'
    BY <1>0, <1>2, <2>1 DEF FinishOK, CallOK, KeptOK, Stored, Answered
  <2> QED
    BY <1>a, <2>1, <2>2, <2>3
<1>3. CASE FinishFailed
  <2>0. call.tries + 1 \in 0..MaxTries
    BY <1>0, <1>3, TriesAssumption DEF FinishFailed, CallOK, CallRecord
  <2>1. call' \in CallRecord /\ call'.pc = "try" /\ call'.ok = call.ok
    BY <1>0, <1>3, <2>0 DEF FinishFailed, CallRecord
  <2>2. CallOK' /\ CountOK'
    BY <1>0, <1>3, <2>1 DEF FinishFailed, CallOK, CountOK, Live
  <2>3. KeptOK'
    BY <1>0, <1>3, <2>1 DEF FinishFailed, CallOK, KeptOK
  <2> QED
    BY <1>a, <2>1, <2>2, <2>3
<1>4. CASE GiveUp
  <2>1. call' \in CallRecord /\ call'.pc = "return" /\ call'.ok = call.ok
    BY <1>0, <1>4 DEF GiveUp, CallRecord
  <2>2. CallOK' /\ CountOK'
    BY <1>0, <1>4, <2>1 DEF GiveUp, CallOK, CountOK, Live
  <2>3. KeptOK'
    BY <1>0, <1>4, <2>1 DEF GiveUp, CallOK, KeptOK
  <2> QED
    BY <1>a, <2>1, <2>2, <2>3
<1> QED
  BY <1>1, <1>2, <1>3, <1>4

\* The mark is taken off when, and only when, the file is stored.
LEMMA ReturnStep ==
  ASSUME UploadInv, CloseReturn, UNCHANGED faults
  PROVE  UploadInv'
<1> USE DEF UploadInv, serverVars, readerVars, history
<1>0. /\ UNCHANGED <<serverVars, readerVars, history, version, attempts>>
      /\ call.pc = "return" /\ dirty' = (dirty /\ ~call.ok) /\ call' = Idle
      /\ streams' = IF call.ok THEN "no" ELSE streams
      /\ dirty \in BOOLEAN /\ call.ok \in BOOLEAN
  BY DEF CloseReturn, TypeOK, CallRecord
<1>1. call' \in CallRecord /\ call'.pc = "idle" /\ ~call'.ok
  BY <1>0, IdleIs DEF Idle
<1>2. TypeOK'
  BY <1>0, <1>1 DEF TypeOK
<1>3. CallOK' /\ CountOK'
  BY <1>0, <1>1 DEF CallOK, CountOK, Live
<1>4. KeptOK'
  BY <1>0, <1>1 DEF CallOK, KeptOK, Stored, Answered
<1> QED
  BY <1>0, <1>2, <1>3, <1>4, ClientFrame

\* The server cannot be reached: attempts are used up, and the mark stays.
LEMMA UnreachableStep ==
  ASSUME UploadInv, Unreachable, faults' = faults + 1, faults' <= MaxFaults
  PROVE  UploadInv'
<1> USE DEF UploadInv, serverVars, readerVars, history
<1>0. UNCHANGED <<serverVars, readerVars, history, version, dirty, streams, attempts>>
  BY DEF Unreachable
<1>a. MaxTries \in 0..MaxTries
  BY TriesAssumption
<1>1. /\ call' \in CallRecord /\ call.pc = "try" /\ call'.pc = "try"
      /\ call'.ok = call.ok
  BY <1>a DEF Unreachable, TypeOK, CallRecord
<1>2. TypeOK'
  BY <1>0, <1>1, BoundsAssumption DEF TypeOK
<1>3. CallOK' /\ KeptOK'
  BY <1>0, <1>1 DEF CallOK, KeptOK
<1>4. CountOK'
  BY <1>0, <1>1 DEF CountOK, Live, TypeOK, Version
<1> QED
  BY <1>0, <1>2, <1>3, <1>4, ClientFrame

-----------------------------------------------------------------------------
(***************************************************************************)
(* The client's steps on the stream of its last attempt, and what cuts it. *)
(***************************************************************************)
\* No handler opens the file, writes, or returns with the file open.
LEMMA StreamFrame ==
  ASSUME UploadInv, UNCHANGED <<disk, registered, readerVars, history>>,
         \A b \in Attempt :
           /\ Changing(b) <=> Changing(b)'
           /\ handler'[b].opened => /\ handler[b].opened
                                    /\ handler'[b].written = handler[b].written
                                    /\ handler'[b].v = handler[b].v
  PROVE  RegisteredOK' /\ NewestOK' /\ ChangeIsAnnounced' /\ FileIsOneVersion'
<1> USE DEF UploadInv, readerVars, history
<1>1. RegisteredOK' /\ FileIsOneVersion'
  BY DEF RegisteredOK, FileIsOneVersion
<1>2. NewestOK'
  BY DEF NewestOK
<1>3. ChangeIsAnnounced'
  BY DEF ChangeIsAnnounced
<1> QED
  BY <1>1, <1>2, <1>3

\* The stream of one attempt has one more chunk.
LEMMA StreamSends ==
  ASSUME TypeOK, NEW a \in Attempt, NEW n \in 0..Chunks
  PROVE  [handler EXCEPT ![a].sent = n] \in [Attempt -> HandlerRecord]
<1>1. handler \in [Attempt -> HandlerRecord]
  BY DEF TypeOK
<1>2. [handler[a] EXCEPT !.sent = n] \in HandlerRecord
  BY <1>1 DEF HandlerRecord
<1> QED
  BY <1>1, <1>2

\* And when it is cut, it is still a stream.
LEMMA StreamCut ==
  ASSUME TypeOK, NEW a \in Attempt
  PROVE  [handler EXCEPT ![a].up = FALSE] \in [Attempt -> HandlerRecord]
<1>1. handler \in [Attempt -> HandlerRecord]
  BY DEF TypeOK
<1>2. [handler[a] EXCEPT !.up = FALSE] \in HandlerRecord
  BY <1>1 DEF HandlerRecord
<1> QED
  BY <1>1, <1>2

\* stub_->close(): the handler is a new one, and nothing is stored yet.
LEMMA StartUploadStep ==
  ASSUME UploadInv, StartUpload, UNCHANGED faults
  PROVE  UploadInv'
<1> USE DEF UploadInv, readerVars, history
<1>1. PICK h : h = [NoHandler EXCEPT !.pc = "read", !.v = version, !.up = TRUE]
  OBVIOUS
<1>2. /\ h \in HandlerRecord /\ h.pc = "read" /\ h.v = version /\ h.up /\ ~h.opened
      /\ h.sent = 0 /\ h.written = 0 /\ h.status = "none"
  <2>1. NoHandler \in HandlerRecord
    BY ChunksAssumption DEF NoHandler, HandlerRecord
  <2>2. h \in HandlerRecord
    BY <1>1, <2>1 DEF HandlerRecord, TypeOK
  <2> QED
    BY <1>1, <2>2 DEF NoHandler
<1>3. /\ UNCHANGED <<disk, registered, readerVars, history, version, dirty, streams>>
      /\ call.pc = "try" /\ call.tries < MaxTries /\ attempts' = attempts + 1
      /\ handler' = [handler EXCEPT ![attempts + 1] = h]
      /\ call \in CallRecord /\ handler \in [Attempt -> HandlerRecord]
      /\ attempts \in 0..MaxAttempts /\ newest \in 0..MaxAttempts
  BY <1>1 DEF StartUpload, TypeOK
<1>4. call' \in CallRecord /\ call'.pc = "send" /\ call'.tries < MaxTries /\ ~call'.ok
  BY <1>3 DEF StartUpload, CallRecord, CallOK
<1>5. attempts + 1 \in Attempt /\ attempts + 1 <= version - 1 + faults
  BY <1>3, BoundsAssumption
  DEF CountOK, CallOK, Live, TypeOK, Version, Attempt, MaxAttempts
<1>6. TypeOK'
  BY <1>2, <1>3, <1>4, <1>5 DEF TypeOK, Attempt
<1>7. \A b \in Attempt \ {attempts + 1} : handler'[b] = handler[b]
  BY <1>3
<1>8. handler'[attempts'] = h
  BY <1>3, <1>5
<1>9. HandlersOK'
  <2> SUFFICES ASSUME NEW b \in Attempt PROVE HandlerOK(b)'
    BY DEF HandlersOK
  <2>1. CASE b = attempts'
    BY <1>2, <1>3, <1>8, <2>1 DEF HandlerOK, CallOK, TypeOK
  <2>2. CASE b # attempts'
    BY <1>3, <1>7, <2>2 DEF HandlersOK, HandlerOK, Attempt
  <2> QED
    BY <2>1, <2>2
<1>10. CallOK'
  BY <1>2, <1>3, <1>4, <1>8, ChunksAssumption DEF CallOK, Answered
<1>11. CountOK'
  BY <1>2, <1>3, <1>4, <1>5, <1>8 DEF CountOK, Live, GivenUp
<1>12. KeptOK'
  BY <1>3, <1>4 DEF KeptOK, CallOK
<1>13. ~handler[attempts + 1].opened
  BY <1>3, <1>5 DEF HandlersOK, HandlerOK, Working
<1>14. RegisteredOK' /\ NewestOK' /\ ChangeIsAnnounced' /\ FileIsOneVersion'
  BY <1>2, <1>3, <1>7, <1>8, <1>13, StreamFrame DEF Changing
<1> QED
  BY <1>6, <1>9, <1>10, <1>11, <1>12, <1>14

\* Write(), and WritesDone() after the last chunk: the handler cannot have
\* answered OK before.
LEMMA SendChunkStep ==
  ASSUME UploadInv, SendChunk, UNCHANGED faults
  PROVE  UploadInv'
<1> USE DEF UploadInv, readerVars, history
<1>1. attempts \in Attempt /\ call.pc = "send"
  BY AttemptInProgress DEF SendChunk
<1>2. handler[attempts].sent + 1 \in 0..Chunks
  <2>1. handler[attempts].sent \in 0..Chunks
    BY <1>1 DEF TypeOK, HandlerRecord
  <2>2. handler[attempts].sent < Chunks
    BY <1>1 DEF CallOK
  <2> QED
    BY <2>1, <2>2, ChunksAssumption
<1>3. /\ UNCHANGED <<disk, registered, readerVars, history, version, dirty, streams,
                     attempts>>
      /\ handler' = [handler EXCEPT ![attempts].sent = handler[attempts].sent + 1]
      /\ call \in CallRecord /\ handler \in [Attempt -> HandlerRecord]
  BY DEF SendChunk, TypeOK
<1>4. /\ \A b \in Attempt \ {attempts} : handler'[b] = handler[b]
      /\ handler'[attempts].sent = handler[attempts].sent + 1
      /\ \A b \in Attempt :
           /\ handler'[b].pc = handler[b].pc /\ handler'[b].v = handler[b].v
           /\ handler'[b].opened = handler[b].opened /\ handler'[b].up = handler[b].up
           /\ handler'[b].written = handler[b].written
           /\ handler'[b].status = handler[b].status
      /\ handler' \in [Attempt -> HandlerRecord]
  BY <1>1, <1>2, <1>3, StreamSends DEF HandlerRecord
<1>5. /\ call' \in CallRecord /\ call'.pc \in {"send", "finish"}
      /\ call'.tries = call.tries /\ call'.ok = call.ok
      /\ call'.pc = "send" => handler'[attempts].sent # Chunks
  BY <1>1, <1>3 DEF SendChunk, CallRecord
<1>6. TypeOK'
  BY <1>3, <1>4, <1>5 DEF TypeOK
<1>7. HandlersOK'
  <2> SUFFICES ASSUME NEW b \in Attempt PROVE HandlerOK(b)'
    BY DEF HandlersOK
  <2>1. handler'[b].sent >= handler[b].sent
    BY <1>1, <1>4 DEF TypeOK, HandlerRecord
  <2>2. handler[b].sent \in Nat /\ handler'[b].sent \in Nat /\ handler[b].written \in Nat
    BY <1>4 DEF TypeOK, HandlerRecord
  <2> QED
    BY <1>3, <1>4, <2>1, <2>2 DEF HandlersOK, HandlerOK
<1>8. CallOK'
  BY <1>1, <1>2, <1>3, <1>4, <1>5, ChunksAssumption DEF CallOK, Answered
<1>9. CountOK' /\ KeptOK'
  BY <1>1, <1>3, <1>4, <1>5 DEF CallOK, CountOK, Live, GivenUp, KeptOK, Answered
<1>10. RegisteredOK' /\ NewestOK' /\ ChangeIsAnnounced' /\ FileIsOneVersion'
  BY <1>3, <1>4, StreamFrame DEF Changing
<1> QED
  BY <1>6, <1>7, <1>8, <1>9, <1>10

\* The connection of the last attempt is lost: the handler goes on without it.
LEMMA CutStep ==
  ASSUME UploadInv, attempts \in Attempt, UNCHANGED <<attempts, newest>>,
         handler' = [handler EXCEPT ![attempts].up = FALSE]
  PROVE  /\ handler' \in [Attempt -> HandlerRecord] /\ HandlersOK'
         /\ \A b \in Attempt :
              /\ handler'[b].pc = handler[b].pc /\ handler'[b].v = handler[b].v
              /\ handler'[b].opened = handler[b].opened
              /\ handler'[b].sent = handler[b].sent
              /\ handler'[b].written = handler[b].written
              /\ handler'[b].status = handler[b].status
         /\ ~handler'[attempts].up
<1>1. handler \in [Attempt -> HandlerRecord]
  BY DEF UploadInv, TypeOK
<1>2. handler' \in [Attempt -> HandlerRecord]
  <2>1. TypeOK
    BY DEF UploadInv
  <2> QED
    BY <2>1, StreamCut
<1>3. /\ \A b \in Attempt \ {attempts} : handler'[b] = handler[b]
      /\ \A b \in Attempt :
              /\ handler'[b].pc = handler[b].pc /\ handler'[b].v = handler[b].v
              /\ handler'[b].opened = handler[b].opened
              /\ handler'[b].sent = handler[b].sent
              /\ handler'[b].written = handler[b].written
              /\ handler'[b].status = handler[b].status
      /\ ~handler'[attempts].up
  BY <1>1 DEF HandlerRecord
<1>4. HandlersOK'
  BY <1>3 DEF UploadInv, HandlersOK, HandlerOK
<1> QED
  BY <1>2, <1>3, <1>4

\* The connection of the upload in progress, or its answer, is lost.
LEMMA BreakStep ==
  ASSUME UploadInv, Break, faults' = faults + 1, faults' <= MaxFaults
  PROVE  UploadInv'
<1> USE DEF UploadInv, readerVars, clientVars, history
<1>1. attempts \in Attempt
  BY AttemptInProgress DEF Break
<1>2. /\ UNCHANGED <<disk, registered, readerVars, clientVars, history>>
      /\ handler' = [handler EXCEPT ![attempts].up = FALSE]
      /\ call.pc \in {"send", "finish"}
  BY DEF Break
<1>3. /\ handler' \in [Attempt -> HandlerRecord] /\ HandlersOK'
      /\ \A b \in Attempt :
              /\ handler'[b].pc = handler[b].pc /\ handler'[b].v = handler[b].v
              /\ handler'[b].opened = handler[b].opened
              /\ handler'[b].sent = handler[b].sent
              /\ handler'[b].written = handler[b].written
      /\ ~handler'[attempts].up
  BY <1>1, <1>2, CutStep
<1>4. TypeOK'
  BY <1>2, <1>3, BoundsAssumption DEF TypeOK
<1>5. CallOK' /\ KeptOK'
  BY <1>1, <1>2, <1>3 DEF CallOK, Answered, KeptOK
<1>6. CountOK'
  BY <1>2 DEF CountOK, TypeOK, Version
<1>7. RegisteredOK' /\ NewestOK' /\ ChangeIsAnnounced' /\ FileIsOneVersion'
  BY <1>2, <1>3, StreamFrame DEF Changing
<1> QED
  BY <1>3, <1>4, <1>5, <1>6, <1>7

\* The client's process ends: what it has not stored is lost with it.
LEMMA CrashStep ==
  ASSUME UploadInv, Crash, faults' = faults + 1, faults' <= MaxFaults
  PROVE  UploadInv'
<1> USE DEF UploadInv, readerVars, history
<1>1. /\ UNCHANGED <<disk, registered, readerVars, history, version, attempts>>
      /\ ~dirty' /\ dirty' \in BOOLEAN /\ streams' = "no"
      /\ call' \in CallRecord /\ call'.pc = "crashed" /\ ~call'.ok
  BY IdleIs DEF Crash
<1>2. /\ handler' \in [Attempt -> HandlerRecord] /\ HandlersOK'
      /\ \A b \in Attempt :
              /\ handler'[b].pc = handler[b].pc /\ handler'[b].v = handler[b].v
              /\ handler'[b].opened = handler[b].opened
              /\ handler'[b].written = handler[b].written
  <2>1. CASE attempts = 0
    <3>1. handler' = handler
      BY <2>1 DEF Crash
    <3> QED
      BY <1>1, <3>1 DEF HandlersOK, HandlerOK, TypeOK
  <2>2. CASE attempts # 0
    <3>1. attempts \in Attempt
      BY <2>2, BoundsAssumption DEF TypeOK, Attempt, MaxAttempts
    <3>2. handler' = [handler EXCEPT ![attempts].up = FALSE]
      BY <2>2 DEF Crash
    <3> QED
      BY <1>1, <3>1, <3>2, CutStep
  <2> QED
    BY <2>1, <2>2
<1>3. TypeOK'
  BY <1>1, <1>2, BoundsAssumption DEF TypeOK
<1>4. CallOK' /\ KeptOK'
  BY <1>1 DEF CallOK, KeptOK
<1>5. CountOK'
  BY <1>1 DEF CountOK, TypeOK, Version
<1>6. RegisteredOK' /\ NewestOK' /\ ChangeIsAnnounced' /\ FileIsOneVersion'
  BY <1>1, <1>2, StreamFrame DEF Changing
<1> QED
  BY <1>2, <1>3, <1>4, <1>5, <1>6

\* The server restarts: no handler is left, and no reader is connected.
LEMMA RestartStep ==
  ASSUME UploadInv, Restart, faults' = faults + 1, faults' <= MaxFaults
  PROVE  UploadInv'
<1> USE DEF UploadInv, clientVars, history
<1>1. /\ UNCHANGED <<disk, copy, clientVars, history>>
      /\ connected' = {} /\ registered' = {} /\ inbox' = [r \in Reader |-> 0]
  BY DEF Restart
<1>2. PICK h : h = [NoHandler EXCEPT !.pc = "done"]
  OBVIOUS
<1>3. NoHandler \in HandlerRecord /\ h \in HandlerRecord
  <2>1. NoHandler \in HandlerRecord
    BY ChunksAssumption DEF NoHandler, HandlerRecord
  <2> QED
    BY <1>2, <2>1 DEF HandlerRecord
<1>4. /\ handler' \in [Attempt -> HandlerRecord]
      /\ \A b \in Attempt :
           /\ handler'[b] \in {NoHandler, h}
           /\ handler[b].pc = "none" <=> handler'[b].pc = "none"
  <2>1. handler' = [a \in Attempt |-> IF handler[a].pc = "none" THEN NoHandler ELSE h]
    BY <1>2 DEF Restart
  <2>2. NoHandler.pc = "none" /\ h.pc = "done"
    BY <1>2 DEF NoHandler
  <2> QED
    BY <1>3, <2>1, <2>2
<1>5. \A b \in Attempt :
        /\ handler'[b].pc \in {"none", "done"} /\ ~handler'[b].opened
        /\ handler'[b].sent = 0 /\ handler'[b].written = 0 /\ ~handler'[b].up
  BY <1>2, <1>4 DEF NoHandler
<1>6. TypeOK'
  BY <1>1, <1>4, BoundsAssumption DEF TypeOK
<1>7. HandlersOK'
  BY <1>1, <1>4, <1>5 DEF HandlersOK, HandlerOK, Working
<1>8. call.pc \in {"send", "finish"} => attempts \in Attempt
  BY AttemptInProgress
<1>9. CallOK'
  BY <1>1, <1>4, <1>5, <1>8, ChunksAssumption DEF CallOK, Working, Answered
<1>10. CountOK'
  BY <1>1 DEF CountOK, TypeOK, Version
<1>11. KeptOK'
  BY <1>1, <1>5, <1>8 DEF KeptOK, Stored, Answered, Working
<1>12. RegisteredOK' /\ NewestOK' /\ ChangeIsAnnounced' /\ FileIsOneVersion'
  BY <1>1, <1>5 DEF RegisteredOK, NewestOK, ChangeIsAnnounced, FileIsOneVersion
<1> QED
  BY <1>6, <1>7, <1>9, <1>10, <1>11, <1>12

-----------------------------------------------------------------------------
(***************************************************************************)
(* The handlers.                                                           *)
(***************************************************************************)
\* Readers' copies are outdated, not dropped.
LEMMA OutdateIs ==
  ASSUME copy \in [Reader -> {"none", "current", "stale"}], Outdate
  PROVE  /\ copy' \in [Reader -> {"none", "current", "stale"}]
         /\ \A r \in Reader : copy'[r] = "none" <=> copy[r] = "none"
BY DEF Outdate

\* The first message: the file is opened and truncated.  The handler is then
\* the newest to have done so, or an older one that disturbs it.
LEMMA OpenFileStep ==
  ASSUME UploadInv, NEW a \in Attempt, OpenFile(a), UNCHANGED faults
  PROVE  UploadInv'
<1> USE DEF UploadInv, clientVars
<1>1. /\ UNCHANGED <<registered, connected, inbox, clientVars>>
      /\ handler[a].pc = "read" /\ ~handler[a].opened /\ handler[a].sent > 0
      /\ disk' = <<>> /\ handler' = [handler EXCEPT ![a].opened = TRUE]
      /\ newest' = IF a > newest THEN a ELSE newest
      /\ handler \in [Attempt -> HandlerRecord]
      /\ a \in Nat /\ newest \in Nat /\ attempts \in Nat
  BY DEF OpenFile, TypeOK, Attempt
<1>d. disturbed' \in BOOLEAN /\ (disturbed' <=> a < newest)
  <2>1. disturbed' = (a < newest)
    BY DEF OpenFile
  <2>2. disturbed' <=> a < newest
    BY <2>1, Zenon
  <2>3. disturbed' \in BOOLEAN
    BY <1>1, <2>1, SMT
  <2> QED
    BY <2>2, <2>3
<1>2. /\ copy' \in [Reader -> {"none", "current", "stale"}]
      /\ \A r \in Reader : copy'[r] = "none" <=> copy[r] = "none"
  BY OutdateIs DEF OpenFile, TypeOK
<1>3. /\ handler' \in [Attempt -> HandlerRecord]
      /\ \A b \in Attempt \ {a} : handler'[b] = handler[b]
      /\ handler'[a].opened
      /\ \A b \in Attempt :
              /\ handler'[b].pc = handler[b].pc /\ handler'[b].v = handler[b].v
              /\ handler'[b].sent = handler[b].sent /\ handler'[b].up = handler[b].up
              /\ handler'[b].written = handler[b].written
              /\ handler'[b].status = handler[b].status
  BY <1>1 DEF HandlerRecord
<1>4. a # newest /\ a <= attempts /\ handler[a].written = 0
  BY <1>1 DEF HandlersOK, HandlerOK
<1>5. newest' >= a /\ newest' >= newest /\ newest' \in {a, newest} /\ newest' \in Nat
  BY <1>1
<1>6. TypeOK'
  <2>1. disk' \in UNION {[1..n -> Version \cup {Hole}] : n \in 0..Chunks}
    <3>1. <<>> \in [1..0 -> Version \cup {Hole}]
      OBVIOUS
    <3>2. 0 \in 0..Chunks
      BY ChunksAssumption
    <3> QED
      BY <1>1, <3>1, <3>2
  <2>2. newest' \in 0..MaxAttempts /\ disturbed' \in BOOLEAN
    BY <1>1, <1>d, <1>5 DEF TypeOK, Attempt
  <2> QED
    BY <1>1, <1>2, <1>3, <2>1, <2>2 DEF TypeOK
<1>7. HandlersOK'
  <2> SUFFICES ASSUME NEW b \in Attempt PROVE HandlerOK(b)'
    BY DEF HandlersOK
  <2>1. CASE b = a
    BY <1>1, <1>3, <1>4, <1>5, <2>1 DEF HandlersOK, HandlerOK, Working
  <2>2. CASE b # a
    BY <1>1, <1>3, <1>5, <2>2 DEF HandlersOK, HandlerOK, Attempt
  <2> QED
    BY <2>1, <2>2
<1>8. call.pc \in {"send", "finish"} => attempts \in Attempt
  BY AttemptInProgress
<1>9. CallOK' /\ CountOK'
  BY <1>1, <1>3, <1>4, <1>5, <1>8 DEF CallOK, CountOK, Live, GivenUp, Answered
<1>10. Stored => Stored'
  BY <1>1, <1>d, <1>3 DEF Stored, Working
<1>11. KeptOK'
  BY <1>1, <1>3, <1>8, <1>10 DEF KeptOK, Answered
<1>12. RegisteredOK' /\ ChangeIsAnnounced'
  BY <1>1, <1>2, <1>3 DEF RegisteredOK, ChangeIsAnnounced, Changing, TypeOK
<1>13. FileIsOneVersion'
  BY <1>1, <1>d, BoundsAssumption DEF FileIsOneVersion, Version
<1>14. NewestOK'
  <2> SUFFICES ASSUME NEW b \in Attempt, b = newest', ~disturbed'
               PROVE  disk' = [k \in 1..handler'[b].written |-> handler'[b].v]
    BY DEF NewestOK
  <2>1. b = a /\ handler'[b].written = 0
    BY <1>1, <1>d, <1>3, <1>4, <1>5
  <2> QED
    BY <1>1, <2>1
<1> QED
  BY <1>6, <1>7, <1>9, <1>11, <1>12, <1>13, <1>14

\* A chunk is written behind the handler's last one: by the newest handler into
\* a file that has nothing else, or by an older one.
LEMMA WriteChunkStep ==
  ASSUME UploadInv, NEW a \in Attempt, WriteChunk(a), UNCHANGED faults
  PROVE  UploadInv'
<1> USE DEF UploadInv, clientVars
<1>1. /\ UNCHANGED <<registered, connected, inbox, clientVars, newest>>
      /\ handler[a].pc = "read" /\ handler[a].opened
      /\ handler[a].written < handler[a].sent
      /\ disk' = WriteAt(disk, handler[a].written + 1, handler[a].v)
      /\ handler' = [handler EXCEPT ![a].written = handler[a].written + 1]
      /\ disturbed' \in BOOLEAN /\ (disturbed' <=> disturbed \/ a < newest)
      /\ handler \in [Attempt -> HandlerRecord]
  BY DEF WriteChunk, TypeOK
<1>2. /\ copy' \in [Reader -> {"none", "current", "stale"}]
      /\ \A r \in Reader : copy'[r] = "none" <=> copy[r] = "none"
  BY OutdateIs DEF WriteChunk, TypeOK
<1>3. /\ handler[a].written \in Nat /\ handler[a].written + 1 \in 1..Chunks
      /\ handler[a].v \in Version /\ a <= newest
      /\ a \in Nat /\ newest \in Nat
  <2>1. handler[a].written \in 0..Chunks /\ handler[a].sent \in 0..Chunks
    BY <1>1 DEF HandlerRecord
  <2>2. handler[a].v \in Version /\ a <= newest
    BY <1>1 DEF HandlersOK, HandlerOK, Working
  <2> QED
    BY <1>1, <2>1, <2>2, ChunksAssumption DEF TypeOK, Attempt
<1>4. /\ handler' \in [Attempt -> HandlerRecord]
      /\ \A b \in Attempt \ {a} : handler'[b] = handler[b]
      /\ handler'[a].written = handler[a].written + 1
      /\ \A b \in Attempt :
              /\ handler'[b].pc = handler[b].pc /\ handler'[b].v = handler[b].v
              /\ handler'[b].opened = handler[b].opened
              /\ handler'[b].sent = handler[b].sent /\ handler'[b].up = handler[b].up
              /\ handler'[b].status = handler[b].status
  <2>1. handler[a].written + 1 \in 0..Chunks
    BY <1>3, ChunksAssumption
  <2> QED
    BY <1>1, <2>1 DEF HandlerRecord
<1>5. TypeOK'
  <2>1. PICK n \in 0..Chunks : disk \in [1..n -> Version \cup {Hole}]
    BY DEF TypeOK
  <2>2. disk' \in UNION {[1..m -> Version \cup {Hole}] : m \in 0..Chunks}
    BY <1>1, <1>3, <2>1, WriteAtType
  <2>3. disturbed' \in BOOLEAN
    BY <1>1
  <2> QED
    BY <1>1, <1>2, <1>4, <2>2, <2>3 DEF TypeOK
<1>6. HandlersOK'
  <2> SUFFICES ASSUME NEW b \in Attempt PROVE HandlerOK(b)'
    BY DEF HandlersOK
  <2>1. CASE b = a
    <3>1. handler'[a].written <= handler'[a].sent
      BY <1>1, <1>3, <1>4 DEF HandlerRecord
    <3> QED
      BY <1>1, <1>4, <2>1, <3>1 DEF HandlersOK, HandlerOK
  <2>2. CASE b # a
    BY <1>1, <1>4, <2>2 DEF HandlersOK, HandlerOK
  <2> QED
    BY <2>1, <2>2
<1>7. call.pc \in {"send", "finish"} => attempts \in Attempt
  BY AttemptInProgress
<1>8. CallOK' /\ CountOK'
  BY <1>1, <1>4, <1>7 DEF CallOK, CountOK, Live, GivenUp, Answered
<1>9. Stored => Stored'
  BY <1>1, <1>4 DEF Stored, Working
<1>10. KeptOK'
  BY <1>1, <1>4, <1>7, <1>9 DEF KeptOK, Answered
<1>11. RegisteredOK' /\ ChangeIsAnnounced'
  BY <1>1, <1>2, <1>4 DEF RegisteredOK, ChangeIsAnnounced, Changing, TypeOK
<1>12. a = newest /\ ~disturbed' =>
         disk' = [k \in 1..handler'[a].written |-> handler'[a].v]
  <2> SUFFICES ASSUME a = newest, ~disturbed'
               PROVE  disk' = [k \in 1..handler'[a].written |-> handler'[a].v]
    OBVIOUS
  <2>1. disk = [k \in 1..handler[a].written |-> handler[a].v]
    BY <1>1 DEF NewestOK
  <2>2. disk' = [k \in 1..(handler[a].written + 1) |-> handler[a].v]
    <3> DEFINE w == handler[a].written
               v == handler[a].v
    <3>1. disk' = WriteAt(disk, w + 1, v) /\ w \in Nat
      BY <1>1, <1>3
    <3>2. disk = [k \in 1..w |-> v]
      BY <2>1
    <3> HIDE DEF w, v
    <3>3. disk' = [k \in 1..(w + 1) |-> v]
      BY <3>1, <3>2, WriteAtNext
    <3> QED
      BY <3>3 DEF w, v
  <2> QED
    BY <1>4, <2>2
<1>13. a # newest => disturbed'
  BY <1>1, <1>3
<1>14. NewestOK'
  BY <1>1, <1>12, <1>13 DEF NewestOK
<1>15. FileIsOneVersion'
  BY <1>3, <1>4, <1>12, <1>13 DEF FileIsOneVersion
<1> QED
  BY <1>5, <1>6, <1>8, <1>10, <1>11, <1>14, <1>15

\* "failed to open file", or the end of a stream of which nothing came: the
\* handler ends, with the file as it was.  So does one whose client is gone.
LEMMA EndsUnopenedStep ==
  ASSUME UploadInv, NEW a \in Attempt, handler' = Done(a, "error"),
         UNCHANGED <<disk, registered, readerVars, clientVars, history>>,
         handler[a].pc = "read", ~handler[a].opened,
         faults' \in 0..MaxFaults,
         \/ faults' = faults /\ ~handler[a].up
         \/ faults' = faults + 1
  PROVE  UploadInv'
<1> USE DEF UploadInv, readerVars, clientVars, history
<1>1. handler \in [Attempt -> HandlerRecord] /\ a \in Nat /\ attempts \in Nat
  BY DEF TypeOK, Attempt
<1>2. /\ handler' \in [Attempt -> HandlerRecord]
      /\ \A b \in Attempt \ {a} : handler'[b] = handler[b]
      /\ handler'[a].pc = "done" /\ ~handler'[a].opened
      /\ handler'[a].sent = 0 /\ handler'[a].written = 0
      /\ handler'[a].up = handler[a].up /\ handler'[a].status = "error"
  BY <1>1, DoneIs
<1>3. TypeOK'
  BY <1>2 DEF TypeOK
<1>4. HandlersOK'
  <2> SUFFICES ASSUME NEW b \in Attempt PROVE HandlerOK(b)'
    BY DEF HandlersOK
  <2>1. CASE b = a
    <3>1. a <= attempts
      BY <1>1 DEF HandlersOK, HandlerOK
    <3> QED
      BY <1>1, <1>2, <2>1, <3>1 DEF HandlerOK, Working
  <2>2. CASE b # a
    BY <1>2, <2>2 DEF HandlersOK, HandlerOK
  <2> QED
    BY <2>1, <2>2
<1>5. call.pc \in {"send", "finish"} => attempts \in Attempt
  BY AttemptInProgress
<1>6. CallOK'
  BY <1>2, <1>5, ChunksAssumption DEF CallOK, Answered, Working
<1>7. CountOK'
  <2>1. CASE faults' = faults /\ ~handler[a].up
    BY <1>2, <1>5, <2>1 DEF CountOK, Live, GivenUp
  <2>2. CASE faults' = faults + 1
    BY <2>2 DEF CountOK, TypeOK, Version
  <2> QED
    BY <2>1, <2>2
<1>8. Stored => Stored'
  BY <1>2 DEF Stored, Working
<1>9. KeptOK'
  BY <1>2, <1>5, <1>8 DEF KeptOK, Answered
<1>10. RegisteredOK' /\ NewestOK' /\ ChangeIsAnnounced' /\ FileIsOneVersion'
  BY <1>2, StreamFrame DEF Changing
<1> QED
  BY <1>3, <1>4, <1>6, <1>7, <1>9, <1>10

\* Read() returns false: a handler that has opened the file goes on to its
\* callback, also when the stream broke half-way.
LEMMA ReadEndStep ==
  ASSUME UploadInv, NEW a \in Attempt, ReadEnd(a), UNCHANGED faults
  PROVE  UploadInv'
<1> USE DEF UploadInv, readerVars, clientVars, history
<1>1. /\ UNCHANGED <<disk, registered, readerVars, clientVars, history>>
      /\ handler[a].pc = "read"
      /\ handler[a].written = Chunks \/ ~handler[a].up
      /\ handler \in [Attempt -> HandlerRecord]
      /\ faults \in 0..MaxFaults
  BY DEF ReadEnd, EndOfStream, TypeOK
<1>2. CASE ~handler[a].opened
  <2>1. ~handler[a].up
    BY <1>1, <1>2, ChunksAssumption DEF HandlersOK, HandlerOK
  <2> QED
    BY <1>1, <1>2, <2>1, EndsUnopenedStep DEF ReadEnd
<1>3. CASE handler[a].opened
  <2>1. handler' = [handler EXCEPT ![a].pc = "callback"]
    BY <1>3 DEF ReadEnd
  <2>2. /\ handler' \in [Attempt -> HandlerRecord]
        /\ \A b \in Attempt \ {a} : handler'[b] = handler[b]
        /\ handler'[a].pc = "callback"
        /\ \A b \in Attempt :
              /\ handler'[b].opened = handler[b].opened /\ handler'[b].v = handler[b].v
              /\ handler'[b].sent = handler[b].sent /\ handler'[b].up = handler[b].up
              /\ handler'[b].written = handler[b].written
              /\ handler'[b].status = handler[b].status
    BY <1>1, <2>1 DEF HandlerRecord
  <2>3. TypeOK'
    BY <1>1, <2>2 DEF TypeOK
  <2>4. HandlersOK'
    BY <1>1, <1>3, <2>2 DEF HandlersOK, HandlerOK, Working
  <2>5. call.pc \in {"send", "finish"} => attempts \in Attempt
    BY AttemptInProgress
  <2>6. CallOK' /\ CountOK'
    BY <1>1, <2>2, <2>5 DEF CallOK, CountOK, Live, GivenUp, Answered, Working
  <2>7. Stored => Stored'
    BY <1>1, <2>2 DEF Stored, Working
  <2>8. KeptOK'
    BY <1>1, <2>2, <2>5, <2>7 DEF KeptOK, Answered
  <2>9. RegisteredOK' /\ NewestOK' /\ ChangeIsAnnounced' /\ FileIsOneVersion'
    BY <1>1, <2>2, StreamFrame DEF Changing
  <2> QED
    BY <2>3, <2>4, <2>6, <2>8, <2>9
<1> QED
  BY <1>2, <1>3

\* The readers are told, and the attempt is answered.  If the client can hear
\* it, all it has sent is in the file, and no later handler was there.
LEMMA CallbackStep ==
  ASSUME UploadInv, NEW a \in Attempt, Callback(a), UNCHANGED faults
  PROVE  UploadInv'
<1> USE DEF UploadInv, clientVars, history
<1>1. /\ UNCHANGED <<disk, registered, connected, copy, clientVars, history>>
      /\ handler[a].pc = "callback"
      /\ inbox' = [r \in Reader |-> IF r \in registered \cap connected
                                    THEN inbox[r] + 1 ELSE inbox[r]]
      /\ handler' = Done(a, "ok")
      /\ handler \in [Attempt -> HandlerRecord]
      /\ a \in Nat /\ attempts \in Nat /\ newest \in Nat
  BY DEF Callback, TypeOK, Attempt
<1>2. /\ handler' \in [Attempt -> HandlerRecord]
      /\ \A b \in Attempt \ {a} : handler'[b] = handler[b]
      /\ handler'[a].pc = "done" /\ ~handler'[a].opened
      /\ handler'[a].sent = 0 /\ handler'[a].written = 0
      /\ handler'[a].up = handler[a].up /\ handler'[a].status = "ok"
  BY <1>1, DoneIs
<1>3. /\ handler[a].opened /\ handler[a].status = "none"
      /\ a <= newest /\ a <= attempts
      /\ handler[a].up => handler[a].written = Chunks
      /\ handler[a].written <= handler[a].sent
  BY <1>1 DEF HandlersOK, HandlerOK, Working
<1>4. TypeOK'
  BY <1>1, <1>2 DEF TypeOK
<1>5. HandlersOK'
  <2> SUFFICES ASSUME NEW b \in Attempt PROVE HandlerOK(b)'
    BY DEF HandlersOK
  <2>1. CASE b = a
    BY <1>1, <1>2, <1>3, <2>1 DEF HandlerOK, Working
  <2>2. CASE b # a
    BY <1>1, <1>2, <2>2 DEF HandlersOK, HandlerOK
  <2> QED
    BY <2>1, <2>2
<1>6. call.pc \in {"send", "finish"} => attempts \in Attempt
  BY AttemptInProgress
<1>7. CallOK'
  <2>1. ASSUME call.pc = "send", a = attempts PROVE ~handler[a].up
    BY <1>1, <1>3, <2>1, ChunksAssumption DEF CallOK, HandlerRecord
  <2>2. call.pc = "send" => ~Answered(attempts)'
    BY <1>1, <1>2, <1>6, <2>1 DEF CallOK, Answered
  <2> QED
    BY <1>1, <1>2, <1>6, <2>2, ChunksAssumption DEF CallOK, Working
<1>8. CountOK'
  BY <1>1, <1>2, <1>3, <1>6 DEF CountOK, Live, GivenUp
<1>9. Stored => Stored'
  BY <1>1, <1>2 DEF Stored, Working
<1>10. ASSUME call.pc = "finish", a = attempts, handler[a].up
       PROVE  Stored'
  <2>1. a = newest
    BY <1>1, <1>3, <1>10 DEF CallOK
  <2>2. \A b \in Attempt : handler'[b].pc \in Working => b < newest
    <3> SUFFICES ASSUME NEW b \in Attempt, b # a, handler[b].pc \in Working
                 PROVE  b < newest
      BY <1>2 DEF Working
    <3>1. b <= attempts /\ b \in Nat
      BY <1>1 DEF HandlersOK, HandlerOK, Working, Attempt
    <3> QED
      BY <1>1, <1>10, <2>1, <3>1
  <2>3. handler[a].v = version
    BY <1>1, <1>10 DEF CallOK, Working
  <2>4. disk = Full(version) \/ disturbed
    BY <1>3, <1>10, <2>1, <2>3 DEF NewestOK, Full
  <2> QED
    BY <1>1, <2>2, <2>4 DEF Stored
<1>11. KeptOK'
  BY <1>1, <1>2, <1>6, <1>9, <1>10 DEF KeptOK, Answered
<1>12. RegisteredOK' /\ FileIsOneVersion' /\ NewestOK'
  BY <1>1, <1>2 DEF RegisteredOK, FileIsOneVersion, NewestOK
<1>13. ChangeIsAnnounced'
  <2> SUFFICES ASSUME NEW r \in connected, copy[r] = "stale"
               PROVE  inbox'[r] > 0
    BY <1>1 DEF ChangeIsAnnounced
  <2>1. r \in registered \cap connected /\ inbox[r] \in Nat
    BY DEF RegisteredOK, TypeOK
  <2> QED
    BY <1>1, <2>1 DEF TypeOK
<1> QED
  BY <1>4, <1>5, <1>7, <1>8, <1>11, <1>12, <1>13

-----------------------------------------------------------------------------
(***************************************************************************)
(* The readers.                                                            *)
(***************************************************************************)
\* A reader that fetches the file is registered; one that drops its copy has
\* no outdated one.
LEMMA ReaderStep ==
  ASSUME UploadInv, NEW r \in Reader, Fetch(r) \/ Receive(r), UNCHANGED faults
  PROVE  UploadInv'
<1> USE DEF UploadInv, serverVars, clientVars, history
<1>1. /\ UNCHANGED <<disk, handler, connected, clientVars, history>>
      /\ registered \subseteq registered' /\ registered' \subseteq Reader
      /\ copy' \in [Reader -> {"none", "current", "stale"}]
      /\ inbox' \in [Reader -> Nat]
      /\ copy'[r] = "none" \/ (copy'[r] = "current" /\ r \in registered')
      /\ \A q \in Reader \ {r} : copy'[q] = copy[q] /\ inbox'[q] = inbox[q]
  <2>1. CASE Fetch(r)
    BY <2>1 DEF Fetch, TypeOK
  <2>2. CASE Receive(r)
    <3>1. inbox[r] - 1 \in Nat
      BY <2>2 DEF Receive, TypeOK
    <3>2. inbox' = [inbox EXCEPT ![r] = inbox[r] - 1]
      BY <2>2 DEF Receive
    <3>3. inbox' \in [Reader -> Nat] /\ \A q \in Reader \ {r} : inbox'[q] = inbox[q]
      BY <3>1, <3>2 DEF TypeOK
    <3>4. copy' = [copy EXCEPT ![r] = "none"]
      BY <2>2 DEF Receive
    <3>5. /\ copy' \in [Reader -> {"none", "current", "stale"}] /\ copy'[r] = "none"
          /\ \A q \in Reader \ {r} : copy'[q] = copy[q]
      BY <3>4 DEF TypeOK
    <3>6. UNCHANGED <<disk, handler, connected, clientVars, history>>
      BY <2>2 DEF Receive
    <3>7. registered' = registered /\ registered \subseteq Reader
      BY <2>2 DEF Receive, TypeOK
    <3>8. registered \subseteq registered' /\ registered' \subseteq Reader
      BY <3>7
    <3> QED
      BY <3>3, <3>5, <3>6, <3>8
  <2> QED
    BY <2>1, <2>2
<1>2. TypeOK'
  BY <1>1 DEF TypeOK
<1>3. HandlersOK' /\ CallOK' /\ CountOK'
  BY <1>1 DEF HandlersOK, HandlerOK, CallOK, Answered, CountOK, Live, GivenUp
<1>4. NewestOK' /\ KeptOK' /\ FileIsOneVersion'
  BY <1>1 DEF NewestOK, KeptOK, Stored, Answered, FileIsOneVersion
<1>5. RegisteredOK'
  BY <1>1 DEF RegisteredOK, TypeOK
<1>6. ChangeIsAnnounced'
  BY <1>1 DEF ChangeIsAnnounced, Changing, TypeOK
<1> QED
  BY <1>2, <1>3, <1>4, <1>5, <1>6

-----------------------------------------------------------------------------
(***************************************************************************)
(* The theorems.                                                           *)
(***************************************************************************)
\* The file is stored, no upload was started, and copies are current.
LEMMA UploadInvInit == Init => UploadInv
<1> SUFFICES ASSUME Init PROVE UploadInv
  OBVIOUS
<1>0. /\ NoHandler \in HandlerRecord
      /\ NoHandler.pc = "none" /\ ~NoHandler.opened /\ NoHandler.written = 0
  BY ChunksAssumption DEF NoHandler, HandlerRecord
<1>1. /\ disk = Full(1) /\ registered \subseteq Reader /\ connected = Reader
      /\ handler \in [Attempt -> HandlerRecord]
      /\ \A a \in Attempt : handler[a].pc = "none" /\ ~handler[a].opened
                            /\ handler[a].written = 0
      /\ inbox \in [Reader -> Nat]
      /\ copy = [r \in Reader |-> IF r \in registered THEN "current" ELSE "none"]
      /\ version = 1 /\ dirty = FALSE /\ streams = "open" /\ call = Idle
      /\ attempts = 0 /\ faults = 0 /\ newest = 0 /\ disturbed = FALSE
  BY <1>0 DEF Init
<1>2. call \in CallRecord /\ call.pc = "idle" /\ ~call.ok
  BY <1>1, IdleIs DEF Idle
<1>3. 1 \in Version /\ MaxAttempts \in Nat
  BY BoundsAssumption DEF Version, MaxAttempts
<1>4. disk \in UNION {[1..n -> Version \cup {Hole}] : n \in 0..Chunks}
  <2>1. disk \in [1..Chunks -> Version \cup {Hole}] /\ Chunks \in 0..Chunks
    BY <1>1, <1>3, ChunksAssumption DEF Full
  <2> QED
    BY <2>1
<1>5. TypeOK
  <2>1. copy \in [Reader -> {"none", "current", "stale"}]
    BY <1>1
  <2>2. dirty \in BOOLEAN /\ disturbed \in BOOLEAN
    BY <1>1
  <2>3. /\ attempts \in 0..MaxAttempts /\ newest \in 0..MaxAttempts
        /\ faults \in 0..MaxFaults
    BY <1>1, <1>3, BoundsAssumption
  <2> QED
    BY <1>1, <1>2, <1>3, <1>4, <2>1, <2>2, <2>3 DEF TypeOK
<1>6. HandlersOK
  BY <1>1 DEF HandlersOK, HandlerOK, Working
<1>7. CallOK /\ CountOK
  BY <1>1, <1>2 DEF CallOK, CountOK
<1>8. RegisteredOK /\ ChangeIsAnnounced
  BY <1>1 DEF RegisteredOK, ChangeIsAnnounced
<1>9. NewestOK /\ KeptOK /\ FileIsOneVersion
  BY <1>1, <1>2, <1>3 DEF NewestOK, KeptOK, Stored, Working, FileIsOneVersion, Full
<1> QED
  BY <1>5, <1>6, <1>7, <1>8, <1>9 DEF UploadInv

\* Every step keeps the invariant.
LEMMA UploadInvNext == UploadInv /\ [Next]_vars => UploadInv'
<1> SUFFICES ASSUME UploadInv, [Next]_vars PROVE UploadInv'
  OBVIOUS
<1>1. CASE Caller /\ UNCHANGED faults
  BY <1>1, CallerStep
<1>2. CASE Continue /\ UNCHANGED faults
  BY <1>2, StartUploadStep, SendChunkStep, CallStep, ReturnStep DEF Continue
<1>3. ASSUME NEW a \in Attempt, Handler(a), UNCHANGED faults
      PROVE  UploadInv'
  BY <1>3, OpenFileStep, WriteChunkStep, ReadEndStep, CallbackStep DEF Handler
<1>4. ASSUME NEW r \in Reader, Fetch(r) \/ Receive(r), UNCHANGED faults
      PROVE  UploadInv'
  BY <1>4, ReaderStep
<1>5. CASE Fault /\ faults' = faults + 1 /\ faults' <= MaxFaults
  <2>1. ASSUME NEW a \in Attempt, OpenFails(a) PROVE UploadInv'
    <3>1. faults' \in 0..MaxFaults
      BY <1>5, BoundsAssumption DEF UploadInv, TypeOK
    <3> QED
      BY <1>5, <2>1, <3>1, EndsUnopenedStep DEF OpenFails
  <2> QED
    BY <1>5, <2>1, BreakStep, UnreachableStep, CrashStep, RestartStep DEF Fault
<1>6. CASE UNCHANGED vars
  <2>1. UNCHANGED <<serverVars, readerVars, history, attempts>>
        /\ UNCHANGED <<version, dirty, streams, call, faults>>
    BY <1>6 DEF vars, clientVars
  <2>2. TypeOK' /\ CallOK' /\ CountOK' /\ KeptOK'
    BY <2>1 DEF UploadInv, serverVars, readerVars, history, TypeOK, CallOK, CountOK,
                KeptOK, Stored, Live, GivenUp, Answered
  <2> QED
    BY <2>1, <2>2, ClientFrame
<1> QED
  BY <1>1, <1>2, <1>3, <1>4, <1>5, <1>6 DEF Next

\* The invariant holds in all reachable states.
THEOREM UploadInvHolds == Spec => []UploadInv
BY UploadInvInit, UploadInvNext, PTL DEF Spec

(***************************************************************************)
(* The state has its types; in particular, there is a handler for every    *)
(* attempt, although only versions and faults are bounded.                 *)
(***************************************************************************)
THEOREM UploadTypes == Spec => []TypeOK
<1>1. UploadInv => TypeOK
  BY DEF UploadInv
<1> QED
  BY <1>1, UploadInvHolds, PTL

(***************************************************************************)
(* A connected reader whose copy is not the server's file has a            *)
(* notification to read, or a handler is still to send one, whatever       *)
(* attempts failed (file_change_callback_close).                           *)
(***************************************************************************)
THEOREM UploadIsAnnounced == Spec => []ChangeIsAnnounced
<1>1. UploadInv => ChangeIsAnnounced
  BY DEF UploadInv
<1> QED
  BY <1>1, UploadInvHolds, PTL

(***************************************************************************)
(* The last modification is on the server, or it is marked in an entry     *)
(* that a later close_file() finds, unless the client died or a handler    *)
(* given up before has changed the file since.                             *)
(***************************************************************************)
THEOREM UploadIsKept == Spec => []ModificationIsKept
<1>1. UploadInv => ModificationIsKept
  <2> SUFFICES ASSUME UploadInv PROVE ModificationIsKept
    OBVIOUS
  <2>1. dirty => streams # "no"
    BY DEF UploadInv, CallOK
  <2>2. ~dirty /\ call.pc # "crashed" => disk = Full(version) \/ disturbed
    BY DEF UploadInv, KeptOK, Stored
  <2> QED
    BY <2>1, <2>2 DEF ModificationIsKept
<1> QED
  BY <1>1, UploadInvHolds, PTL

(***************************************************************************)
(* An interrupted upload leaves the beginning of one version, unless a     *)
(* handler given up before writes into the file.                           *)
(***************************************************************************)
THEOREM UploadIsOneVersion == Spec => []FileIsOneVersion
<1>1. UploadInv => FileIsOneVersion
  BY DEF UploadInv
<1> QED
  BY <1>1, UploadInvHolds, PTL
=============================================================================
