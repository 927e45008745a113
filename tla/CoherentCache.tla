---------------------------- MODULE CoherentCache ---------------------------
(***************************************************************************)
(* What a caching client may rely on, without saying how: a copy that has  *)
(* not been withdrawn is the file as the server has it.  Changing a file   *)
(* withdraws every copy of it at once.                                     *)
(***************************************************************************)
CONSTANTS Client, Path, Content, None

VARIABLES content,  \* the file itself, or None
          copy      \* the copy of each client, None once withdrawn

vars == <<content, copy>>

Init ==
  /\ content \in [Path -> Content \cup {None}]
  /\ copy = [c \in Client |-> [p \in Path |-> None]]

\* c gets a copy of p.
Fetch(c, p) ==
  /\ content[p] # None
  /\ copy' = [copy EXCEPT ![c][p] = content[p]]
  /\ UNCHANGED content

\* The file changes, and no copy of the old one is left.
Change(p, v) ==
  /\ content' = [content EXCEPT ![p] = v]
  /\ copy' = [c \in Client |-> [copy[c] EXCEPT ![p] = None]]

\* Copies are given up, for whatever reason.
Withdraw ==
  /\ copy' \in [Client -> [Path -> Content \cup {None}]]
  /\ \A c \in Client, p \in Path : copy'[c][p] \in {copy[c][p], None}
  /\ UNCHANGED content

Next ==
  \/ \E c \in Client, p \in Path : Fetch(c, p)
  \/ \E p \in Path, v \in Content : Change(p, v)
  \/ Withdraw

Spec == Init /\ [][Next]_vars
=============================================================================
