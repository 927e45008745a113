------------------------ MODULE NotificationChannel -------------------------
(***************************************************************************)
(* What the other modules take the callback channel to be: for each client *)
(* one FIFO from the server's callbacks to its subscriber thread, which a  *)
(* break of the stream cuts off for good; a callback that tells all        *)
(* registered clients in one step; and a cleanup in one step.              *)
(***************************************************************************)
EXTENDS Integers, Sequences

CONSTANTS Client, Note

VARIABLES file_map,     \* the clients registered for the file
          clients_db,   \* the clients the dashboard shows
          subscribers,  \* the clients that have a queue
          stream,       \* "new": subscribe() is on its way; "up"; "down"
          queue,        \* what was pushed for a client and not yet read
          note          \* the last notification each client has read, or 0

vars == <<file_map, clients_db, subscribers, stream, queue, note>>

Init ==
  /\ file_map \in SUBSET Client
  /\ clients_db = Client /\ subscribers = {}
  /\ stream = [c \in Client |-> "new"]
  /\ queue = [c \in Client |-> <<>>]
  /\ note = [c \in Client |-> 0]

Subscribe(c) ==
  /\ c \notin subscribers
  /\ subscribers' = subscribers \cup {c}
  /\ stream' = [stream EXCEPT ![c] = IF @ = "new" THEN "up" ELSE @]
  /\ UNCHANGED <<file_map, clients_db, queue, note>>

Register(c) ==
  /\ file_map' = file_map \cup {c}
  /\ UNCHANGED <<clients_db, subscribers, stream, queue, note>>

\* c has changed the file, or has removed it, and with it its entry.
Announce(c, n) ==
  /\ queue' = [d \in Client |->
                 IF d \in (file_map \cap subscribers) \ {c} /\ stream[d] = "up"
                 THEN Append(queue[d], n) ELSE queue[d]]
  /\ file_map' \in {file_map, {}}
  /\ UNCHANGED <<clients_db, subscribers, stream, note>>

Receive(c) ==
  /\ queue[c] # <<>>
  /\ note' = [note EXCEPT ![c] = Head(queue[c])]
  /\ queue' = [queue EXCEPT ![c] = Tail(@)]
  /\ UNCHANGED <<file_map, clients_db, subscribers, stream>>

Break(c) ==
  /\ stream[c] # "down"
  /\ stream' = [stream EXCEPT ![c] = "down"]
  /\ \E n \in 0..Len(queue[c]) : queue' = [queue EXCEPT ![c] = SubSeq(@, 1, n)]
  /\ UNCHANGED <<file_map, clients_db, subscribers, note>>

Cleanup(c) ==
  /\ stream[c] = "down" /\ c \in subscribers
  /\ clients_db' = clients_db \ {c}
  /\ file_map' = file_map \ {c}
  /\ subscribers' = subscribers \ {c}
  /\ UNCHANGED <<stream, queue, note>>

Next ==
  \E c \in Client :
    \/ Subscribe(c) \/ Register(c) \/ \E n \in Note : Announce(c, n)
    \/ Receive(c) \/ Break(c) \/ Cleanup(c)

Spec == Init /\ [][Next]_vars
=============================================================================
