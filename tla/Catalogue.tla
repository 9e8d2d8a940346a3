----------------------------- MODULE Catalogue -----------------------------
(***************************************************************************)
(* What the knowledge base promises of its documents: one is listed from   *)
(* its upload until its deletion has ended, and never again; its chunks    *)
(* come as a whole and while it is listed, once and once more per fault;   *)
(* the number shown for it is that of chunks that are stored, as long as   *)
(* nobody has begun to delete it; and a deletion takes all of its chunks   *)
(* before it takes the document.                                           *)
(*                                                                         *)
(* Abstract specification of KnowledgeIndexing: no uploads under way, no   *)
(* queue, no worker and no users.                                          *)
(***************************************************************************)
EXTENDS Naturals

CONSTANTS Doc,
          Size    \* how many chunks a document may have, above zero

VARIABLES
  known,    \* documents that are or were listed
  status,   \* what the list shows of each, "absent" when it does not
  count,    \* the number of chunks it shows
  copies,   \* the chunks: how many each copy <<document, number>> has
  purged,   \* documents a deletion was begun of
  removed,  \* those a deletion was ended of
  faults    \* lost connections and crashes so far

vars == <<known, status, count, copies, purged, removed, faults>>

Init ==
  /\ known = {} /\ purged = {} /\ removed = {}
  /\ status = [d \in Doc |-> "absent"]
  /\ count = [d \in Doc |-> 0]
  /\ copies = [x \in {} |-> 0]
  /\ faults = 0

CopiesOf(d) == {x \in DOMAIN copies : x[1] = d}

Add(d) ==
  /\ d \notin known
  /\ known' = known \union {d}
  /\ status' = [status EXCEPT ![d] = "pending"]
  /\ UNCHANGED <<count, copies, purged, removed, faults>>

Store(d) ==
  /\ status[d] # "absent"
  /\ \E n \in 1 .. faults + 1, size \in Size :
       /\ <<d, n>> \notin DOMAIN copies
       /\ copies' = [x \in DOMAIN copies \union {<<d, n>>} |->
                       IF x = <<d, n>> THEN size ELSE copies[x]]
  /\ UNCHANGED <<known, status, count, purged, removed, faults>>

Report(d) ==
  /\ status[d] # "absent"
  /\ \E s \in {"processing", "indexed", "failed"} : status' = [status EXCEPT ![d] = s]
  /\ \/ UNCHANGED count
     \/ \E size \in {copies[x] : x \in CopiesOf(d)} \union (IF d \in purged THEN Size ELSE {}) :
          count' = [count EXCEPT ![d] = size]
  /\ UNCHANGED <<known, copies, purged, removed, faults>>

Empty(d) ==
  /\ d \in known
  /\ copies' = [x \in DOMAIN copies \ CopiesOf(d) |-> copies[x]]
  /\ purged' = purged \union {d}
  /\ UNCHANGED <<known, status, count, removed, faults>>

Remove(d) ==
  /\ d \in purged /\ CopiesOf(d) = {}
  /\ status' = [status EXCEPT ![d] = "absent"]
  /\ removed' = removed \union {d}
  /\ UNCHANGED <<known, count, copies, purged, faults>>

Fault ==
  /\ faults' = faults + 1
  /\ UNCHANGED <<known, status, count, copies, purged, removed>>

Next ==
  \/ \E d \in Doc : Add(d) \/ Store(d) \/ Report(d) \/ Empty(d) \/ Remove(d)
  \/ Fault

Spec == Init /\ [][Next]_vars
=============================================================================
