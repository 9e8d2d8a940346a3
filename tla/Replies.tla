------------------------------ MODULE Replies ------------------------------
(***************************************************************************)
(* What the deliveries of one conversation leave behind: the answers kept  *)
(* in Redis (memory_service.py), and the score and stage of the lead       *)
(* (lead_scorer.py), which a human agent sets too (lead_service.py).       *)
(*                                                                         *)
(* Both are read, changed and written back by calls that suspend in        *)
(* between, and nothing keeps two deliveries, or a delivery and a human,   *)
(* from overlapping.  A column goes to the database only when it differs   *)
(* from the row its session loaded, so that two updates can each leave a   *)
(* part of themselves.                                                     *)
(*                                                                         *)
(* A delivery is a run of _process once the customer did not ask for a     *)
(* human; it ends here where the answer is sent, which SalesPipeline takes *)
(* up.  As in its run "repaired", calls are taken to fit their callees.    *)
(***************************************************************************)
EXTENDS Integers, Sequences

CONSTANTS Delivery,   \* runs of _process, of different messages or of one
          Human,      \* calls of update_lead_stage
          HumanStage, \* the stages they ask for
          Change,     \* what the signals in the message of a delivery add up to
          Hits,       \* uncertainty phrases an answer may have
          Threshold,  \* AI_CONFIDENCE_THRESHOLD, in percent
          Window      \* entries the memory keeps

Stage == {"cold", "warm", "hot", "qualified", "converted"}

ASSUME DeliveryAssumption == Delivery \intersect Human = {}
ASSUME HumanStageAssumption == HumanStage \subseteq Stage
ASSUME ChangeAssumption == Change \in [Delivery -> Int]
ASSUME HitsAssumption == Hits \subseteq Nat /\ Threshold \in Nat
ASSUME WindowAssumption == Window \in Nat \ {0}

Row == [score: 0 .. 100, stage: Stage]
NoRow == [score |-> 0, stage |-> "none"]
NewLead == [score |-> 0, stage |-> "cold"]
Phase == {"new", "recall", "extend", "saved", "scored", "loaded", "over"}

VARIABLES
  at,          \* what each delivery and each human's call does next
  held,        \* its local variables, gone when it is over
  memory,      \* the entries in Redis, each named by the delivery it is of
  lead,        \* the row of the lead
  replica,     \* the row as the read replica has it
  written,     \* history: the deliveries whose entry was written, in order
  expired,     \* history: how many of them were written before the last expiry
  torn,        \* history: an entry was written over what its delivery had not read
  ledger,      \* history: the lead, had the updates run one after the other
  raced        \* history: an update was committed over what it had not read

memoryVars == <<memory, written, expired, torn>>
leadVars == <<lead, replica, ledger, raced>>
vars == <<at, held, memoryVars, leadVars>>

\* The confidence of the answer in percent, the entries read and about to be
\* extended, the row the scorer read, the row an update loaded in its own
\* session, and the row as it is to become.
Local == [confidence: 0 .. 100, recalled: Seq(Delivery), row: Row, loaded: Row, target: Row]
NoLocal == [confidence |-> 0, recalled |-> <<>>,
            row |-> NewLead, loaded |-> NewLead, target |-> NewLead]

TypeOK ==
  /\ at \in [Delivery \union Human -> Phase]
  /\ held \in [Delivery \union Human -> Local]
  /\ memory \in Seq(Delivery) /\ Len(memory) <= Window
  /\ lead \in Row
  /\ replica \in Row \union {NoRow}
  /\ written \in Seq(Delivery)
  /\ expired \in 0 .. Len(written)
  /\ ledger \in Row
  /\ torn \in BOOLEAN /\ raced \in BOOLEAN

\* The mediator has just created the lead; the replica may not have it yet.
Init ==
  /\ at = [a \in Delivery \union Human |-> "new"]
  /\ held = [a \in Delivery \union Human |-> NoLocal]
  /\ memory = <<>>
  /\ lead = NewLead
  /\ replica = NoRow
  /\ written = <<>>
  /\ expired = 0
  /\ torn = FALSE
  /\ ledger = NewLead
  /\ raced = FALSE

Goto(a, p) == at' = [at EXCEPT ![a] = p]
End(a) == Goto(a, "over") /\ held' = [held EXCEPT ![a] = NoLocal]

-----------------------------------------------------------------------------
(* AgentService.process_message                                             *)

Confidence(h) == IF 100 - 20 * h < 30 THEN 30 ELSE 100 - 20 * h

\* History, retrieval, the model's answer and the guardrails: nothing is written.
Answer(d) ==
  /\ at[d] = "new"
  /\ \E h \in Hits : held' = [held EXCEPT ![d].confidence = Confidence(h)]
  /\ Goto(d, "recall")
  /\ UNCHANGED <<memoryVars, leadVars>>

\* MemoryService.append reads what is there; get_history gives an empty history
\* when Redis does not answer.
Recall(d) ==
  /\ at[d] = "recall"
  /\ \E found \in {memory, <<>>} : held' = [held EXCEPT ![d].recalled = found]
  /\ Goto(d, "extend")
  /\ UNCHANGED <<memoryVars, leadVars>>

\* Mutant: history[:window].
RecentFirst(s) == SubSeq(s, 1, IF Len(s) > Window THEN Window ELSE Len(s))

\* history[-window:]
Recent(s) == SubSeq(s, IF Len(s) > Window THEN Len(s) - Window + 1 ELSE 1, Len(s))

WriteEntry(d) ==
  /\ memory' = Recent(Append(held[d].recalled, d))
  /\ written' = Append(written, d)
  /\ torn' = (torn \/ held[d].recalled # memory)
  /\ UNCHANGED expired

Remember(d) ==
  /\ at[d] = "extend"
  /\ WriteEntry(d)
  /\ Goto(d, "saved")
  /\ held' = [held EXCEPT ![d].recalled = <<>>]
  /\ UNCHANGED leadVars

\* Mutants: append is tried again when setex raises, without and with the effect.
RememberRetried(d) ==
  /\ at[d] = "extend"
  /\ Goto(d, "recall")
  /\ UNCHANGED <<held, memoryVars, leadVars>>

RememberTwice(d) ==
  /\ at[d] = "extend"
  /\ WriteEntry(d)
  /\ Goto(d, "recall")
  /\ UNCHANGED <<held, leadVars>>

\* setex raises, before or after Redis has done it; the delivery is rejected.
RememberFails(d) ==
  /\ at[d] = "extend"
  /\ WriteEntry(d) \/ UNCHANGED memoryVars
  /\ End(d)
  /\ UNCHANGED leadVars

\* The entry's time to live ran out.
Expire ==
  /\ memory # <<>>
  /\ memory' = <<>>
  /\ expired' = Len(written)
  /\ UNCHANGED <<at, held, written, torn, leadVars>>

\* A low confidence hands the conversation over: the answer stays in the memory.
HandOver(d) ==
  /\ at[d] = "saved"
  /\ held[d].confidence < Threshold
  /\ End(d)
  /\ UNCHANGED <<memoryVars, leadVars>>

-----------------------------------------------------------------------------
(* LeadScorer.update_from_message and LeadService.update_lead_stage          *)

Clamp(n) == IF n < 0 THEN 0 ELSE IF n > 100 THEN 100 ELSE n

\* Mutant: 30 counts as warm.
StageMapLow == <<[floor |-> 86, stage |-> "qualified"], [floor |-> 61, stage |-> "hot"],
                 [floor |-> 30, stage |-> "warm"], [floor |-> 0, stage |-> "cold"]>>

StageMap == <<[floor |-> 86, stage |-> "qualified"], [floor |-> 61, stage |-> "hot"],
              [floor |-> 31, stage |-> "warm"], [floor |-> 0, stage |-> "cold"]>>

\* The first entry of STAGE_MAP whose threshold the score reaches.
StageOf(score) ==
  StageMap[CHOOSE i \in 1 .. 4 : /\ score >= StageMap[i].floor
                                 /\ \A j \in 1 .. i - 1 : score < StageMap[j].floor].stage

Scored(score) == [score |-> score, stage |-> StageOf(score)]

\* get_by_id in a read session; a lead the replica does not have is left alone.
ReadLead(d) ==
  /\ at[d] = "saved"
  /\ held[d].confidence >= Threshold
  /\ \/ replica = NoRow /\ End(d)
     \/ /\ replica # NoRow
        /\ held' = [held EXCEPT ![d].row = replica,
                                ![d].target = Scored(Clamp(replica.score + Change[d]))]
        /\ Goto(d, "scored")
  /\ UNCHANGED <<memoryVars, leadVars>>

\* BaseRepository.update selects the row in a write session ...
LoadLead(d) ==
  /\ at[d] = "scored"
  /\ held' = [held EXCEPT ![d].loaded = lead]
  /\ Goto(d, "loaded")
  /\ UNCHANGED <<memoryVars, leadVars>>

\* ... and commits the columns whose value is no longer the loaded one.
Committed(current, old, new) ==
  [score |-> IF new.score # old.score THEN new.score ELSE current.score,
   stage |-> IF new.stage # old.stage THEN new.stage ELSE current.stage]

\* The bands of docs/implementation_plan.md:672-677.
DocumentedStage(score) ==
  CASE score \in 0 .. 30 -> "cold"
    [] score \in 31 .. 60 -> "warm"
    [] score \in 61 .. 85 -> "hot"
    [] score \in 86 .. 100 -> "qualified"

\* The ledger is kept as long as it says something.
Enter(entry, overlapped) ==
  /\ raced' = (raced \/ overlapped)
  /\ ledger' = IF raced' THEN NewLead ELSE entry

UpdateLead(d) ==
  /\ at[d] = "loaded"
  /\ lead' = Committed(lead, held[d].loaded, held[d].target)
  /\ LET score == Clamp(ledger.score + Change[d])
     IN  Enter([score |-> score, stage |-> DocumentedStage(score)],
               held[d].row # lead \/ held[d].loaded # lead)
  /\ End(d)
  /\ UNCHANGED <<memoryVars, replica>>

\* A human's call sets the stage only; other stages are refused before this.
LoadForStage(h, s) ==
  /\ at[h] = "new"
  /\ held' = [held EXCEPT ![h].loaded = lead, ![h].target = [lead EXCEPT !.stage = s]]
  /\ Goto(h, "loaded")
  /\ UNCHANGED <<memoryVars, leadVars>>

UpdateStage(h) ==
  /\ at[h] = "loaded"
  /\ lead' = Committed(lead, held[h].loaded, held[h].target)
  /\ Enter([ledger EXCEPT !.stage = held[h].target.stage], held[h].loaded # lead)
  /\ End(h)
  /\ UNCHANGED <<memoryVars, replica>>

Replicate ==
  /\ replica # lead
  /\ replica' = lead
  /\ UNCHANGED <<at, held, memoryVars, lead, ledger, raced>>

\* Any other call of the delivery or of the human raises, or the process dies.
Fail(a) ==
  /\ at[a] \notin {"extend", "over"}
  /\ End(a)
  /\ UNCHANGED <<memoryVars, leadVars>>

Process(d) ==
  \/ Answer(d) \/ Recall(d) \/ Remember(d) \/ RememberFails(d) \/ HandOver(d)
  \/ ReadLead(d) \/ LoadLead(d) \/ UpdateLead(d) \/ Fail(d)

UpdateLeadStage(h) ==
  (\E s \in HumanStage : LoadForStage(h, s)) \/ UpdateStage(h) \/ Fail(h)

Next ==
  \/ \E d \in Delivery : Process(d)
  \/ \E h \in Human : UpdateLeadStage(h)
  \/ Expire \/ Replicate

\* The event loop resumes a coroutine whose await is over, and every await is:
\* the clients of the model, of Redis and of PostgreSQL have time limits.
Fairness == WF_vars((\E d \in Delivery : Process(d)) \/ \E h \in Human : UpdateLeadStage(h))

Spec == Init /\ [][Next]_vars /\ Fairness

-----------------------------------------------------------------------------
(* Unless an update was committed over a row its reader had not seen, the    *)
(* score and the stage are what the updates give one after the other, with   *)
(* the documented bands and the human's stage until the next scored message: *)
(* failed deliveries, handed-over ones and partial updates leave no trace.   *)
LeadIsLedger == raced \/ lead = ledger

(* Unless two appends overlapped or one read nothing, the memory is the last *)
(* entries written since it expired, in order (get_history, append).         *)
MemoryIsRecent ==
  \/ torn
  \/ LET since == Len(written) - expired
     IN  /\ Len(memory) = IF since < Window THEN since ELSE Window
         /\ \A i \in 1 .. Len(memory) :
              memory[i] = written[Len(written) - Len(memory) + i]

(* Whatever overlaps, fails or expires, the memory has no entry twice and    *)
(* none before one that was written earlier: the model is never shown a      *)
(* conversation out of order.                                                *)
Earlier(d, e) ==
  \E i, j \in 1 .. Len(written) : i < j /\ written[i] = d /\ written[j] = e
MemoryInOrder ==
  \A i, j \in 1 .. Len(memory) :
     i < j => Earlier(memory[i], memory[j]) /\ ~ Earlier(memory[j], memory[i])

(* Every delivery ends, answered, handed over or rejected, and so does every *)
(* call of a human.                                                          *)
RepliesEnd == <>(\A a \in Delivery \union Human : at[a] = "over")
=============================================================================
