-------------------------- MODULE AuditChainProofs --------------------------
(***************************************************************************)
(* Theorems about the audit trail: about AuditChain for every set of       *)
(* threads and every supply of ids, and about AuditTamper for a chain and  *)
(* a choice of forgeries of any size.                                      *)
(***************************************************************************)
EXTENDS AuditChain, AuditTamper, SequenceTheorems, Sums

\* Program points at which a thread holds an id it has drawn but not recorded
\* in the chain.
Pending == {"logged", "check_read", "event_read", "verified", "counted",
            "probe_read"}

\* Program points at which a thread holds a partial report.
Reporting == {"exporting"} \cup Attesting

\* What the types of the thread-local variables rest on.
LocalsOK ==
  \A t \in Threads :
    /\ pc[t] \in Pending => ev[t] \in Ids
    /\ pc[t] \in Reporting => report[t] \in Report

TypeInv == TypeOK /\ LocalsOK

-----------------------------------------------------------------------------
(* Facts about the operators on rows.                                      *)

\* Appending a row adds its hash to the hashes of the chain.
LEMMA HashesOfAppend ==
  ASSUME NEW rows \in Seq(Row), NEW r \in Row
  PROVE  HashesOf(Append(rows, r)) = HashesOf(rows) \cup {r.event_hash}
<1>1. Append(rows, r) \in Seq(Row) /\ Len(Append(rows, r)) = Len(rows) + 1
  OBVIOUS
<1>2. \A i \in 1..Len(rows) : Append(rows, r)[i] = rows[i]
  OBVIOUS
<1>3. Append(rows, r)[Len(rows) + 1] = r
  OBVIOUS
<1>4. 1..(Len(rows) + 1) = (1..Len(rows)) \cup {Len(rows) + 1}
  OBVIOUS
<1> QED
  BY <1>1, <1>2, <1>3, <1>4 DEF HashesOf

\* The head of a chain is genesis or the hash of one of its rows.
LEMMA HeadHashIn ==
  ASSUME NEW rows \in Seq(Row)
  PROVE  HeadHash(rows) \in HashesOf(rows) \cup {GENESIS}
<1>1. CASE rows = << >>
  BY <1>1 DEF HeadHash
<1>2. CASE rows # << >>
  <2>1. Len(rows) \in 1..Len(rows)
    BY <1>2
  <2> QED
    BY <2>1, <1>2 DEF HeadHash, HashesOf
<1> QED
  BY <1>1, <1>2

\* The hashes of a well-typed chain are ids.
LEMMA HashesAreIds ==
  ASSUME NEW rows \in Seq(Row)
  PROVE  HashesOf(rows) \subseteq Ids
<1>1. \A i \in 1..Len(rows) : rows[i] \in Row
  OBVIOUS
<1>2. \A r \in Row : r.event_hash \in Ids
  BY DEF Row
<1> QED
  BY <1>1, <1>2 DEF HashesOf

\* verify_rows of a longer chain: the old rows verify and the new one names the
\* old head.
LEMMA VerifyAppend ==
  ASSUME NEW rows \in Seq(Row), NEW r \in Row
  PROVE  VerifyRows(Append(rows, r)) <=>
           VerifyRows(rows) /\ r.previous_hash = HeadHash(rows)
<1> DEFINE more == Append(rows, r)
<1>1. more \in Seq(Row) /\ Len(more) = Len(rows) + 1 /\ Len(rows) \in Nat
  OBVIOUS
<1>2. \A i \in 1..Len(rows) : more[i] = rows[i]
  OBVIOUS
<1>3. more[Len(rows) + 1] = r
  OBVIOUS
<1>4. \A i \in 1..Len(rows) : ExpectedPrev(more, i) = ExpectedPrev(rows, i)
  BY <1>1, <1>2 DEF ExpectedPrev
<1>5. ExpectedPrev(more, Len(rows) + 1) = HeadHash(rows)
  <2>1. CASE Len(rows) = 0
    BY <2>1, <1>1 DEF ExpectedPrev, HeadHash
  <2>2. CASE Len(rows) # 0
    <3>1. rows # << >> /\ Len(rows) \in 1..Len(rows)
      BY <2>2
    <3>2. more[(Len(rows) + 1) - 1] = rows[Len(rows)]
      BY <3>1, <1>1, <1>2
    <3> QED
      BY <3>1, <3>2, <2>2, <1>1 DEF ExpectedPrev, HeadHash
  <2> QED
    BY <2>1, <2>2
<1> HIDE DEF more
<1>6. 1..Len(more) = (1..Len(rows)) \cup {Len(rows) + 1}
  BY <1>1
<1>7. VerifyRows(more) <=> VerifyRows(rows) /\ r.previous_hash = HeadHash(rows)
  BY <1>2, <1>3, <1>4, <1>5, <1>6 DEF VerifyRows
<1> QED
  BY <1>7 DEF more

-----------------------------------------------------------------------------
LEMMA TypeInvInit == Init => TypeInv
<1> SUFFICES ASSUME Init PROVE TypeInv
  OBVIOUS
<1>1. raced \in BOOLEAN
  BY Zenon DEF Init
<1> QED
  BY <1>1 DEF Init, TypeInv, TypeOK, LocalsOK, Pending, Reporting, Attesting,
     Hashes, PcValues

LEMMA TypeInvStep == TypeInv /\ [Next]_vars => TypeInv'
<1> SUFFICES ASSUME TypeInv, [Next]_vars PROVE TypeInv'
  OBVIOUS
<1> USE DEF TypeInv, TypeOK, LocalsOK, Pending, Reading, Reporting, PcValues, Appending,
            Attesting, GoTo
<1>1. ASSUME NEW t \in Threads, LogCheck(t) PROVE TypeInv'
  BY <1>1 DEF LogCheck, Draw
<1>2. ASSUME NEW t \in Threads, ReadHead(t) PROVE TypeInv'
  <2>1. HeadHash(chain) \in Hashes
    BY HeadHashIn, HashesAreIds DEF Hashes
  <2> QED
    BY <1>2, <2>1 DEF ReadHead, Draw
<1>3. ASSUME NEW t \in Threads, InsertRow(t) PROVE TypeInv'
  <2> DEFINE row == [event_hash |-> ev[t], previous_hash |-> prev[t],
                     check |-> pc[t] = "check_read"]
  <2>1. ev[t] \in Ids /\ prev[t] \in Hashes
    BY <1>3 DEF InsertRow
  <2>2. (pc[t] = "check_read") \in BOOLEAN
    OBVIOUS
  <2>3. row \in Row
    BY <2>1, <2>2 DEF Row
  <2>4. chain' = Append(chain, row)
    BY <1>3 DEF InsertRow
  <2> HIDE DEF row
  <2>5. chain' \in Seq(Row)
    BY <2>3, <2>4
  <2> QED
    BY <1>3, <2>5 DEF InsertRow, AfterAppend
<1>4. ASSUME NEW t \in Threads, AppendFails(t) PROVE TypeInv'
  BY <1>4 DEF AppendFails, AfterAppend
<1>5. ASSUME NEW t \in Threads, AttestVerify(t) PROVE TypeInv'
  <2>1. [kind |-> "attestation", events |-> 0, head |-> GENESIS,
         verified |-> VerifyRows(chain)] \in Report
    BY DEF Report, Hashes, VerifyRows
  <2> QED
    BY <1>5, <2>1 DEF AttestVerify, Draw
<1>6. ASSUME NEW t \in Threads, AttestCount(t) PROVE TypeInv'
  BY <1>6 DEF AttestCount, Report
<1>7. ASSUME NEW t \in Threads, Publish(t), pc[t] \in Reporting PROVE TypeInv'
  <2>1. HeadHash(chain) \in Hashes
    BY HeadHashIn, HashesAreIds DEF Hashes
  <2>2. report[t] \in Report
    BY <1>7
  <2>3. [report[t] EXCEPT !.head = HeadHash(chain)] \in Report
    BY <2>1, <2>2 DEF Report
  <2>4. published' \in Report \cup {None}
    BY <1>7, <2>3 DEF Publish
  <2> QED
    BY <1>7, <2>4 DEF Publish
<1>8. ASSUME NEW t \in Threads, ExportRows(t) PROVE TypeInv'
  <2>1. [kind |-> "export", events |-> Len(chain), head |-> GENESIS,
         verified |-> VerifyRows(chain)] \in Report
    BY DEF Report, Hashes, VerifyRows
  <2> QED
    BY <1>8, <2>1 DEF ExportRows
<1>9. ASSUME NEW t \in Threads, ResetActivity(t) PROVE TypeInv'
  BY <1>9, HashesAreIds DEF ResetActivity
<1>10. CASE Restart
  BY <1>10 DEF Restart
<1>11. CASE UNCHANGED vars
  BY <1>11 DEF vars
<1> QED
  BY <1>1, <1>2, <1>3, <1>4, <1>5, <1>6, <1>7, <1>8, <1>9, <1>10, <1>11
     DEF Next, Work, AttestAnchor, ExportHead

LEMMA TypeInvAlways == Spec => []TypeInv
BY TypeInvInit, TypeInvStep, PTL DEF Spec

\* Every variable keeps its type, for any threads and ids.
THEOREM TypeCorrect == Spec => []TypeOK
BY TypeInvAlways, PTL DEF TypeInv

-----------------------------------------------------------------------------
(* The shape of the log under any interleaving of appends, resets and      *)
(* restarts.                                                               *)

\* Ids are drawn once: an id in flight is drawn, not yet in the chain nor
\* erased, and held by one thread.
IdsInv ==
  /\ HashesOf(chain) \cup erased \subseteq used
  /\ \A t \in Threads : pc[t] \in Pending =>
       ev[t] \in used /\ ev[t] \notin HashesOf(chain) \cup erased
  /\ \A s, t \in Threads :
       s # t /\ pc[s] \in Pending /\ pc[t] \in Pending => ev[s] # ev[t]

\* A head that a thread has read was genesis or a row that is, or was, there.
PrevKnown ==
  \A t \in Threads : pc[t] \in Reading =>
    prev[t] \in HashesOf(chain) \cup erased \cup {GENESIS}

ShapeInv == TypeInv /\ IdsInv /\ PrevKnown /\ EventsOnce /\ LinksPointBack

LEMMA ShapeInit == Init => ShapeInv
<1> SUFFICES ASSUME Init PROVE ShapeInv
  OBVIOUS
<1>1. chain = << >> /\ Len(chain) = 0 /\ HashesOf(chain) = {}
  BY DEF Init, HashesOf
<1> QED
  BY <1>1, TypeInvInit
     DEF Init, ShapeInv, IdsInv, PrevKnown, EventsOnce, LinksPointBack, Pending,
         Reading

\* Only InsertRow and ResetActivity change the chain.
LEMMA ShapeInsert ==
  ASSUME NEW t \in Threads, ShapeInv, InsertRow(t), TypeInv'
  PROVE  IdsInv' /\ PrevKnown' /\ EventsOnce' /\ LinksPointBack'
<1> DEFINE row == [event_hash |-> ev[t], previous_hash |-> prev[t],
                   check |-> pc[t] = "check_read"]
<1>1. pc[t] \in Pending /\ pc[t] \in Reading
  BY DEF InsertRow, Pending, Reading
<1>2. ev[t] \in Ids /\ prev[t] \in Hashes /\ (pc[t] = "check_read") \in BOOLEAN
  BY <1>1 DEF ShapeInv, TypeInv, TypeOK, LocalsOK
<1>3. row \in Row /\ row.event_hash = ev[t] /\ row.previous_hash = prev[t]
  BY <1>2 DEF Row
<1>4. chain \in Seq(Row) /\ chain' = Append(chain, row)
  BY DEF InsertRow, ShapeInv, TypeInv, TypeOK
<1> HIDE DEF row
<1>5. /\ Len(chain') = Len(chain) + 1 /\ Len(chain) \in Nat
      /\ \A i \in 1..Len(chain) : chain'[i] = chain[i]
      /\ chain'[Len(chain) + 1] = row
  BY <1>3, <1>4
<1>6. HashesOf(chain') = HashesOf(chain) \cup {ev[t]}
  BY <1>3, <1>4, HashesOfAppend
<1>7. /\ pc' = [pc EXCEPT ![t] = AfterAppend(t)]
      /\ AfterAppend(t) \notin Pending /\ AfterAppend(t) \notin Reading
      /\ pc \in [Threads -> PcValues]
      /\ UNCHANGED <<ev, prev, used, erased>>
  BY DEF InsertRow, GoTo, AfterAppend, Pending, Reading, ShapeInv, TypeInv, TypeOK
<1>8. ev[t] \in used /\ ev[t] \notin HashesOf(chain) \cup erased
  BY <1>1 DEF ShapeInv, IdsInv
<1>9. IdsInv'
  <2>1. HashesOf(chain') \cup erased' \subseteq used'
    BY <1>6, <1>7, <1>8 DEF ShapeInv, IdsInv
  <2>2. ASSUME NEW u \in Threads, pc'[u] \in Pending
        PROVE  u # t /\ pc[u] \in Pending /\ ev'[u] = ev[u]
    BY <2>2, <1>7
  <2>3. \A u \in Threads : pc'[u] \in Pending =>
          ev'[u] \in used' /\ ev'[u] \notin HashesOf(chain') \cup erased'
    BY <2>2, <1>1, <1>6, <1>7 DEF ShapeInv, IdsInv
  <2> QED
    BY <2>1, <2>2, <2>3 DEF ShapeInv, IdsInv
<1>10. PrevKnown'
  BY <1>6, <1>7 DEF ShapeInv, PrevKnown
<1>11. EventsOnce'
  <2>1. \A i \in 1..Len(chain) : chain[i].event_hash \in HashesOf(chain)
    BY DEF HashesOf
  <2>2. \A i \in 1..Len(chain') :
          i \in 1..Len(chain) \/ i = Len(chain) + 1
    BY <1>5
  <2>3. \A i, j \in 1..Len(chain') :
          chain'[i].event_hash = chain'[j].event_hash => i = j
    BY <2>1, <2>2, <1>3, <1>5, <1>8 DEF ShapeInv, EventsOnce
  <2> QED
    BY <2>3, <1>6, <1>7, <1>8 DEF ShapeInv, EventsOnce
<1>12. LinksPointBack'
  <2>1. prev[t] \in HashesOf(chain) \cup erased \cup {GENESIS}
    BY <1>1 DEF ShapeInv, PrevKnown
  <2>2. ASSUME NEW i \in 1..Len(chain'), i \in 1..Len(chain)
        PROVE  \/ chain'[i].previous_hash \in erased' \cup {GENESIS}
               \/ \E j \in 1..(i - 1) :
                    chain'[j].event_hash = chain'[i].previous_hash
    <3>1. \A j \in 1..(i - 1) : chain'[j] = chain[j]
      BY <1>5, <2>2
    <3> QED
      BY <2>2, <3>1, <1>5, <1>7 DEF ShapeInv, LinksPointBack
  <2>3. \/ chain'[Len(chain) + 1].previous_hash \in erased' \cup {GENESIS}
        \/ \E j \in 1..Len(chain) :
             chain'[j].event_hash = chain'[Len(chain) + 1].previous_hash
    BY <2>1, <1>3, <1>5, <1>7 DEF HashesOf
  <2>4. ASSUME NEW i \in 1..Len(chain')
        PROVE  i \in 1..Len(chain) \/ (i = Len(chain) + 1 /\ 1..(i - 1) = 1..Len(chain))
    BY <1>5
  <2> QED
    BY <2>2, <2>3, <2>4 DEF LinksPointBack
<1> QED
  BY <1>9, <1>10, <1>11, <1>12

LEMMA ShapeStep == ShapeInv /\ [Next]_vars => ShapeInv'
<1> SUFFICES ASSUME ShapeInv, [Next]_vars PROVE ShapeInv'
  OBVIOUS
<1>0. TypeInv'
  BY TypeInvStep DEF ShapeInv
<1> DEFINE Rest == IdsInv' /\ PrevKnown' /\ EventsOnce' /\ LinksPointBack'
<1>a. pc \in [Threads -> PcValues] /\ ev \in [Threads -> Ids \cup {None}]
      /\ prev \in [Threads -> Hashes] /\ chain \in Seq(Row)
  BY DEF ShapeInv, TypeInv, TypeOK
<1>b. ASSUME UNCHANGED <<chain, erased>> PROVE EventsOnce' /\ LinksPointBack'
  BY <1>b DEF ShapeInv, EventsOnce, LinksPointBack, HashesOf
<1>c. ASSUME UNCHANGED chain PROVE HashesOf(chain') = HashesOf(chain)
  BY <1>c DEF HashesOf
\* Steps that draw an id.
<1>d. ASSUME NEW t \in Threads, NEW there, pc[t] = "idle", Draw(t), GoTo(t, there),
             UNCHANGED <<chain, erased>>
      PROVE  IdsInv'
  <2>1. PICK id \in Ids \ used : used' = used \cup {id} /\ ev' = [ev EXCEPT ![t] = id]
    BY <1>d DEF Draw
  <2>2. pc' = [pc EXCEPT ![t] = there] /\ HashesOf(chain') = HashesOf(chain)
    BY <1>c, <1>d DEF GoTo
  <2> QED
    BY <2>1, <2>2, <1>a, <1>d DEF ShapeInv, IdsInv
\* Steps that draw none and leave every pending thread pending or done.
<1>e. ASSUME NEW t \in Threads, NEW there, there \in Pending => pc[t] \in Pending,
             GoTo(t, there), UNCHANGED <<chain, erased, ev, used>>
      PROVE  IdsInv'
  <2>1. pc' = [pc EXCEPT ![t] = there] /\ HashesOf(chain') = HashesOf(chain)
    BY <1>c, <1>e DEF GoTo
  <2> QED
    BY <2>1, <1>a, <1>e DEF ShapeInv, IdsInv
\* Steps that read no head.
<1>f. ASSUME NEW t \in Threads, NEW there, there \notin Reading, GoTo(t, there),
             UNCHANGED <<chain, erased, prev>>
      PROVE  PrevKnown'
  <2>1. pc' = [pc EXCEPT ![t] = there] /\ HashesOf(chain') = HashesOf(chain)
    BY <1>c, <1>f DEF GoTo
  <2> QED
    BY <2>1, <1>a, <1>f DEF ShapeInv, PrevKnown
<1>1. ASSUME NEW t \in Threads, LogCheck(t) PROVE Rest
  BY <1>1, <1>b, <1>d, <1>f DEF LogCheck, Reading
<1>2. ASSUME NEW t \in Threads, ReadHead(t) PROVE Rest
  <2>1. prev' = [prev EXCEPT ![t] = HeadHash(chain)] /\ UNCHANGED <<chain, erased>>
    BY <1>2 DEF ReadHead
  <2>2. HeadHash(chain) \in HashesOf(chain) \cup {GENESIS}
    BY <1>a, HeadHashIn
  <2>3. PICK there : GoTo(t, there)
    BY <1>2 DEF ReadHead
  <2>4. PrevKnown'
    BY <2>1, <2>2, <2>3, <1>a, <1>c DEF GoTo, ShapeInv, PrevKnown
  <2>5. IdsInv'
    BY <1>2, <1>d, <1>e, <2>1 DEF ReadHead, Pending
  <2> QED
    BY <1>b, <2>1, <2>4, <2>5
<1>3. ASSUME NEW t \in Threads, InsertRow(t) PROVE Rest
  BY <1>0, <1>3, ShapeInsert
<1>4. ASSUME NEW t \in Threads, AppendFails(t) PROVE Rest
  <2>1. AfterAppend(t) \notin Pending /\ AfterAppend(t) \notin Reading
    BY DEF AfterAppend, Pending, Reading
  <2> QED
    BY <1>4, <1>b, <1>e, <1>f, <2>1 DEF AppendFails
<1>5. ASSUME NEW t \in Threads, AttestVerify(t) PROVE Rest
  BY <1>5, <1>b, <1>d, <1>f DEF AttestVerify, Reading
<1>6. ASSUME NEW t \in Threads, AttestCount(t) PROVE Rest
  BY <1>6, <1>b, <1>e, <1>f DEF AttestCount, Reading, Pending
<1>7. ASSUME NEW t \in Threads, Publish(t) PROVE Rest
  BY <1>7, <1>b, <1>e, <1>f DEF Publish, Reading, Pending
<1>8. ASSUME NEW t \in Threads, ExportRows(t) PROVE Rest
  BY <1>8, <1>b, <1>e, <1>f DEF ExportRows, Reading, Pending
<1>9. ASSUME NEW t \in Threads, ResetActivity(t) PROVE Rest
  <2>1. chain' = << >> /\ Len(chain') = 0 /\ HashesOf(chain') = {}
        /\ erased' = erased \cup HashesOf(chain) /\ UNCHANGED <<pc, ev, prev, used>>
    BY <1>9 DEF ResetActivity, HashesOf
  <2> QED
    BY <2>1 DEF ShapeInv, IdsInv, PrevKnown, EventsOnce, LinksPointBack
<1>10. ASSUME Restart PROVE Rest
  <2>1. pc' = [u \in Threads |-> "idle"] /\ UNCHANGED <<chain, erased, ev, used, prev>>
    BY <1>10 DEF Restart
  <2>2. IdsInv' /\ PrevKnown'
    BY <2>1, <1>c DEF ShapeInv, IdsInv, PrevKnown, Pending, Reading
  <2> QED
    BY <2>1, <2>2, <1>b
<1>11. ASSUME UNCHANGED vars PROVE Rest
  BY <1>11, <1>b, <1>c DEF vars, ShapeInv, IdsInv, PrevKnown
<1>12. Rest
  BY <1>1, <1>2, <1>3, <1>4, <1>5, <1>6, <1>7, <1>8, <1>9, <1>10, <1>11
     DEF Next, Work, AttestAnchor, ExportHead
<1> QED
  BY <1>0, <1>12 DEF ShapeInv

LEMMA ShapeAlways == Spec => []ShapeInv
BY ShapeInit, ShapeStep, PTL DEF Spec

\* However appends, resets and restarts interleave, the log may fork but no row
\* names a predecessor that comes later or was never recorded.
THEOREM LinksAlwaysPointBack == Spec => []LinksPointBack
BY ShapeAlways, PTL DEF ShapeInv

\* No event is recorded twice, and no erased event reappears.
THEOREM EventsRecordedOnce == Spec => []EventsOnce
BY ShapeAlways, PTL DEF ShapeInv

\* append and reset: rows keep their shape, their ids and the direction of their links.
THEOREM ChainStaysSound == Spec => []ChainSound
BY TypeCorrect, EventsRecordedOnce, LinksAlwaysPointBack, PTL DEF ChainSound

-----------------------------------------------------------------------------
(* Appends that do not overlap.                                            *)

\* While no two appends have overlapped there is at most one between its SELECT
\* and its INSERT, and the head it read is still the head.
HeadIsCurrent ==
  /\ \A t \in Threads : pc[t] \in Reading => prev[t] = HeadHash(chain)
  /\ \A s, t \in Threads : pc[s] \in Reading /\ pc[t] \in Reading => s = t

UnracedInv == TypeInv /\ (~raced => VerifyRows(chain) /\ HeadIsCurrent)

LEMMA UnracedStep == UnracedInv /\ [Next]_vars => UnracedInv'
<1> SUFFICES ASSUME UnracedInv, [Next]_vars PROVE UnracedInv'
  OBVIOUS
<1>0. TypeInv'
  BY TypeInvStep DEF UnracedInv
<1> DEFINE Rest == ~raced' => VerifyRows(chain') /\ HeadIsCurrent'
<1>a. pc \in [Threads -> PcValues] /\ prev \in [Threads -> Hashes]
      /\ chain \in Seq(Row) /\ raced \in BOOLEAN
  BY DEF UnracedInv, TypeInv, TypeOK
\* Steps after which the thread is at no append.
<1>b. ASSUME NEW t \in Threads, NEW there, there \notin Reading, GoTo(t, there),
             UNCHANGED <<chain, prev, raced>>
      PROVE  Rest
  <2>1. pc' = [pc EXCEPT ![t] = there]
    BY <1>b DEF GoTo
  <2> QED
    BY <2>1, <1>a, <1>b DEF UnracedInv, HeadIsCurrent
<1>1. ASSUME NEW t \in Threads, LogCheck(t) PROVE Rest
  BY <1>1, <1>b DEF LogCheck, Reading
<1>2. ASSUME NEW t \in Threads, ReadHead(t) PROVE Rest
  <2> SUFFICES ASSUME ~raced' PROVE VerifyRows(chain') /\ HeadIsCurrent'
    OBVIOUS
  <2>1. /\ prev' = [prev EXCEPT ![t] = HeadHash(chain)] /\ chain' = chain
        /\ ~raced /\ \A u \in Threads \ {t} : pc[u] \notin Reading
    BY <1>2 DEF ReadHead
  <2>2. PICK there : pc' = [pc EXCEPT ![t] = there]
    BY <1>2 DEF ReadHead, GoTo
  <2>3. \A u \in Threads : pc'[u] \in Reading => u = t
    BY <2>1, <2>2, <1>a
  <2> QED
    BY <2>1, <2>3, <1>a DEF UnracedInv, HeadIsCurrent
<1>3. ASSUME NEW t \in Threads, InsertRow(t) PROVE Rest
  <2> SUFFICES ASSUME ~raced' PROVE VerifyRows(chain') /\ HeadIsCurrent'
    OBVIOUS
  <2> DEFINE row == [event_hash |-> ev[t], previous_hash |-> prev[t],
                     check |-> pc[t] = "check_read"]
  <2>1. pc[t] \in Pending /\ pc[t] \in Reading /\ ~raced
    BY <1>3 DEF InsertRow, Pending, Reading
  <2>2. ev[t] \in Ids /\ prev[t] \in Hashes /\ (pc[t] = "check_read") \in BOOLEAN
    BY <2>1 DEF UnracedInv, TypeInv, TypeOK, LocalsOK
  <2>3. row \in Row /\ row.previous_hash = HeadHash(chain)
    BY <2>1, <2>2 DEF Row, UnracedInv, HeadIsCurrent
  <2>4. chain' = Append(chain, row)
    BY <1>3 DEF InsertRow
  <2> HIDE DEF row
  <2>5. VerifyRows(chain')
    BY <2>1, <2>3, <2>4, <1>a, VerifyAppend DEF UnracedInv
  <2>6. pc' = [pc EXCEPT ![t] = AfterAppend(t)] /\ AfterAppend(t) \notin Reading
    BY <1>3 DEF InsertRow, GoTo, AfterAppend, Reading
  <2>7. \A u \in Threads : pc'[u] \notin Reading
    BY <2>1, <2>6, <1>a DEF UnracedInv, HeadIsCurrent
  <2> QED
    BY <2>5, <2>7 DEF HeadIsCurrent
<1>4. ASSUME NEW t \in Threads, AppendFails(t) PROVE Rest
  <2>1. AfterAppend(t) \notin Reading
    BY DEF AfterAppend, Reading
  <2> QED
    BY <1>4, <1>b, <2>1 DEF AppendFails
<1>5. ASSUME NEW t \in Threads, AttestVerify(t) PROVE Rest
  BY <1>5, <1>b DEF AttestVerify, Reading
<1>6. ASSUME NEW t \in Threads, AttestCount(t) PROVE Rest
  BY <1>6, <1>b DEF AttestCount, Reading
<1>7. ASSUME NEW t \in Threads, Publish(t) PROVE Rest
  BY <1>7, <1>b DEF Publish, Reading
<1>8. ASSUME NEW t \in Threads, ExportRows(t) PROVE Rest
  BY <1>8, <1>b DEF ExportRows, Reading
<1>9. ASSUME NEW t \in Threads, ResetActivity(t) PROVE Rest
  <2>1. /\ chain' = << >> /\ Len(chain') = 0 /\ UNCHANGED pc
        /\ ~raced' => \A u \in Threads : pc[u] \notin Reading
    BY <1>9 DEF ResetActivity
  <2> QED
    BY <2>1 DEF VerifyRows, HeadIsCurrent
<1>10. ASSUME Restart PROVE Rest
  BY <1>10 DEF Restart, UnracedInv, HeadIsCurrent, Reading
<1>11. ASSUME UNCHANGED vars PROVE Rest
  BY <1>11 DEF vars, UnracedInv, HeadIsCurrent
<1>12. Rest
  BY <1>1, <1>2, <1>3, <1>4, <1>5, <1>6, <1>7, <1>8, <1>9, <1>10, <1>11
     DEF Next, Work, AttestAnchor, ExportHead
<1> QED
  BY <1>0, <1>12 DEF UnracedInv

LEMMA UnracedAlways == Spec => []UnracedInv
<1>1. Init => UnracedInv
  BY TypeInvInit DEF Init, UnracedInv, VerifyRows, HeadIsCurrent, Reading
<1> QED
  BY <1>1, UnracedStep, PTL DEF Spec

\* Only overlapping appends (or an append and a reset) break the log: failed
\* appends, attestations, restarts and appends one after another never do.
THEOREM UnracedLogVerifies == Spec => []ChainVerifies
BY UnracedAlways, PTL DEF UnracedInv, ChainVerifies

\* With one appending thread the log verifies for ever.
THEOREM SingleWriterVerifies ==
  ASSUME \A s, t \in Threads : s = t
  PROVE  Spec => []LogVerifies
<1> DEFINE Inv == ~raced
<1>1. Init => Inv
  BY DEF Init
<1>2. Inv /\ [Next]_vars => Inv'
  <2>1. ASSUME Inv, NEW t \in Threads, Work(t) PROVE Inv'
    <3>1. CASE ReadHead(t)
      BY <2>1, <3>1 DEF ReadHead
    <3>2. CASE ResetActivity(t)
      BY <3>2 DEF ResetActivity, Reading
    <3> QED
      BY <2>1, <3>1, <3>2 DEF Work, LogCheck, InsertRow, AppendFails, AttestVerify,
         AttestCount, AttestAnchor, ExportRows, ExportHead, Publish
  <2> QED
    BY <2>1 DEF Next, Restart, vars
<1>3. UnracedInv /\ Inv => LogVerifies
  BY DEF UnracedInv, LogVerifies
<1> QED
  BY <1>1, <1>2, <1>3, UnracedAlways, PTL DEF Spec

-----------------------------------------------------------------------------
\* Each step leaves the chain, empties it, or appends one row to it.
LEMMA ChainStep ==
  ASSUME TypeInv, [Next]_vars
  PROVE  \/ chain' = chain
         \/ chain' = << >>
         \/ \E r \in Row : chain' = Append(chain, r)
<1>1. ASSUME NEW t \in Threads, InsertRow(t)
      PROVE  \E r \in Row : chain' = Append(chain, r)
  <2>1. ev[t] \in Ids /\ prev[t] \in Hashes /\ (pc[t] = "check_read") \in BOOLEAN
    BY <1>1 DEF InsertRow, Pending, Reading, TypeInv, TypeOK, LocalsOK
  <2>2. [event_hash |-> ev[t], previous_hash |-> prev[t],
         check |-> pc[t] = "check_read"] \in Row
    BY <2>1 DEF Row
  <2> QED
    BY <1>1, <2>2 DEF InsertRow
<1> QED
  BY <1>1 DEF Next, Work, LogCheck, ReadHead, AppendFails, AttestVerify,
     AttestCount, AttestAnchor, Publish, ExportRows, ExportHead, ResetActivity,
     Restart, vars

\* A chain that fails verification fails until the owner resets it: no later
\* append, however interleaved, can hide the broken link.
THEOREM BrokenStaysBroken == Spec => BreakNeverHeals
<1>1. ASSUME TypeInv, [Next]_vars
      PROVE  [~VerifyRows(chain) => ~VerifyRows(chain') \/ chain' = << >>]_vars
  <2>1. chain \in Seq(Row)
    BY <1>1 DEF TypeInv, TypeOK
  <2> QED
    BY <1>1, <2>1, ChainStep, VerifyAppend
<1> QED
  BY <1>1, TypeInvAlways, PTL DEF Spec, BreakNeverHeals

-----------------------------------------------------------------------------
(* No completed request leaves its decision outside the chain.             *)

\* Threads between the two transactions of append_check.
Checking == {t \in Threads : pc[t] \in {"logged", "check_read"}}

LEMMA AnchoredInsert ==
  ASSUME TypeInv, NEW t \in Threads, InsertRow(t)
  PROVE  Anchored' = Anchored \cup (IF pc[t] = "check_read" THEN {ev[t]} ELSE {})
<1> DEFINE row == [event_hash |-> ev[t], previous_hash |-> prev[t],
                   check |-> pc[t] = "check_read"]
<1>1. ev[t] \in Ids /\ prev[t] \in Hashes /\ (pc[t] = "check_read") \in BOOLEAN
  BY DEF InsertRow, Pending, Reading, TypeInv, TypeOK, LocalsOK
<1>2. row \in Row /\ row.event_hash = ev[t] /\ row.check = (pc[t] = "check_read")
  BY <1>1 DEF Row
<1>3. chain \in Seq(Row) /\ chain' = Append(chain, row)
  BY DEF InsertRow, TypeInv, TypeOK
<1> HIDE DEF row
<1>4. /\ Len(chain') = Len(chain) + 1 /\ Len(chain) \in Nat
      /\ \A i \in 1..Len(chain) : chain'[i] = chain[i]
      /\ chain'[Len(chain) + 1] = row
  BY <1>2, <1>3
<1>5. 1..Len(chain') = (1..Len(chain)) \cup {Len(chain) + 1}
  BY <1>4
<1>6. ASSUME NEW h
      PROVE  h \in Anchored' <=> h \in Anchored \/ (row.check /\ h = row.event_hash)
  <2>1. h \in Anchored <=>
          \E i \in 1..Len(chain) : chain[i].check /\ h = chain[i].event_hash
    BY DEF Anchored
  <2>2. h \in Anchored' <=>
          \E i \in 1..Len(chain') : chain'[i].check /\ h = chain'[i].event_hash
    BY DEF Anchored
  <2> QED
    BY <2>1, <2>2, <1>4, <1>5
<1> QED
  BY <1>2, <1>6

LEMMA UnanchoredStep ==
  ASSUME TypeInv, UnanchoredExplained, [Next]_vars
  PROVE  UnanchoredExplained'
<1> DEFINE Held == {ev[t] : t \in Checking}
<1>a. /\ pc \in [Threads -> PcValues] /\ ev \in [Threads -> Ids \cup {None}]
      /\ audit_log \ Anchored \subseteq abandoned \cup Held
  BY DEF TypeInv, TypeOK, UnanchoredExplained, Checking
<1>b. SUFFICES audit_log' \ Anchored' \subseteq abandoned' \cup Held'
  BY DEF UnanchoredExplained, Checking
<1>c. ASSUME UNCHANGED chain PROVE Anchored' = Anchored
  BY <1>c DEF Anchored
\* A step of a thread that keeps its place in append_check, or has none.
<1>d. ASSUME NEW t \in Threads, NEW there, GoTo(t, there),
             UNCHANGED <<audit_log, chain, abandoned>>,
             \/ pc[t] \notin {"logged", "check_read"} /\ \A u \in Threads \ {t} : ev'[u] = ev[u]
             \/ there \in {"logged", "check_read"} /\ UNCHANGED ev
      PROVE  audit_log' \ Anchored' \subseteq abandoned' \cup Held'
  <2>1. pc' = [pc EXCEPT ![t] = there]
    BY <1>d DEF GoTo
  <2>2. Held \subseteq Held'
    BY <2>1, <1>a, <1>d DEF Checking
  <2> QED
    BY <2>2, <1>a, <1>c, <1>d
<1>1. ASSUME NEW t \in Threads, LogCheck(t)
      PROVE  audit_log' \ Anchored' \subseteq abandoned' \cup Held'
  <2>1. PICK id \in Ids : ev' = [ev EXCEPT ![t] = id]
    BY <1>1 DEF LogCheck, Draw
  <2>2. pc' = [pc EXCEPT ![t] = "logged"] /\ pc[t] = "idle"
        /\ audit_log' = audit_log \cup {ev'[t]} /\ UNCHANGED <<chain, abandoned>>
    BY <1>1 DEF LogCheck, GoTo
  <2>3. Held \subseteq Held' /\ ev'[t] \in Held'
    BY <2>1, <2>2, <1>a DEF Checking
  <2> QED
    BY <2>2, <2>3, <1>a, <1>c
<1>2. ASSUME NEW t \in Threads, ReadHead(t)
      PROVE  audit_log' \ Anchored' \subseteq abandoned' \cup Held'
  <2>1. CASE pc[t] = "idle"
    <3>1. PICK id \in Ids : ev' = [ev EXCEPT ![t] = id]
      BY <1>2, <2>1 DEF ReadHead, Draw
    <3>2. \A u \in Threads \ {t} : ev'[u] = ev[u]
      BY <3>1, <1>a
    <3> QED
      BY <1>2, <2>1, <3>2, <1>d DEF ReadHead
  <2>2. CASE pc[t] # "idle"
    BY <1>2, <2>2, <1>d DEF ReadHead
  <2> QED
    BY <2>1, <2>2
<1>3. ASSUME NEW t \in Threads, InsertRow(t)
      PROVE  audit_log' \ Anchored' \subseteq abandoned' \cup Held'
  <2>1. pc' = [pc EXCEPT ![t] = AfterAppend(t)] /\ UNCHANGED <<audit_log, abandoned, ev>>
        /\ pc[t] \in {"check_read", "event_read", "probe_read"}
    BY <1>3 DEF InsertRow, GoTo, Reading
  <2>2. Held \subseteq Held' \cup (IF pc[t] = "check_read" THEN {ev[t]} ELSE {})
    BY <2>1, <1>a DEF Checking
  <2> QED
    BY <2>1, <2>2, <1>3, <1>a, AnchoredInsert
<1>4. ASSUME NEW t \in Threads, AppendFails(t)
      PROVE  audit_log' \ Anchored' \subseteq abandoned' \cup Held'
  <2>1. /\ pc' = [pc EXCEPT ![t] = AfterAppend(t)] /\ UNCHANGED <<audit_log, chain, ev>>
        /\ abandoned' = IF pc[t] = "check_read" THEN abandoned \cup {ev[t]} ELSE abandoned
        /\ pc[t] \in {"check_read", "event_read", "probe_read"}
    BY <1>4 DEF AppendFails, GoTo, Reading
  <2>2. Held \cup abandoned \subseteq Held' \cup abandoned'
    BY <2>1, <1>a DEF Checking
  <2> QED
    BY <2>1, <2>2, <1>a, <1>c
<1>5. ASSUME NEW t \in Threads, AttestVerify(t)
      PROVE  audit_log' \ Anchored' \subseteq abandoned' \cup Held'
  <2>1. PICK id \in Ids : ev' = [ev EXCEPT ![t] = id]
    BY <1>5 DEF AttestVerify, Draw
  <2>2. \A u \in Threads \ {t} : ev'[u] = ev[u]
    BY <2>1, <1>a
  <2> QED
    BY <1>5, <2>2, <1>d DEF AttestVerify
<1>6. ASSUME NEW t \in Threads, AttestCount(t) \/ AttestAnchor(t) \/ ExportRows(t) \/ ExportHead(t)
      PROVE  audit_log' \ Anchored' \subseteq abandoned' \cup Held'
  BY <1>6, <1>d DEF AttestCount, AttestAnchor, ExportRows, ExportHead, Publish
<1>7. ASSUME NEW t \in Threads, ResetActivity(t)
      PROVE  audit_log' \ Anchored' \subseteq abandoned' \cup Held'
  BY <1>7 DEF ResetActivity
<1>8. CASE Restart
  <2>1. abandoned' = abandoned \cup Held /\ UNCHANGED <<audit_log, chain>>
    BY <1>8 DEF Restart, Checking
  <2> QED
    BY <2>1, <1>a, <1>c
<1>9. CASE UNCHANGED vars
  BY <1>9, <1>a, <1>c DEF vars, Checking
<1> QED
  BY <1>1, <1>2, <1>3, <1>4, <1>5, <1>6, <1>7, <1>8, <1>9
     DEF Next, Work

\* A decision in audit_log that the chain does not anchor belongs to a request
\* still between the two transactions, or to one a failure cut there.
THEOREM UnanchoredAreExplained == Spec => []UnanchoredExplained
<1>1. Init => UnanchoredExplained
  BY DEF Init, UnanchoredExplained
<1> QED
  BY <1>1, TypeInvAlways, UnanchoredStep, PTL DEF Spec

\* A thread in append_check has its decision in audit_log, unless a reset has
\* deleted it meanwhile.
RowHeld ==
  \A t \in Checking : ev[t] \in audit_log \/ t \in cut

LEMMA RowHeldStep ==
  ASSUME TypeInv, RowHeld, [Next]_vars
  PROVE  RowHeld'
<1>a. pc \in [Threads -> PcValues] /\ ev \in [Threads -> Ids \cup {None}]
  BY DEF TypeInv, TypeOK
<1> USE DEF RowHeld, Checking
\* A step of a thread that does not enter append_check and leaves audit_log.
<1>b. ASSUME NEW t \in Threads, NEW there, GoTo(t, there), UNCHANGED audit_log,
             \A u \in Threads \ {t} : ev'[u] = ev[u],
             \/ there \notin {"logged", "check_read"}
             \/ pc[t] = "logged" /\ there = "check_read" /\ UNCHANGED ev
      PROVE  RowHeld'
  <2>1. pc' = [pc EXCEPT ![t] = there] /\ (there # "idle" => cut' = cut)
        /\ cut \ {t} \subseteq cut'
    BY <1>b DEF GoTo
  <2> QED
    BY <2>1, <1>a, <1>b
<1>1. ASSUME NEW t \in Threads, LogCheck(t) PROVE RowHeld'
  <2>1. PICK id \in Ids : ev' = [ev EXCEPT ![t] = id]
    BY <1>1 DEF LogCheck, Draw
  <2>2. pc' = [pc EXCEPT ![t] = "logged"] /\ cut' = cut
        /\ audit_log' = audit_log \cup {ev'[t]}
    BY <1>1 DEF LogCheck, GoTo
  <2> QED
    BY <2>1, <2>2, <1>a
<1>2. ASSUME NEW t \in Threads, ReadHead(t) PROVE RowHeld'
  <2>1. CASE pc[t] = "idle"
    <3>1. PICK id \in Ids : ev' = [ev EXCEPT ![t] = id]
      BY <1>2, <2>1 DEF ReadHead, Draw
    <3>2. \A u \in Threads \ {t} : ev'[u] = ev[u]
      BY <3>1, <1>a
    <3>3. GoTo(t, "event_read") /\ UNCHANGED audit_log
      BY <1>2, <2>1 DEF ReadHead
    <3> HIDE DEF RowHeld
    <3> QED
      BY <3>2, <3>3, <1>b
  <2>2. CASE pc[t] = "logged"
    <3>1. GoTo(t, "check_read") /\ UNCHANGED <<audit_log, ev>>
      BY <1>2, <2>2 DEF ReadHead
    <3> HIDE DEF RowHeld
    <3> QED
      BY <2>2, <3>1, <1>b
  <2>3. CASE pc[t] = "counted"
    <3>1. GoTo(t, "probe_read") /\ UNCHANGED <<audit_log, ev>>
      BY <1>2, <2>3 DEF ReadHead
    <3> HIDE DEF RowHeld
    <3> QED
      BY <3>1, <1>b
  <2> QED
    BY <1>2, <2>1, <2>2, <2>3 DEF ReadHead
<1>3. ASSUME NEW t \in Threads, InsertRow(t) \/ AppendFails(t) PROVE RowHeld'
  <2>1. GoTo(t, AfterAppend(t)) /\ UNCHANGED <<audit_log, ev>>
        /\ AfterAppend(t) \notin {"logged", "check_read"}
    BY <1>3 DEF InsertRow, AppendFails, AfterAppend
  <2> HIDE DEF RowHeld
  <2> QED
    BY <2>1, <1>b
<1>4. ASSUME NEW t \in Threads, AttestVerify(t) PROVE RowHeld'
  <2>1. PICK id \in Ids : ev' = [ev EXCEPT ![t] = id]
    BY <1>4 DEF AttestVerify, Draw
  <2>2. \A u \in Threads \ {t} : ev'[u] = ev[u]
    BY <2>1, <1>a
  <2>3. GoTo(t, "verified") /\ UNCHANGED audit_log
    BY <1>4 DEF AttestVerify
  <2> HIDE DEF RowHeld
  <2> QED
    BY <2>2, <2>3, <1>b
<1>5. ASSUME NEW t \in Threads, AttestCount(t) \/ AttestAnchor(t) \/ ExportRows(t) \/ ExportHead(t)
      PROVE  RowHeld'
  <2>1. /\ GoTo(t, "counted") \/ GoTo(t, "idle") \/ GoTo(t, "exporting")
        /\ UNCHANGED <<audit_log, ev>>
    BY <1>5 DEF AttestCount, AttestAnchor, ExportRows, ExportHead, Publish
  <2> HIDE DEF RowHeld
  <2> QED
    BY <2>1, <1>b
<1>6. ASSUME NEW t \in Threads, ResetActivity(t) PROVE RowHeld'
  BY <1>6 DEF ResetActivity
<1>7. CASE Restart
  BY <1>7 DEF Restart
<1>8. CASE UNCHANGED vars
  BY <1>8 DEF vars
<1> HIDE DEF RowHeld
<1> QED
  BY <1>1, <1>2, <1>3, <1>4, <1>5, <1>6, <1>7, <1>8 DEF Next, Work

\* What a step anchors is the decision of a thread in append_check.
LEMMA AnchorStep ==
  ASSUME TypeInv, RowHeld, [Next]_vars
  PROVE  \A a \in Anchored' \ Anchored : a \in audit_log \/ \E t \in cut : a = ev[t]
<1>1. ASSUME NEW t \in Threads, InsertRow(t)
      PROVE  \A a \in Anchored' \ Anchored : a \in audit_log \/ \E u \in cut : a = ev[u]
  BY <1>1, AnchoredInsert DEF RowHeld, Checking
<1>2. ASSUME chain' = chain \/ chain' = << >>
      PROVE  Anchored' \subseteq Anchored
  BY <1>2 DEF Anchored
<1>3. ASSUME ~\E t \in Threads : InsertRow(t)
      PROVE  chain' = chain \/ chain' = << >>
  BY <1>3 DEF Next, Work, Restart, LogCheck, ReadHead, AppendFails, AttestVerify, AttestCount,
              AttestAnchor, ExportRows, ExportHead, Publish, ResetActivity, vars
<1> QED
  BY <1>1, <1>2, <1>3

\* A decision enters the chain only after its audit_log row, unless a reset
\* deleted the row in between.
THEOREM AnchoredHaveRows == Spec => AnchorHasRow
<1>1. Init => RowHeld
  BY DEF Init, RowHeld, Checking
<1>2. Spec => []RowHeld
  BY <1>1, TypeInvAlways, RowHeldStep, PTL DEF Spec
<1>3. TypeInv /\ RowHeld /\ [Next]_vars =>
        [\A a \in Anchored' \ Anchored : a \in audit_log \/ \E t \in cut : a = ev[t]]_vars
  BY AnchorStep
<1> QED
  BY <1>2, <1>3, TypeInvAlways, PTL DEF Spec, AnchorHasRow

-----------------------------------------------------------------------------
(* Reports: what they count and the head they are anchored to.             *)

\* Program points at which a thread has counted the events of its report.
Counted == {"counted", "probe_read", "probed", "exporting"}

\* What a report has counted is in the chain, unless a reset overlapped it.
CountInChain ==
  \A t \in Threads : pc[t] \in Counted /\ t \notin cut => report[t].events <= Len(chain)

\* The head a published report names is at or after the last event it counts.
Reaches(rep, rows) ==
  \/ rep.events = 0 /\ rep.head = GENESIS
  \/ \E i \in 1..Len(rows) : rows[i].event_hash = rep.head /\ rep.events <= i

ReportsInv == CountInChain /\ (published # None => Reaches(published, chain))

LEMMA ReportsStep ==
  ASSUME TypeInv, ReportsInv, [Next]_vars
  PROVE  ReportsInv'
<1> USE DEF TypeInv, TypeOK, Counted
<1>0. /\ chain \in Seq(Row) /\ Len(chain) \in Nat
      /\ \A t \in Threads : pc[t] \in Counted => report[t] \in Report /\ report[t].events \in Nat
  BY DEF LocalsOK, Reporting, Attesting, Report
\* A longer chain still holds what was counted and published.
<1>1. ASSUME NEW r \in Row, chain' = Append(chain, r)
      PROVE  /\ Len(chain') = Len(chain) + 1
             /\ \A rep : Reaches(rep, chain) => Reaches(rep, chain')
  BY <1>0, <1>1 DEF Reaches
<1>2. ASSUME NEW t \in Threads, UNCHANGED <<published, report>>, chain' = chain,
             \A u \in Threads \ {t} : pc'[u] = pc[u],
             \A u \in Threads \ {t} : u \in cut <=> u \in cut',
             pc'[t] \in Counted /\ t \notin cut' => pc[t] \in Counted /\ t \notin cut
      PROVE  ReportsInv'
  BY <1>2 DEF ReportsInv, CountInChain
<1>3. ASSUME NEW t \in Threads,
             LogCheck(t) \/ ReadHead(t) \/ AppendFails(t)
      PROVE  ReportsInv'
  BY <1>2, <1>3 DEF LogCheck, ReadHead, AppendFails, AfterAppend, GoTo, Reading, PcValues
<1>4. ASSUME NEW t \in Threads, InsertRow(t) PROVE ReportsInv'
  <2>1. PICK r \in Row : chain' = Append(chain, r)
    <3>1. ev[t] \in Ids /\ prev[t] \in Hashes /\ (pc[t] = "check_read") \in BOOLEAN
      BY <1>4 DEF InsertRow, Pending, Reading, LocalsOK
    <3>2. [event_hash |-> ev[t], previous_hash |-> prev[t],
           check |-> pc[t] = "check_read"] \in Row
      BY <3>1 DEF Row
    <3>3. QED
      BY <1>4, <3>2 DEF InsertRow
  <2>2. /\ UNCHANGED <<published, report>>
        /\ \A u \in Threads : pc'[u] \in Counted /\ u \notin cut' => pc[u] \in Counted /\ u \notin cut
    BY <1>4 DEF InsertRow, AfterAppend, GoTo, Reading
  <2>3. QED
    BY <1>0, <1>1, <2>1, <2>2 DEF ReportsInv, CountInChain
<1>5. ASSUME NEW t \in Threads, AttestVerify(t) PROVE ReportsInv'
  BY <1>5 DEF AttestVerify, GoTo, ReportsInv, CountInChain
<1>6. ASSUME NEW t \in Threads, AttestCount(t) PROVE ReportsInv'
  <2>1. report'[t].events = Len(chain)
    BY <1>6 DEF AttestCount, LocalsOK, Reporting, Attesting, Report
  <2>2. QED
    BY <1>0, <1>6, <2>1 DEF AttestCount, GoTo, ReportsInv, CountInChain
<1>7. ASSUME NEW t \in Threads, ExportRows(t) PROVE ReportsInv'
  <2>1. report'[t].events = Len(chain)
    BY <1>7 DEF ExportRows
  <2>2. QED
    BY <1>0, <1>7, <2>1 DEF ExportRows, GoTo, ReportsInv, CountInChain
<1>8. ASSUME NEW t \in Threads, Publish(t), pc[t] \in Counted PROVE ReportsInv'
  <2>1. CountInChain'
    BY <1>8 DEF Publish, GoTo, ReportsInv, CountInChain
  <2>2. CASE t \in cut
    BY <1>8, <2>1, <2>2 DEF Publish, ReportsInv
  <2>3. CASE t \notin cut
    <3>1. report[t].events <= Len(chain) /\ report[t].events \in Nat /\ report[t] \in Report
      BY <1>0, <1>8, <2>3 DEF ReportsInv, CountInChain
    <3>2. published'.events = report[t].events /\ published'.head = HeadHash(chain)
      BY <1>8, <2>3, <3>1 DEF Publish, Report
    <3>3. Reaches(published', chain)
      BY <1>0, <3>1, <3>2 DEF Reaches, HeadHash
    <3>4. chain' = chain
      BY <1>8 DEF Publish
    <3>5. QED
      BY <2>1, <3>3, <3>4 DEF ReportsInv
  <2>4. QED
    BY <2>2, <2>3
<1>9. ASSUME NEW t \in Threads, ResetActivity(t) PROVE ReportsInv'
  BY <1>9 DEF ResetActivity, ReportsInv, CountInChain
<1>10. CASE Restart
  BY <1>10 DEF Restart, ReportsInv, CountInChain
<1>11. CASE UNCHANGED vars
  BY <1>11 DEF vars, ReportsInv, CountInChain
<1>12. QED
  BY <1>3, <1>4, <1>5, <1>6, <1>7, <1>8, <1>9, <1>10, <1>11
     DEF Next, Work, AttestAnchor, ExportHead

\* build_attestation and export: the head a published report names is never
\* older than the events it counts, whatever was appended while it was read.
THEOREM HeadsCoverCounts == Spec => []HeadCoversCount
<1>1. Init => ReportsInv
  BY DEF Init, ReportsInv, CountInChain, Counted
<1>2. Spec => []ReportsInv
  BY <1>1, TypeInvAlways, ReportsStep, PTL DEF Spec
<1>3. ShapeInv /\ ReportsInv => HeadCoversCount
  <2> SUFFICES ASSUME ShapeInv, ReportsInv, published # None
               PROVE  Position(published.head) >= published.events
    BY DEF HeadCoversCount
  <2>1. chain \in Seq(Row) /\ EventsOnce /\ published \in Report /\ published.events \in Nat
    BY DEF ShapeInv, TypeInv, TypeOK, Report
  <2>2. CASE published.events = 0 /\ published.head = GENESIS
    BY <2>2 DEF Position
  <2>3. ASSUME NEW i \in 1..Len(chain), chain[i].event_hash = published.head,
               published.events <= i
        PROVE  Position(published.head) >= published.events
    <3>1. published.head # GENESIS
      <4>1. chain[i] \in Row
        BY <2>1, <2>3
      <4>2. QED
        BY <2>3, <4>1, ConstantsAssumption DEF Row
    <3>2. \A j \in 1..Len(chain) : chain[j].event_hash = published.head => j = i
      BY <2>1, <2>3 DEF EventsOnce
    <3>3. Position(published.head) = i
      BY <2>3, <3>1, <3>2 DEF Position
    <3>4. QED
      BY <2>1, <2>3, <3>3
  <2>4. QED
    BY <2>2, <2>3 DEF ReportsInv, Reaches
<1>4. QED
  BY <1>2, <1>3, ShapeAlways, PTL

-----------------------------------------------------------------------------
(* AuditTamper: edits of the stored table.                                 *)

\* The chain of the first n events, given the shorter ones.
GrowsTo(f, k) ==
  f = [n \in 0..k |-> IF n = 0 THEN << >> ELSE Append(f[n - 1], NewRow(f[n - 1]))]

\* The chain of every length exists, although each is made from the one before.
LEMMA WrittenExists == \E f : GrowsTo(f, Length)
<1> DEFINE P == {k \in Nat : \E f : GrowsTo(f, k)}
<1>1. 0 \in P
  <2> DEFINE f == [n \in 0..0 |-> << >>]
  <2>1. GrowsTo(f, 0)
    BY DEF GrowsTo
  <2>2. QED
    BY <2>1
<1>2. ASSUME NEW k \in Nat, NEW f, GrowsTo(f, k) PROVE \E g : GrowsTo(g, k + 1)
  <2> DEFINE Grown(h, n) == IF n = 0 THEN << >> ELSE Append(h[n - 1], NewRow(h[n - 1]))
             g == [n \in 0..(k + 1) |-> Grown(f, n)]
  <2>1. f = [n \in 0..k |-> Grown(f, n)]
    BY <1>2 DEF GrowsTo
  <2>2. \A n \in 0..k : f[n] = Grown(f, n)
    <3> HIDE DEF Grown
    <3>1. QED
      BY <2>1
  <2>3. \A n \in 0..k : g[n] = f[n]
    <3> HIDE DEF Grown
    <3>1. QED
      BY <2>2
  <2>4. \A n \in 0..(k + 1) : Grown(f, n) = Grown(g, n)
    <3>1. \A n \in 0..(k + 1) : n # 0 => f[n - 1] = g[n - 1]
      <4> HIDE DEF g, Grown
      <4>1. \A n \in 0..(k + 1) : n # 0 => n - 1 \in 0..k
        OBVIOUS
      <4>2. QED
        BY <2>3, <4>1
    <3> HIDE DEF g
    <3>2. QED
      BY <3>1
  <2>5. g = [n \in 0..(k + 1) |-> Grown(g, n)]
    BY <2>4, Zenon
  <2>6. GrowsTo(g, k + 1)
    BY <2>5 DEF GrowsTo
  <2>7. QED
    BY <2>6
<1>3. P = Nat
  <2>1. P \in SUBSET Nat /\ \A k \in P : k + 1 \in P
    BY <1>2
  <2> HIDE DEF P
  <2>2. QED
    BY <1>1, <2>1, CountingUp
<1>4. QED
  BY <1>3, TamperAssumption

\* The rows of a chain of n events: row i is event i, links to row i - 1 and
\* carries its own digest.
ReadsAs(rows, n) ==
  /\ \E S : rows \in Seq(S)
  /\ Len(rows) = n
  /\ \A i \in 1..n :
       rows[i] = [event_id |-> i, body |-> Body, previous_hash |-> ExpectedPrev(rows, i),
                  event_hash |-> <<i, Body, ExpectedPrev(rows, i)>>]

\* What append adds to a chain.
LEMMA NewRowIs ==
  ASSUME NEW rows
  PROVE  NewRow(rows) = [event_id |-> Len(rows) + 1, body |-> Body,
                         previous_hash |-> HeadHash(rows),
                         event_hash |-> <<Len(rows) + 1, Body, HeadHash(rows)>>]
BY DEF NewRow, Digest, Text

LEMMA WrittenOneMore ==
  ASSUME NEW n \in Nat, NEW rows, ReadsAs(rows, n)
  PROVE  ReadsAs(Append(rows, NewRow(rows)), n + 1)
<1> DEFINE new == NewRow(rows)
           more == Append(rows, new)
<1>1. PICK S : rows \in Seq(S)
  BY DEF ReadsAs
<1>2. rows \in Seq(S \cup {new}) /\ Len(rows) = n
  BY <1>1, SeqMonotonic DEF ReadsAs
<1>3. /\ more \in Seq(S \cup {new}) /\ Len(more) = n + 1 /\ more[n + 1] = new
      /\ \A i \in 1..n : more[i] = rows[i]
  <2> HIDE DEF new
  <2>1. QED
    BY <1>2
<1>4. new = [event_id |-> n + 1, body |-> Body, previous_hash |-> HeadHash(rows),
             event_hash |-> <<n + 1, Body, HeadHash(rows)>>]
  BY <1>2, NewRowIs
<1> HIDE DEF new, more
<1>5. \A i \in 1..n : ExpectedPrev(more, i) = ExpectedPrev(rows, i)
  BY <1>3 DEF ExpectedPrev
<1>6. ExpectedPrev(more, n + 1) = HeadHash(rows)
  <2>1. CASE n = 0
    <3>1. rows = << >>
      BY <1>2, <2>1
    <3>2. QED
      BY <2>1, <3>1 DEF ExpectedPrev, HeadHash
  <2>2. CASE n # 0
    <3>1. rows # << >> /\ more[(n + 1) - 1] = rows[n]
      BY <1>2, <1>3, <2>2
    <3>2. QED
      BY <1>2, <2>2, <3>1 DEF ExpectedPrev, HeadHash
  <2>3. QED
    BY <2>1, <2>2
<1>7. ASSUME NEW i \in 1..(n + 1)
      PROVE  more[i] = [event_id |-> i, body |-> Body, previous_hash |-> ExpectedPrev(more, i),
                        event_hash |-> <<i, Body, ExpectedPrev(more, i)>>]
  <2>1. CASE i = n + 1
    BY <1>3, <1>4, <1>6, <2>1
  <2>2. CASE i # n + 1
    <3>1. i \in 1..n
      BY <2>2
    <3>2. QED
      BY <1>3, <1>5, <3>1 DEF ReadsAs
  <2>3. QED
    BY <2>1, <2>2
<1>8. ReadsAs(more, n + 1)
  BY <1>3, <1>7 DEF ReadsAs
<1>9. QED
  BY <1>8 DEF more, new

\* What the program wrote, row by row.
LEMMA OriginalIs == ReadsAs(Original, Length)
<1>1. GrowsTo(Written, Length)
  BY WrittenExists DEF Written, GrowsTo
<1>2. /\ Written[0] = << >>
      /\ \A n \in 0..Length : n # 0 => Written[n] = Append(Written[n - 1], NewRow(Written[n - 1]))
  <2> DEFINE Grown(n) == IF n = 0 THEN << >> ELSE Append(Written[n - 1], NewRow(Written[n - 1]))
  <2>1. Written = [n \in 0..Length |-> Grown(n)]
    BY <1>1 DEF GrowsTo
  <2>2. \A n \in 0..Length : Written[n] = Grown(n)
    <3> HIDE DEF Grown
    <3>1. QED
      BY <2>1
  <2>3. 0 \in 0..Length
    BY TamperAssumption
  <2>4. Written[0] = << >>
    BY <2>2, <2>3, Zenon
  <2>5. ASSUME NEW n \in 0..Length, n # 0
        PROVE  Written[n] = Append(Written[n - 1], NewRow(Written[n - 1]))
    BY <2>2, <2>5, Zenon
  <2>6. QED
    BY <2>4, <2>5, Zenon
<1> DEFINE P == {n \in Nat : n <= Length => ReadsAs(Written[n], n)}
<1>3. 0 \in P
  <2>1. ReadsAs(<< >>, 0)
    BY DEF ReadsAs
  <2>2. QED
    BY <1>2, <2>1
<1>4. ASSUME NEW n \in P PROVE n + 1 \in P
  <2>1. SUFFICES ASSUME n + 1 <= Length PROVE ReadsAs(Written[n + 1], n + 1)
    OBVIOUS
  <2>2. ReadsAs(Written[n], n) /\ n + 1 \in 0..Length /\ n + 1 # 0 /\ (n + 1) - 1 = n
    BY <2>1, TamperAssumption
  <2>3. Written[n + 1] = Append(Written[n], NewRow(Written[n]))
    BY <1>2, <2>2
  <2>4. QED
    BY <2>2, <2>3, WrittenOneMore
<1>5. P = Nat
  <2>1. P \in SUBSET Nat
    OBVIOUS
  <2> HIDE DEF P
  <2>2. QED
    BY <1>3, <1>4, <2>1, CountingUp
<1>6. QED
  BY <1>5, TamperAssumption DEF Original

\* What an edit can put into a row: an id and hashes the program wrote.
TableRow == [event_id : 1..Length, body : Forged \cup {Body, Shifted},
             previous_hash : KnownHashes, event_hash : KnownHashes \ {GENESIS}]

TableOK == table \in Seq(TableRow)

\* Every row the program wrote is such a row.
LEMMA OriginalRows ==
  /\ Original \in Seq(TableRow)
  /\ \A i \in 1..Length : Original[i] \in TableRow
<1>1. Len(Original) = Length /\ \E S : Original \in Seq(S)
  BY OriginalIs DEF ReadsAs
<1>2. ASSUME NEW i \in 1..Length PROVE Original[i] \in TableRow
  <2>1. Original[i] = [event_id |-> i, body |-> Body,
                       previous_hash |-> ExpectedPrev(Original, i),
                       event_hash |-> <<i, Body, ExpectedPrev(Original, i)>>]
    BY OriginalIs DEF ReadsAs
  <2>2. Original[i].event_hash \in KnownHashes \ {GENESIS}
    BY GenesisAssumption DEF KnownHashes
  <2>3. ExpectedPrev(Original, i) \in KnownHashes
    <3>1. CASE i = 1
      BY <3>1 DEF ExpectedPrev, KnownHashes
    <3>2. CASE i # 1
      <4>1. i - 1 \in 1..Length
        BY <3>2, TamperAssumption
      <4>2. QED
        BY <3>2, <4>1 DEF ExpectedPrev, KnownHashes
    <3>3. QED
      BY <3>1, <3>2
  <2>4. QED
    BY <2>1, <2>2, <2>3 DEF TableRow
<1>3. Original \in Seq(TableRow)
  <2>1. PICK S : Original \in Seq(S)
    BY <1>1
  <2>2. Original \in [1..Length -> TableRow]
    <3>1. DOMAIN Original = 1..Length /\ Original = [i \in 1..Length |-> Original[i]]
      BY <1>1, <2>1
    <3>2. QED
      BY <1>2, <3>1
  <2>3. QED
    BY <2>2, SeqDef, TamperAssumption
<1>4. QED
  BY <1>2, <1>3

LEMMA TableStep == TableOK /\ [TamperNext]_table => TableOK'
<1> SUFFICES ASSUME TableOK, [TamperNext]_table PROVE TableOK'
  OBVIOUS
<1>0. table \in Seq(TableRow) /\ Len(table) \in Nat /\ \A i \in 1..Len(table) : table[i] \in TableRow
  BY DEF TableOK
<1>1. ASSUME NEW i \in 1..Len(table), Alter(i) PROVE TableOK'
  <2>1. ASSUME NEW row \in TableRow, table' = [table EXCEPT ![i] = row] PROVE TableOK'
    BY <1>0, <2>1, ExceptSeq DEF TableOK
  <2>2. ASSUME NEW b \in Forged \cup {Body, Shifted}, table' = [table EXCEPT ![i].body = b]
        PROVE  TableOK'
    <3>1. [table[i] EXCEPT !.body = b] \in TableRow
      BY <1>0, <2>2 DEF TableRow
    <3>2. table' = [table EXCEPT ![i] = [table[i] EXCEPT !.body = b]]
      BY <2>2
    <3>3. QED
      BY <2>1, <3>1, <3>2
  <2>3. ASSUME NEW h \in KnownHashes, table' = [table EXCEPT ![i].previous_hash = h]
        PROVE  TableOK'
    <3>1. [table[i] EXCEPT !.previous_hash = h] \in TableRow
      BY <1>0, <2>3 DEF TableRow
    <3>2. table' = [table EXCEPT ![i] = [table[i] EXCEPT !.previous_hash = h]]
      BY <2>3
    <3>3. QED
      BY <2>1, <3>1, <3>2
  <2>4. ASSUME NEW h \in KnownHashes \ {GENESIS}, table' = [table EXCEPT ![i].event_hash = h]
        PROVE  TableOK'
    <3>1. [table[i] EXCEPT !.event_hash = h] \in TableRow
      BY <1>0, <2>4 DEF TableRow
    <3>2. table' = [table EXCEPT ![i] = [table[i] EXCEPT !.event_hash = h]]
      BY <2>4
    <3>3. QED
      BY <2>1, <3>1, <3>2
  <2>5. QED
    BY <1>1, <2>2, <2>3, <2>4 DEF Alter
<1> DEFINE First(i) == SubSeq(table, 1, i - 1)
<1>2. ASSUME NEW i \in 1..Len(table), DropRow(i) PROVE TableOK'
  <2>1. First(i) \in Seq(TableRow) /\ SubSeq(table, i + 1, Len(table)) \in Seq(TableRow)
    BY <1>0, SubSeqProperties
  <2>2. QED
    BY <1>2, <2>1, ConcatProperties DEF DropRow, RemoveAt, TableOK
<1>3. ASSUME NEW i \in 1..(Len(table) + 1), NEW j \in 1..Length, Replay(i, j) PROVE TableOK'
  <2>1. First(i) \in Seq(TableRow) /\ SubSeq(table, i, Len(table)) \in Seq(TableRow)
    BY <1>0, SubSeqProperties
  <2>2. <<Original[j]>> \in Seq(TableRow)
    BY OriginalRows
  <2>3. QED
    BY <1>3, <2>1, <2>2, ConcatProperties DEF Replay, InsertAt, TableOK
<1>4. QED
  BY <1>1, <1>2, <1>3 DEF TamperNext, TableOK

\* The only row that verifies in place i is the i-th row written, if the row
\* before it was the one before.
LEMMA VerifiedRow ==
  ASSUME TableOK, Verifies(table), NEW i \in 1..Len(table),
         i # 1 => /\ i - 1 \in 1..Length
                  /\ Covered(table[i - 1]) = Original[i - 1]
  PROVE  i \in 1..Length /\ Covered(table[i]) = Original[i]
<1>1. table[i] \in TableRow /\ i \in Nat
  BY DEF TableOK
<1>2. /\ table[i].previous_hash = ExpectedPrev(table, i)
      /\ table[i].event_hash
           = <<table[i].event_id, Text(table[i].body), ExpectedPrev(table, i)>>
  BY DEF Verifies, Digest
<1>3. PICK j \in 1..Length : table[i].event_hash = Original[j].event_hash
  BY <1>1 DEF TableRow, KnownHashes
<1>4. Original[j] = [event_id |-> j, body |-> Body,
                     previous_hash |-> ExpectedPrev(Original, j),
                     event_hash |-> <<j, Body, ExpectedPrev(Original, j)>>]
  BY OriginalIs DEF ReadsAs
<1>5. /\ table[i].event_id = j /\ Text(table[i].body) = Body
      /\ ExpectedPrev(table, i) = ExpectedPrev(Original, j)
  <2>1. <<table[i].event_id, Text(table[i].body), ExpectedPrev(table, i)>>
          = <<j, Body, ExpectedPrev(Original, j)>>
    BY <1>2, <1>3, <1>4
  <2>2. QED
    BY <2>1
<1>6. j = i
  <2>1. CASE i = 1
    <3>1. ASSUME j # 1 PROVE FALSE
      <4>1. j - 1 \in 1..Length
        BY <3>1, TamperAssumption
      <4>2. Original[j - 1].event_hash = GENESIS
        BY <1>5, <2>1, <3>1 DEF ExpectedPrev
      <4>3. QED
        BY <4>1, <4>2, GenesisAssumption
    <3>2. QED
      BY <2>1, <3>1
  <2>2. CASE i # 1
    <3>1. ExpectedPrev(table, i) = Original[i - 1].event_hash
      <4>1. Covered(table[i - 1]).event_hash = table[i - 1].event_hash
        <5>1. i - 1 \in 1..Len(table)
          BY <1>1, <2>2
        <5>2. table[i - 1] \in TableRow
          BY <5>1 DEF TableOK
        <5>3. QED
          BY <5>2 DEF Covered, TableRow
      <4>2. QED
        BY <2>2, <4>1 DEF ExpectedPrev
    <3>2. j # 1
      BY <1>5, <2>2, <3>1, GenesisAssumption DEF ExpectedPrev
    <3>3. j - 1 \in 1..Length /\ i - 1 \in 1..Length
      BY <2>2, <3>2, TamperAssumption
    <3>4. Original[i - 1].event_hash = Original[j - 1].event_hash
      BY <1>5, <3>1, <3>2 DEF ExpectedPrev
    <3>5. \A k \in 1..Length : Original[k].event_hash = <<k, Body, ExpectedPrev(Original, k)>>
      BY OriginalIs DEF ReadsAs
    <3>6. <<i - 1, Body, ExpectedPrev(Original, i - 1)>> = <<j - 1, Body, ExpectedPrev(Original, j - 1)>>
      BY <3>3, <3>4, <3>5
    <3>7. i - 1 = j - 1
      BY <3>6
    <3>8. QED
      BY <3>7, <1>1
  <2>3. QED
    BY <2>1, <2>2
<1>7. Covered(table[i])
        = [event_id |-> table[i].event_id, body |-> Text(table[i].body),
           previous_hash |-> table[i].previous_hash, event_hash |-> table[i].event_hash]
  BY <1>1 DEF Covered, TableRow
<1>8. QED
  BY <1>2, <1>3, <1>4, <1>5, <1>6, <1>7

\* A table that reads like a prefix of what was written verifies.
LEMMA PrefixVerifies ==
  ASSUME TableOK, Len(table) <= Length,
         \A i \in 1..Len(table) : Covered(table[i]) = Original[i]
  PROVE  Verifies(table)
<1>1. Len(table) \in Nat /\ \A i \in 1..Len(table) : i \in 1..Length /\ table[i] \in TableRow
  BY TamperAssumption DEF TableOK
<1>2. ASSUME NEW i \in 1..Len(table)
      PROVE  /\ table[i].event_id = i /\ Text(table[i].body) = Body
             /\ table[i].previous_hash = ExpectedPrev(Original, i)
             /\ table[i].event_hash = Original[i].event_hash
             /\ Original[i].event_hash = <<i, Body, ExpectedPrev(Original, i)>>
  <2>1. Original[i] = [event_id |-> i, body |-> Body,
                       previous_hash |-> ExpectedPrev(Original, i),
                       event_hash |-> <<i, Body, ExpectedPrev(Original, i)>>]
    BY <1>1, OriginalIs DEF ReadsAs
  <2>2. Covered(table[i])
          = [event_id |-> table[i].event_id, body |-> Text(table[i].body),
             previous_hash |-> table[i].previous_hash, event_hash |-> table[i].event_hash]
    BY <1>1 DEF Covered, TableRow
  <2>3. QED
    BY <2>1, <2>2
<1>3. ASSUME NEW i \in 1..Len(table) PROVE ExpectedPrev(table, i) = ExpectedPrev(Original, i)
  <2>1. CASE i = 1
    BY <2>1 DEF ExpectedPrev
  <2>2. CASE i # 1
    <3>1. i - 1 \in 1..Len(table)
      BY <1>1, <2>2
    <3>2. QED
      BY <1>2, <2>2, <3>1 DEF ExpectedPrev
  <2>3. QED
    BY <2>1, <2>2
<1>4. QED
  BY <1>2, <1>3 DEF Verifies, Digest

\* DetectsAllButTruncation: whatever is edited, and however often, verify_rows
\* accepts a table exactly when its rows read like a prefix of what append
\* wrote, for a chain and a choice of forgeries of any size.
THEOREM EditsAreDetected == TamperSpec => []DetectsAllButTruncation
<1>1. TamperInit => TableOK
  BY OriginalRows DEF TamperInit, TableOK
<1>2. TableOK => DetectsAllButTruncation
  <2> SUFFICES ASSUME TableOK PROVE DetectsAllButTruncation
    OBVIOUS
  <2>0. Len(table) \in Nat
    BY DEF TableOK
  <2>1. ASSUME Verifies(table)
        PROVE  \A i \in 1..Len(table) : i \in 1..Length /\ Covered(table[i]) = Original[i]
    <3> DEFINE Same(i) == i \in 1..Length /\ Covered(table[i]) = Original[i]
               P == {n \in Nat : n \in 1..Len(table) => Same(n)}
    <3>1. 0 \in P
      OBVIOUS
    <3>2. ASSUME NEW n \in P PROVE n + 1 \in P
      <4>1. SUFFICES ASSUME n + 1 \in 1..Len(table) PROVE Same(n + 1)
        OBVIOUS
      <4>2. n + 1 # 1 => Same((n + 1) - 1)
        <5>1. (n + 1) - 1 = n /\ n \in Nat /\ (n # 0 => n \in 1..Len(table))
          BY <2>0, <4>1
        <5> HIDE DEF Same
        <5>2. QED
          BY <5>1
      <4>3. QED
        BY <2>1, <4>1, <4>2, VerifiedRow
    <3>3. P = Nat
      <4>1. P \in SUBSET Nat
        OBVIOUS
      <4> HIDE DEF P
      <4>2. QED
        BY <3>1, <3>2, <4>1, CountingUp
    <3>4. QED
      BY <3>3
  <2>2. Verifies(table) => Len(table) <= Length
    BY <2>0, <2>1, TamperAssumption
  <2>3. QED
    BY <2>1, <2>2, PrefixVerifies DEF DetectsAllButTruncation
<1>3. QED
  BY <1>1, <1>2, TableStep, PTL DEF TamperSpec
=============================================================================
