-------------------------- MODULE OffboardingProofs --------------------------
(***************************************************************************)
(* What holds of every offboarding call, whatever the rest of the service  *)
(* writes or deletes between any two of its statements.                    *)
(***************************************************************************)
EXTENDS Offboarding, FiniteSetTheorems, SequenceTheorems, TLAPS

\* The tables the current loop has still to visit.
Left == {call.todo[i] : i \in DOMAIN call.todo}

Suffixes == {<<"chunks", "progress", "cutover">>, <<"progress", "cutover">>, <<"cutover">>, <<>>}

\* While the purge is open it has matched rows of the target only, and all that
\* were there from the beginning in the tables it has visited.
PurgeInv ==
    call.pc \in {"purge", "commit"} =>
        /\ config.pool # "bypass"
        /\ \A r \in call.doomed : r.tenant = Target
        /\ \A r \in before : r.table \in Left \/ r \in call.doomed
        /\ call.pc = "commit" <=> call.todo = <<>>

\* As long as the counts have found nothing, either there was such a moment or
\* a row of the target waits in a table still to be counted: chunks come and
\* go, but they are counted first, and no other row goes outside a purge.
CountInv ==
    call.pc = "count" =>
        /\ config.verification = "bypass"
        /\ call.todo # <<>>
        /\ call.remaining = 0 => cleared \/ \E r \in RowsOf(Target) : r.table \in Left

IInv ==
    /\ TypeOK
    /\ IsFiniteSet(table)
    /\ call.pc = "check" => call.doomed = {}
    /\ RowsOf(Target) = {} => cleared
    /\ PurgeInv
    /\ CountInv
    /\ call.pc = "gone" => cleared

-----------------------------------------------------------------------------
(* The loops over the tables.                                             *)

LEMMA Names == Tables = <<"chunks", "progress", "cutover">> /\ TableNames = {"chunks", "progress", "cutover"}
<1>1. DOMAIN Tables = {1, 2, 3}
  BY DEF Tables
<1> QED
  BY <1>1 DEF Tables, TableNames

\* What is left to visit is one of four lists.
LEMMA TodoIsSuffix ==
    ASSUME NEW s
    PROVE  (\E i \in 0..Len(Tables) : s = SubSeq(Tables, i + 1, Len(Tables))) <=> s \in Suffixes
<1>1. Tables \in Seq({"chunks", "progress", "cutover"}) /\ Len(Tables) = 3
  BY DEF Tables
<1>2. SubSeq(Tables, 1, 3) = <<"chunks", "progress", "cutover">>
  BY <1>1, SubSeqFull DEF Tables
<1>3. SubSeq(Tables, 2, 3) = <<"progress", "cutover">>
  <2>1. SubSeq(Tables, 2, 3) = Tail(Tables)
    BY <1>1, TailIsSubSeq DEF Tables
  <2> QED
    BY <2>1 DEF Tables
<1>4. SubSeq(Tables, 3, 3) = <<"cutover">>
  <2>1. SubSeq(Tables, 3, 3) = Tail(SubSeq(Tables, 2, 3))
    BY <1>1, HeadTailOfSubSeq
  <2>2. Tail(<<"progress", "cutover">>) = <<"cutover">>
    OBVIOUS
  <2> QED
    BY <1>3, <2>1, <2>2, Zenon
<1>5. SubSeq(Tables, 4, 3) = <<>>
  BY <1>1, SubSeqEmpty
<1>6. \A i : i \in 0..3 <=> i \in {0, 1, 2, 3}
  OBVIOUS
<1> DEFINE suffix(i) == SubSeq(Tables, i + 1, Len(Tables))
<1>7. \A i \in {0, 1, 2, 3} : suffix(i) =
         IF i = 0 THEN <<"chunks", "progress", "cutover">>
         ELSE IF i = 1 THEN <<"progress", "cutover">> ELSE IF i = 2 THEN <<"cutover">> ELSE <<>>
  <2>1. SubSeq(Tables, 0 + 1, 3) = <<"chunks", "progress", "cutover">>
    BY <1>2
  <2>2. SubSeq(Tables, 1 + 1, 3) = <<"progress", "cutover">>
    BY <1>3
  <2>3. SubSeq(Tables, 2 + 1, 3) = <<"cutover">>
    BY <1>4
  <2>4. SubSeq(Tables, 3 + 1, 3) = <<>>
    BY <1>5
  <2> QED
    BY <1>1, <2>1, <2>2, <2>3, <2>4, Zenon
<1> HIDE DEF suffix
<1>8. (\E i \in 0..3 : s = suffix(i)) <=> s \in Suffixes
  BY <1>6, <1>7 DEF Suffixes
<1> QED
  BY <1>1, <1>8 DEF suffix

\* One visit: the head is a table, the rest is one of the lists again.
LEMMA Visit ==
    ASSUME call.todo \in Suffixes, call.todo # <<>>
    PROVE  /\ Head(call.todo) \in TableNames
           /\ Tail(call.todo) \in Suffixes /\ Tail(call.todo) \in Seq(TableNames)
           /\ Left = {Head(call.todo)} \cup {Tail(call.todo)[i] : i \in DOMAIN Tail(call.todo)}
           /\ Len(call.todo) = 1 <=> Tail(call.todo) = <<>>
           /\ Len(call.todo) > 1 <=> Tail(call.todo) # <<>>
<1>1. CASE call.todo = <<"chunks", "progress", "cutover">>
  BY <1>1, Names DEF Left, Suffixes
<1>2. CASE call.todo = <<"progress", "cutover">>
  BY <1>2, Names DEF Left, Suffixes
<1>3. CASE call.todo = <<"cutover">>
  BY <1>3, Names DEF Left, Suffixes
<1> QED
  BY <1>1, <1>2, <1>3 DEF Suffixes

-----------------------------------------------------------------------------
(* Steps.                                                                 *)

\* What is used of the invariant in every step.
LEMMA Unfold ==
    ASSUME IInv
    PROVE  /\ table \subseteq Row /\ call \in Call /\ call.todo \in Suffixes
           /\ before \subseteq RowsOf(Target) /\ cleared \in BOOLEAN
           /\ writes \in Nat /\ calls \in Nat /\ IsFiniteSet(table)
           /\ PurgeInv /\ CountInv
<1>1. TypeOK
  BY DEF IInv
<1>2. call.todo \in Suffixes
  BY <1>1, TodoIsSuffix DEF TypeOK
<1> QED
  BY <1>1, <1>2, BoundAssumption DEF IInv, TypeOK

\* The type invariant, with the list of tables as one of four.
LEMMA Typed ==
    ASSUME table' \subseteq Row, config' \in Config, call' \in Call, call'.todo \in Suffixes,
           writes' \in 0..MaxWrites, calls' \in 0..MaxCalls, cleared' \in BOOLEAN,
           before' \subseteq RowsOf(Target)'
    PROVE  TypeOK'
<1>1. \E i \in 0..Len(Tables) : call'.todo = SubSeq(Tables, i + 1, Len(Tables))
  BY TodoIsSuffix
<1> QED
  BY <1>1 DEF TypeOK

\* The history follows: what was there from the beginning only shrinks while
\* the call runs, and a moment without rows is noticed.
LEMMA History ==
    ASSUME IInv, Observe
    PROVE  /\ cleared' \in BOOLEAN
           /\ before' \subseteq RowsOf(Target)'
           /\ RowsOf(Target)' = {} => cleared'
           /\ call.pc \in Running \/ call'.pc \notin Running =>
                before' \subseteq before /\ (cleared => cleared')
           /\ before' \subseteq table'
  BY Unfold DEF Observe, Begins, RowsOf

\* A step of the rest of the service between two statements of the call.
LEMMA ServiceStep ==
    ASSUME IInv, Observe,
           \/ \E t \in Tenants, name \in TableNames : Write(t, name)
           \/ \E r \in table : DropChunk(r)
    PROVE  IInv'
<1>1. UNCHANGED <<config, call, calls>>
  BY DEF Write, DropChunk
<1>2. /\ table' \subseteq Row /\ IsFiniteSet(table') /\ writes' \in 0..MaxWrites
      /\ \A r \in table \ table' : r.table = "chunks"
  <2>1. CASE \E t \in Tenants, name \in TableNames : Write(t, name)
    <3>1. PICK t \in Tenants, name \in TableNames : Write(t, name)
      BY <2>1
    <3> DEFINE row == [table |-> name, tenant |-> t, key |-> IF name = "chunks" THEN writes + 1 ELSE 0]
    <3>2. table' = table \cup {row} /\ writes < MaxWrites /\ writes' = writes + 1
      BY <3>1 DEF Write
    <3>3. row \in Row
      BY Unfold DEF Row
    <3> HIDE DEF row
    <3>4. IsFiniteSet(table')
      BY <3>2, Unfold, FS_AddElement
    <3> QED
      BY <3>2, <3>3, <3>4, Unfold, BoundAssumption
  <2>2. CASE \E r \in table : DropChunk(r)
    <3>1. PICK r \in table : DropChunk(r)
      BY <2>2
    <3>2. table' = table \ {r} /\ r.table = "chunks" /\ writes' = writes
      BY <3>1 DEF DropChunk
    <3>3. IsFiniteSet(table')
      BY <3>2, Unfold, FS_RemoveElement
    <3> QED
      BY <3>2, <3>3, Unfold DEF IInv, TypeOK
  <2> QED
    BY <2>1, <2>2
<1>3. /\ before' \subseteq before /\ (cleared => cleared') /\ (RowsOf(Target)' = {} => cleared')
      /\ before' \subseteq RowsOf(Target)' /\ cleared' \in BOOLEAN
  BY <1>1, History
<1>4. TypeOK'
  BY <1>1, <1>2, <1>3, Unfold, Typed DEF IInv, TypeOK
<1>5. PurgeInv'
  BY <1>1, <1>3, Unfold DEF PurgeInv, Left
<1>6. CountInv'
  <2> SUFFICES ASSUME call.pc = "count", call.remaining = 0, ~cleared'
               PROVE  \E r \in RowsOf(Target)' : r.table \in Left'
    BY <1>1, Unfold DEF CountInv
  <2>1. PICK r \in RowsOf(Target) : r.table \in Left
    BY <1>3, Unfold DEF CountInv
  <2>2. Left' = Left
    BY <1>1 DEF Left
  <2>3. CASE r \in table'
    BY <2>1, <2>2, <2>3 DEF RowsOf
  <2>4. CASE r \notin table'
    <3>1. r.table = "chunks"
      BY <1>2, <2>1, <2>4 DEF RowsOf
    <3>2. call.todo = <<"chunks", "progress", "cutover">>
      BY <2>1, <3>1, Unfold DEF Left, Suffixes
    <3>3. Left = TableNames
      BY <3>2, Names DEF Left
    <3>4. PICK q \in RowsOf(Target)' : TRUE
      BY <1>3
    <3>5. q.table \in TableNames
      BY <1>2, <3>4 DEF RowsOf, Row
    <3> QED
      BY <2>2, <3>3, <3>4, <3>5
  <2> QED
    BY <2>3, <2>4
<1> QED
  BY <1>1, <1>2, <1>3, <1>4, <1>5, <1>6 DEF IInv

\* A step of the call that leaves the tables alone, and neither loop goes on.
LEMMA QuietStep ==
    ASSUME IInv, Observe, Start \/ CheckScope \/ ResolveDsn \/ Connect \/ Fail
    PROVE  IInv'
<1>1. /\ UNCHANGED <<table, config, writes>> /\ RowsOf(Target)' = RowsOf(Target)
      /\ calls' \in 0..MaxCalls
  BY BoundAssumption, Unfold DEF Start, CheckScope, ResolveDsn, Connect, Fail, RowsOf, IInv, TypeOK
<1>2. /\ before' \subseteq RowsOf(Target)' /\ cleared' \in BOOLEAN
      /\ RowsOf(Target)' = {} => cleared'
      /\ call.pc \in Running \/ call'.pc \notin Running => (cleared => cleared')
  BY History
<1>3. /\ Tables \in Suffixes /\ <<>> \in Suffixes /\ Tables # <<>> /\ Tables \in Seq(TableNames)
      /\ NoCall \in Call
  BY Names DEF Suffixes, NoCall, Call
<1>4. /\ call' \in Call /\ call'.todo \in Suffixes
      /\ call'.pc \in {"check", "refused", "purge", "connect", "untrusted", "count", "failed"}
      /\ call'.pc = "check" => call'.doomed = {}
      /\ call'.pc = "purge" => config.pool # "bypass" /\ call'.doomed = {} /\ call'.todo = Tables
      /\ call'.pc = "count" => config.verification = "bypass" /\ call'.todo = Tables
  <2>1. CASE Start
    BY <1>3, <2>1 DEF Start, NoCall, Call, Running
  <2>2. CASE CheckScope
    <3>1. call.pc = "check" /\ call.doomed = {} /\ call \in Call /\ call.todo \in Suffixes
      BY <2>2, Unfold DEF CheckScope, IInv
    <3>2. CASE SessionBypassesRLS
      BY <2>2, <3>1, <3>2 DEF CheckScope, Call, Running, Verdicts
    <3>3. CASE ~SessionBypassesRLS
      <4>1. call' = [call EXCEPT !.pc = "purge", !.todo = Tables] /\ config.pool # "bypass"
        BY <2>2, <3>3 DEF CheckScope, SessionBypassesRLS
      <4> QED
        BY <1>3, <3>1, <4>1 DEF Call, Running
    <3> QED
      BY <3>2, <3>3
  <2>3. CASE ResolveDsn
    BY <2>3, Unfold DEF ResolveDsn, Call, Running, Verdicts
  <2>4. CASE Connect
    <3>1. call \in Call /\ call.todo \in Suffixes
      BY Unfold
    <3>2. CASE SeesPastRLS
      <4>1. call' = [call EXCEPT !.pc = "count", !.todo = Tables] /\ config.verification = "bypass"
        BY <2>4, <3>2 DEF Connect, SeesPastRLS
      <4> QED
        BY <1>3, <3>1, <4>1 DEF Call, Running
    <3>3. CASE ~SeesPastRLS
      BY <2>4, <3>1, <3>3 DEF Connect, Call, Running, Verdicts
    <3> QED
      BY <3>2, <3>3
  <2>5. CASE Fail
    BY <1>3, <2>5 DEF Fail, NoCall, Call, Running, Verdicts
  <2> QED
    BY <2>1, <2>2, <2>3, <2>4, <2>5
<1>5. TypeOK'
  BY <1>1, <1>2, <1>4, Unfold, Typed DEF IInv, TypeOK
<1>6. call'.todo = Tables => \A r \in RowsOf(Target)' : r.table \in Left'
  BY <1>1, Names, Unfold DEF RowsOf, Row, Left
<1>7. PurgeInv'
  BY <1>1, <1>2, <1>3, <1>4, <1>6 DEF PurgeInv
<1>8. CountInv'
  BY <1>1, <1>2, <1>3, <1>4, <1>6 DEF CountInv
<1> QED
  BY <1>1, <1>2, <1>4, <1>5, <1>7, <1>8, Unfold DEF IInv

\* A DELETE matches the target's rows of its table, all of them.
LEMMA PurgeStatementStep == ASSUME IInv, Observe, PurgeStatement PROVE IInv'
<1> DEFINE name == Head(call.todo)
           rest == Tail(call.todo)
           gone == call.doomed \cup Matched(name)
           pc == IF Len(call.todo) = 1 THEN "commit" ELSE "purge"
<1>1. /\ call.pc = "purge" /\ UNCHANGED <<table, config, writes, calls>>
      /\ call' = [call EXCEPT !.doomed = gone, !.todo = rest, !.pc = pc]
  BY DEF PurgeStatement
<1>2. /\ call \in Call /\ call.todo \in Suffixes /\ call.todo # <<>> /\ config.pool # "bypass"
      /\ \A r \in call.doomed : r.tenant = Target
      /\ \A r \in before : r.table \in Left \/ r \in call.doomed
      /\ table \subseteq Row /\ before \subseteq RowsOf(Target)
  BY <1>1, Unfold DEF PurgeInv
<1>3. /\ rest \in Suffixes /\ rest \in Seq(TableNames)
      /\ Left = {name} \cup {rest[i] : i \in DOMAIN rest}
      /\ pc \in {"purge", "commit"} /\ (pc = "commit" <=> rest = <<>>)
  BY <1>2, Visit
<1>4. Matched(name) = {r \in table : r.table = name /\ r.tenant = Target}
  BY <1>2 DEF Matched
<1>5. gone \subseteq Row /\ \A r \in gone : r.tenant = Target
  BY <1>2, <1>4 DEF Call
<1>6. \A r \in before : r.table = name => r \in gone
  BY <1>2, <1>4 DEF RowsOf
<1> HIDE DEF name, rest, gone, pc
<1>7. /\ call' \in Call /\ call'.todo = rest /\ call'.pc = pc /\ call'.doomed = gone
  BY <1>1, <1>2, <1>3, <1>5 DEF Call, Running
<1>8. /\ before' \subseteq before /\ before' \subseteq RowsOf(Target)' /\ cleared' \in BOOLEAN
      /\ RowsOf(Target)' = {} => cleared'
  BY <1>1, History DEF Running
<1>9. TypeOK'
  BY <1>1, <1>3, <1>7, <1>8, Unfold, Typed DEF IInv, TypeOK
<1>10. PurgeInv'
  <2>1. Left' = {rest[i] : i \in DOMAIN rest}
    BY <1>7 DEF Left
  <2>2. \A r \in before : r.table \in Left' \/ r \in gone
    BY <1>2, <1>3, <1>6, <2>1 DEF gone
  <2> QED
    BY <1>1, <1>2, <1>3, <1>5, <1>7, <1>8, <2>2 DEF PurgeInv
<1>11. CountInv'
  BY <1>3, <1>7 DEF CountInv
<1> QED
  BY <1>1, <1>3, <1>7, <1>8, <1>9, <1>10, <1>11, Unfold DEF IInv

\* The purge commits: all that was there from the beginning goes at once.
LEMMA CommitPurgeStep ==
    ASSUME IInv, Observe, CommitPurge
    PROVE  /\ IInv'
           /\ \A r \in table \ table' : r.tenant = Target
           /\ before' = {}
<1>1. /\ call.pc = "commit" /\ table' = table \ call.doomed
      /\ UNCHANGED <<config, writes, calls>>
      /\ call' = [call EXCEPT !.pc = "resolve"]
  BY DEF CommitPurge
<1>2. /\ call \in Call /\ call.todo \in Suffixes
      /\ \A r \in call.doomed : r.tenant = Target
      /\ \A r \in before : r.table \in Left \/ r \in call.doomed
      /\ table \subseteq Row /\ IsFiniteSet(table) /\ call.todo = <<>>
  BY <1>1, Unfold DEF PurgeInv
<1>3. before' \subseteq before /\ before' \subseteq table' /\ before' \subseteq RowsOf(Target)'
      /\ cleared' \in BOOLEAN /\ (RowsOf(Target)' = {} => cleared')
  BY <1>1, History DEF Running
<1>4. before' = {}
  BY <1>1, <1>2, <1>3 DEF Left
<1>5. call' \in Call /\ call'.todo = call.todo /\ call'.pc = "resolve"
  BY <1>1, <1>2 DEF Call, Running
<1>6. IsFiniteSet(table') /\ table' \subseteq Row
  BY <1>1, <1>2, FS_Subset
<1>7. TypeOK'
  BY <1>1, <1>2, <1>3, <1>5, <1>6, Typed DEF IInv, TypeOK
<1>8. IInv'
  BY <1>3, <1>5, <1>6, <1>7 DEF IInv, PurgeInv, CountInv
<1> QED
  BY <1>1, <1>2, <1>4, <1>8

\* A table is counted; nothing found so far, a row of the target must be in
\* one of the tables that follow.
LEMMA CountStatementStep == ASSUME IInv, Observe, CountStatement PROVE IInv'
<1> DEFINE name == Head(call.todo)
           rest == Tail(call.todo)
           remaining == call.remaining + Counted(name)
           pc == IF Len(call.todo) > 1 THEN "count" ELSE IF remaining = 0 THEN "gone" ELSE "notempty"
           found == {r \in table : r.table = name /\ r.tenant = Target}
<1>1. /\ call.pc = "count" /\ UNCHANGED <<table, config, writes, calls>>
      /\ call' = [call EXCEPT !.remaining = remaining, !.todo = rest, !.pc = pc]
  BY DEF CountStatement
<1>2. /\ call \in Call /\ call.todo \in Suffixes /\ call.todo # <<>>
      /\ config.verification = "bypass" /\ IsFiniteSet(table)
      /\ call.remaining = 0 => cleared \/ \E r \in RowsOf(Target) : r.table \in Left
  BY <1>1, Unfold DEF CountInv
<1>3. /\ rest \in Suffixes /\ rest \in Seq(TableNames)
      /\ Left = {name} \cup {rest[i] : i \in DOMAIN rest}
      /\ Len(call.todo) > 1 <=> rest # <<>>
  BY <1>2, Visit
<1>4. Counted(name) = Cardinality(found)
  BY <1>2 DEF Counted
<1>5. IsFiniteSet(found)
  BY <1>2, FS_Subset
<1>6. Counted(name) \in Nat /\ (Counted(name) = 0 => found = {})
  BY <1>4, <1>5, FS_CardinalityType, FS_EmptySet
<1>7. /\ remaining \in Nat
      /\ remaining = 0 => call.remaining = 0 /\ found = {}
  BY <1>2, <1>6 DEF Call
<1>8. pc \in {"count", "gone", "notempty"} /\ (pc = "gone" <=> rest = <<>> /\ remaining = 0)
      /\ (pc = "count" <=> rest # <<>>)
  BY <1>3
<1> HIDE DEF name, rest, remaining, pc
<1>9. call' \in Call /\ call'.todo = rest /\ call'.pc = pc /\ call'.remaining = remaining
  BY <1>1, <1>2, <1>3, <1>7, <1>8 DEF Call, Running, Verdicts
<1>10. /\ before' \subseteq RowsOf(Target)' /\ cleared' \in BOOLEAN
       /\ RowsOf(Target)' = {} => cleared'
       /\ cleared => cleared'
  BY <1>1, History DEF Running
<1>11. TypeOK'
  BY <1>1, <1>3, <1>9, <1>10, Unfold, Typed DEF IInv, TypeOK
<1>12. remaining = 0 => cleared \/ \E r \in RowsOf(Target) : r.table \in {rest[i] : i \in DOMAIN rest}
  BY <1>2, <1>3, <1>7 DEF RowsOf
<1>13. RowsOf(Target)' = RowsOf(Target) /\ Left' = {rest[i] : i \in DOMAIN rest}
  BY <1>1, <1>9 DEF RowsOf, Left
<1>14. PurgeInv'
  BY <1>8, <1>9 DEF PurgeInv
<1>15. CountInv'
  BY <1>1, <1>2, <1>8, <1>9, <1>10, <1>12, <1>13 DEF CountInv
<1>16. call'.pc = "gone" => cleared'
  BY <1>8, <1>9, <1>10, <1>12
<1> QED
  BY <1>1, <1>2, <1>8, <1>9, <1>10, <1>11, <1>14, <1>15, <1>16 DEF IInv

\* Nothing has been written yet.
LEMMA InitIInv == Init => IInv
<1> SUFFICES ASSUME Init PROVE IInv
  OBVIOUS
<1>1. /\ call \in Call /\ call.todo = <<>> /\ call.pc = "idle"
  BY DEF Init, NoCall, Call
<1>2. <<>> \in Suffixes
  BY DEF Suffixes
<1>3. TypeOK
  BY <1>1, <1>2, TodoIsSuffix, BoundAssumption DEF Init, TypeOK, RowsOf
<1>4. IsFiniteSet(table)
  BY FS_EmptySet DEF Init
<1> QED
  BY <1>1, <1>3, <1>4 DEF Init, IInv, PurgeInv, CountInv

\* Every step preserves the invariant.
LEMMA StepIInv == IInv /\ [Next]_vars => IInv'
<1> SUFFICES ASSUME IInv, [Next]_vars PROVE IInv'
  OBVIOUS
<1>1. CASE Next
  BY <1>1, ServiceStep, QuietStep, PurgeStatementStep, CommitPurgeStep, CountStatementStep
     DEF Next, CallStep
<1>2. CASE UNCHANGED vars
  <2>1. TypeOK'
    BY <1>2 DEF vars, IInv, TypeOK, RowsOf
  <2> QED
    BY <1>2, <2>1 DEF vars, IInv, PurgeInv, CountInv, Left, RowsOf
<1> QED
  BY <1>1, <1>2

\* The invariant holds of every state an offboarding can reach.
THEOREM Invariance == Spec => []IInv
  BY InitIInv, StepIInv, PTL DEF Spec

-----------------------------------------------------------------------------
(* Results.                                                               *)

\* A call that reports the tenant gone has had a moment at which no table held
\* a row of it, although its counts are three statements and chunks come and
\* go between them (offboard_cli.py:183-230).
THEOREM SuccessMeansClearedAlways == Spec => []SuccessMeansCleared
<1>1. IInv => SuccessMeansCleared
  BY DEF IInv, SuccessMeansCleared
<1> QED
  BY <1>1, Invariance, PTL

\* The only step of a call that touches a table is the commit of its purge.
LEMMA OnlyCommitPurges ==
    ASSUME Next, call' # call, table' # table
    PROVE  CommitPurge /\ Observe
  BY DEF Next, CallStep, Write, DropChunk, Start, CheckScope, PurgeStatement, ResolveDsn, Connect,
         CountStatement, Fail

\* A call removes no row of any tenant but the target, whatever roles the two
\* connections were given and wherever it fails (deletion.py:45-60).
THEOREM OnlyTargetPurgedAlways == Spec => OnlyTargetPurged
<1>1. IInv /\ [Next]_vars => [ByTheCall => \A r \in table \ table' : r.tenant = Target]_vars
  BY OnlyCommitPurges, CommitPurgeStep DEF ByTheCall, vars
<1> QED
  BY <1>1, Invariance, PTL DEF Spec, OnlyTargetPurged

\* The purge is one transaction: once a call has removed anything, no row that
\* had been there since it began is left in any table (deletion.py:160-163).
THEOREM NothingHalfPurgedAlways == Spec => NothingHalfPurged
<1>1. IInv /\ [Next]_vars => [(ByTheCall /\ table' # table) => before' = {}]_vars
  BY OnlyCommitPurges, CommitPurgeStep DEF ByTheCall, vars
<1> QED
  BY <1>1, Invariance, PTL DEF Spec, NothingHalfPurged
=============================================================================
