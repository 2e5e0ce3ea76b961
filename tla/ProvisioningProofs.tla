------------------------- MODULE ProvisioningProofs -------------------------
(***************************************************************************)
(* What holds of every migration, however many processes run the command   *)
(* at once, how often, and wherever they die.                              *)
(***************************************************************************)
EXTENDS Provisioning, FiniteSetTheorems, TLAPS

\* How far a run has come: the role is there, the run has seen to its
\* attributes, it knows what to apply, a file's transaction is open.
Open == {"execute", "extend", "record", "commit"}
Planned == {"file", "ok"} \cup Open
Bound == {"verify", "documents", "find", "make", "ledger"} \cup Planned
HasRole == {"alter"} \cup Bound

\* The open file is the first one left, and all its statements are executed
\* once it is recorded; the extension is created when its turn has come.
FileInv(t) ==
    /\ t.file \in t.todo
    /\ \A g \in t.todo : t.file <= g
    /\ t.done <= Len(Script(t.file))
    /\ t.pc \in {"record", "commit"} <=> t.done = Len(Script(t.file))
    /\ t.pc = "extend" => Script(t.file)[t.done + 1] = Extension

\* What a run t knows of the database is still so; a run that has it to itself
\* finds what it looked at as it left it.
RunInv(t) ==
    /\ t.seen <= incidents
    /\ t.pc \in HasRole => role.exists
    /\ t.pc \in Bound /\ role.bypass => incidents > t.seen
    /\ t.todo \subseteq 1 .. t.shipped
    /\ t.pc \in Planned => 1 .. t.shipped \subseteq t.todo \cup ledger
    /\ t.pc = "ok" => t.todo = {}
    /\ IF t.pc \in Open THEN FileInv(t) ELSE t.done = 0
    /\ t.pc = "conflict" => ~t.alone
    /\ t.alone /\ t.pc = "create" => ~role.exists
    /\ t.alone /\ t.pc = "make" => bookkeeping = {}
    /\ t.alone /\ t.pc \in {"file"} \cup Open => t.todo \cap ledger = {}

AloneInv ==
    \A r, q \in Runners : r # q /\ Active(r) /\ Active(q) => ~run[r].alone

IInv ==
    /\ LedgerIsTheSchema
    /\ \A r \in Runners : RunInv(run[r])
    /\ AloneInv

-----------------------------------------------------------------------------
(* The files and their statements.                                        *)

\* The files, statement by statement.
LEMMA Scripts ==
    /\ Script(1) = <<Extension, <<"table", "document_chunks">>>>
    /\ Script(2) = <<<<"enable", "document_chunks">>, <<"force", "document_chunks">>,
                     <<"policy", "document_chunks">>, <<"grant", "document_chunks">>>>
    /\ Script(3) = <<<<"columns", "document_chunks">>, <<"table", "backfill_progress">>,
                     <<"enable", "backfill_progress">>, <<"force", "backfill_progress">>,
                     <<"policy", "backfill_progress">>, <<"grant", "backfill_progress">>,
                     <<"table", "embedding_cutover">>,
                     <<"enable", "embedding_cutover">>, <<"force", "embedding_cutover">>,
                     <<"policy", "embedding_cutover">>, <<"grant", "embedding_cutover">>>>
  BY DEF Script

\* What the files contain.
LEMMA Contents ==
    /\ Effects(1) = {Extension, <<"table", "document_chunks">>}
    /\ Effects(2) = {<<"enable", "document_chunks">>, <<"force", "document_chunks">>,
                     <<"policy", "document_chunks">>, <<"grant", "document_chunks">>}
    /\ Effects(3) = {<<"columns", "document_chunks">>, <<"table", "backfill_progress">>,
                     <<"enable", "backfill_progress">>, <<"force", "backfill_progress">>,
                     <<"policy", "backfill_progress">>, <<"grant", "backfill_progress">>,
                     <<"table", "embedding_cutover">>,
                     <<"enable", "embedding_cutover">>, <<"force", "embedding_cutover">>,
                     <<"policy", "embedding_cutover">>, <<"grant", "embedding_cutover">>}
  BY Scripts DEF Effects

\* No two files contain the same statement.
LEMMA FilesAreDisjoint ==
    /\ Files = {1, 2, 3}
    /\ \A f, g \in Files : f # g => Effects(f) \cap Effects(g) = {}
    /\ \A f \in Files : Effects(f) \subseteq AllEffects
<1>1. Files = {1, 2, 3}
  BY DEF Files
<1>2. \A f \in Files : Effects(f) \subseteq AllEffects
  BY DEF AllEffects
<1> QED
  BY <1>1, <1>2, Contents DEF Extension

\* A file has statements; the extension and its table are the first file's, and
\* every other statement is about a table that file, or one before it in its
\* own, creates.
LEMMA TablesComeFirst ==
    ASSUME NEW f \in Files
    PROVE  /\ Len(Script(f)) \in Nat \ {0}
           /\ DOMAIN Script(f) = 1 .. Len(Script(f))
           /\ \A i \in 1 .. Len(Script(f)) :
                 Script(f)[i][1] \notin {"extension", "table"} =>
                     \/ f # 1 /\ Script(f)[i][2] = "document_chunks"
                     \/ \E j \in 1 .. (i - 1) : Script(f)[j] = <<"table", Script(f)[i][2]>>
<1>1. CASE f = 1
  <2>1. Len(Script(1)) = 2 /\ DOMAIN Script(1) = 1 .. 2
    BY Scripts
  <2>2. Script(1)[1][1] = "extension" /\ Script(1)[2][1] = "table"
    BY Scripts DEF Extension
  <2> QED
    BY <1>1, <2>1, <2>2
<1>2. CASE f = 2
  <2>1. Len(Script(2)) = 4 /\ DOMAIN Script(2) = 1 .. 4
    BY Scripts
  <2>2. \A i \in 1 .. 4 : Script(2)[i][2] = "document_chunks"
    BY Scripts
  <2> QED
    BY <1>2, <2>1, <2>2
<1>3. CASE f = 3
  <2> DEFINE s == Script(3)
  <2>1. Len(s) = 11 /\ DOMAIN s = 1 .. 11
    BY Scripts
  <2>2. s[1][2] = "document_chunks" /\ s[2][1] = "table" /\ s[7][1] = "table"
    BY Scripts
  <2>3. \A i \in 3 .. 6 : s[2] = <<"table", s[i][2]>>
    BY Scripts
  <2>4. \A i \in 8 .. 11 : s[7] = <<"table", s[i][2]>>
    BY Scripts
  <2> HIDE DEF s
  <2>5. ASSUME NEW i \in 1 .. 11, s[i][1] \notin {"extension", "table"}
        PROVE  \/ s[i][2] = "document_chunks"
               \/ \E j \in 1 .. (i - 1) : s[j] = <<"table", s[i][2]>>
    <3>1. i = 1 \/ i \in 3 .. 6 \/ i \in 8 .. 11
      BY <2>2, <2>5
    <3> QED
      BY <2>2, <2>3, <2>4, <3>1
  <2>6. Len(s) \in Nat \ {0} /\ DOMAIN s = 1 .. Len(s)
    BY <2>1
  <2>7. \A i \in 1 .. Len(s) :
           s[i][1] \notin {"extension", "table"} =>
               \/ f # 1 /\ s[i][2] = "document_chunks"
               \/ \E j \in 1 .. (i - 1) : s[j] = <<"table", s[i][2]>>
    BY <1>3, <2>1, <2>5
  <2> QED
    BY <1>3, <2>6, <2>7 DEF s
<1>4. f = 1 \/ f = 2 \/ f = 3
  BY DEF Files
<1> QED
  BY <1>1, <1>2, <1>3, <1>4

\* Once every statement of the file is executed, its effects are what the run
\* has not committed; until then the next one is another effect of it.
LEMMA WholeFile ==
    ASSUME NEW r \in Runners, run[r].file \in Files, run[r].done \in Nat,
           run[r].done <= Len(Script(run[r].file))
    PROVE  /\ run[r].done = Len(Script(run[r].file)) => Uncommitted(r) = Effects(run[r].file)
           /\ run[r].done # Len(Script(run[r].file)) =>
                 /\ run[r].done + 1 \in 1 .. Len(Script(run[r].file))
                 /\ Statement(r) \in Effects(run[r].file)
  BY TablesComeFirst DEF Uncommitted, Statement, Effects

-----------------------------------------------------------------------------
(* Steps.                                                                 *)

\* Nothing has happened yet.
LEMMA InitIInv == Init => IInv
<1> SUFFICES ASSUME Init PROVE IInv
  OBVIOUS
<1>1. TypeOK
  BY BoundAssumption DEF Init, TypeOK, Run, NoRun, Files, Running, Ended, None
<1>2. LedgerIsTheSchema
  BY <1>1 DEF Init, LedgerIsTheSchema, AppliedInOrder
<1>3. \A r \in Runners : RunInv(run[r])
  BY DEF Init, RunInv, NoRun, HasRole, Bound, Planned, Open
<1>4. AloneInv
  BY DEF Init, AloneInv, Active, NoRun, Running
<1> QED
  BY <1>2, <1>3, <1>4 DEF IInv

\* A step of one run that changes nothing but the run.
LEMMA OneRun ==
    ASSUME IInv, NEW r \in Runners, NEW t \in Run, RunInv(t),
           run' = [run EXCEPT ![r] = t], t.alone = run[r].alone, Active(r),
           UNCHANGED <<released, documents, role, schema, bookkeeping, ledger, runs, incidents>>
    PROVE  IInv'
<1>1. TypeOK'
  BY DEF IInv, LedgerIsTheSchema, TypeOK
<1>2. LedgerIsTheSchema'
  BY <1>1 DEF IInv, LedgerIsTheSchema, AppliedInOrder
<1>3. ASSUME NEW q \in Runners PROVE RunInv(run[q])'
  <2>1. run'[q] = IF q = r THEN t ELSE run[q]
    BY DEF IInv, LedgerIsTheSchema, TypeOK
  <2>2. RunInv(run'[q])
    BY <2>1 DEF IInv
  <2> QED
    BY <2>2 DEF RunInv, FileInv
<1>4. AloneInv'
  BY DEF IInv, AloneInv, Active, LedgerIsTheSchema, TypeOK
<1> QED
  BY <1>2, <1>3, <1>4 DEF IInv

\* What is used of the invariant about one run.
LEMMA Unfold ==
    ASSUME IInv, NEW r \in Runners
    PROVE  /\ TypeOK /\ run[r] \in Run /\ RunInv(run[r])
           /\ ledger \subseteq Files /\ role \in [exists : BOOLEAN, bypass : BOOLEAN]
           /\ incidents \in Nat
  BY BoundAssumption DEF IInv, LedgerIsTheSchema, TypeOK

\* The steps that only read the database.
LEMMA ReadingStep ==
    ASSUME IInv, NEW r \in Runners,
           LookForRole(r) \/ VerifyRole(r) \/ AssertDocuments(r) \/ FindLedger(r) \/ Record(r)
    PROVE  IInv'
<1> DEFINE to(pc) == [run[r] EXCEPT !.pc = pc]
<1>1. run[r] \in Run /\ RunInv(run[r]) /\ role \in [exists : BOOLEAN, bypass : BOOLEAN]
  BY Unfold
<1>2. \E pc \in {"alter", "create", "bypassed", "documents", "find", "make", "ledger",
                  "missing", "commit"} :
         /\ run' = [run EXCEPT ![r] = to(pc)]
         /\ Active(r)
         /\ to(pc) \in Run /\ RunInv(to(pc))
  <2>1. CASE LookForRole(r)
    <3>1. run[r].pc = "look" /\ Active(r)
      BY <2>1 DEF LookForRole, Active, Running
    <3>2. CASE role.exists
      <4>1. run' = [run EXCEPT ![r] = to("alter")]
        BY <2>1, <3>2 DEF LookForRole, GoTo
      <4>2. to("alter") \in Run /\ RunInv(to("alter"))
        BY <1>1, <3>1, <3>2 DEF Run, Running, RunInv, HasRole, Bound, Planned, Open
      <4> QED
        BY <3>1, <4>1, <4>2
    <3>3. CASE ~role.exists
      <4>1. run' = [run EXCEPT ![r] = to("create")]
        BY <2>1, <3>3 DEF LookForRole, GoTo
      <4>2. to("create") \in Run /\ RunInv(to("create"))
        BY <1>1, <3>1, <3>3 DEF Run, Running, RunInv, HasRole, Bound, Planned, Open
      <4> QED
        BY <3>1, <4>1, <4>2
    <3> QED
      BY <3>2, <3>3
  <2>2. CASE VerifyRole(r)
    <3>1. run[r].pc = "verify" /\ Active(r)
      BY <2>2 DEF VerifyRole, Active, Running
    <3>2. CASE role.bypass
      <4>1. run' = [run EXCEPT ![r] = to("bypassed")]
        BY <2>2, <3>2 DEF VerifyRole, GoTo
      <4>2. to("bypassed") \in Run /\ RunInv(to("bypassed"))
        BY <1>1, <3>1 DEF Run, Ended, RunInv, HasRole, Bound, Planned, Open
      <4> QED
        BY <3>1, <4>1, <4>2
    <3>3. CASE ~role.bypass
      <4>1. run' = [run EXCEPT ![r] = to("documents")]
        BY <2>2, <3>3 DEF VerifyRole, GoTo
      <4>2. to("documents") \in Run /\ RunInv(to("documents"))
        BY <1>1, <3>1 DEF Run, Running, RunInv, HasRole, Bound, Planned, Open
      <4> QED
        BY <3>1, <4>1, <4>2
    <3> QED
      BY <3>2, <3>3
  <2>3. CASE AssertDocuments(r)
    BY <1>1, <2>3 DEF AssertDocuments, GoTo, Active, Running, Ended, Run, RunInv, FileInv, HasRole,
                      Bound, Planned, Open
  <2>4. CASE Record(r)
    BY <1>1, <2>4 DEF Record, GoTo, Active, Running, Run, RunInv, FileInv, HasRole, Bound,
                      Planned, Open
  <2>5. CASE FindLedger(r)
    <3>1. run[r].pc = "find" /\ Active(r)
      BY <2>5 DEF FindLedger, Active, Running
    <3>2. CASE bookkeeping # {}
      <4>1. run' = [run EXCEPT ![r] = to("ledger")]
        BY <2>5, <3>2 DEF FindLedger, GoTo
      <4>2. to("ledger") \in Run /\ RunInv(to("ledger"))
        BY <1>1, <3>1, <3>2 DEF Run, Running, RunInv, HasRole, Bound, Planned, Open
      <4> QED
        BY <3>1, <4>1, <4>2
    <3>3. CASE bookkeeping = {}
      <4>1. run' = [run EXCEPT ![r] = to("make")]
        BY <2>5, <3>3 DEF FindLedger, GoTo
      <4>2. to("make") \in Run /\ RunInv(to("make"))
        BY <1>1, <3>1, <3>3 DEF Run, Running, RunInv, HasRole, Bound, Planned, Open
      <4> QED
        BY <3>1, <4>1, <4>2
    <3> QED
      BY <3>2, <3>3
  <2> QED
    BY <2>1, <2>2, <2>3, <2>4, <2>5
<1>3. UNCHANGED <<released, documents, role, schema, bookkeeping, ledger, runs, incidents>>
  BY DEF LookForRole, VerifyRole, AssertDocuments, FindLedger, Record
<1>4. \A pc : to(pc).alone = run[r].alone
  BY <1>1 DEF Run
<1> HIDE DEF to
<1> QED
  BY <1>2, <1>3, <1>4, OneRun

\* What the ledger does not list is what is left to do.
LEMMA ReadLedgerStep == ASSUME IInv, NEW r \in Runners, ReadLedger(r) PROVE IInv'
<1> DEFINE t == [run[r] EXCEPT !.pc = "file", !.todo = (1 .. run[r].shipped) \ ledger]
<1>1. run[r] \in Run /\ RunInv(run[r])
  BY Unfold
<1>2. /\ run[r].pc = "ledger" /\ run' = [run EXCEPT ![r] = t]
      /\ UNCHANGED <<released, documents, role, schema, bookkeeping, ledger, runs, incidents>>
  BY DEF ReadLedger
<1>3. t \in Run
  <2>1. run[r].shipped \in Files
    BY <1>1 DEF Run
  <2>2. (1 .. run[r].shipped) \ ledger \subseteq Files
    BY <2>1 DEF Files
  <2> QED
    BY <1>1, <2>2 DEF Run, Running
<1>4. RunInv(t)
  BY <1>1, <1>2 DEF Run, RunInv, HasRole, Bound, Planned, Open
<1>5. t.alone = run[r].alone /\ Active(r)
  BY <1>1, <1>2 DEF Run, Active, Running
<1> HIDE DEF t
<1> QED
  BY <1>2, <1>3, <1>4, <1>5, OneRun

\* The first file left is opened; none left, everything shipped is applied.
LEMMA NextFileStep == ASSUME IInv, NEW r \in Runners, NextFile(r) PROVE IInv'
<1>1. run[r] \in Run /\ RunInv(run[r])
  BY Unfold
<1>2. /\ run[r].pc = "file" /\ Active(r)
      /\ UNCHANGED <<released, documents, role, schema, bookkeeping, ledger, runs, incidents>>
  BY DEF NextFile, Active, Running
<1>3. CASE run[r].todo = {}
  <2> DEFINE t == [run[r] EXCEPT !.pc = "ok"]
  <2>1. run' = [run EXCEPT ![r] = t]
    BY <1>3 DEF NextFile
  <2>2. t \in Run /\ t.alone = run[r].alone
    BY <1>1 DEF Run, Ended
  <2>3. RunInv(t)
    BY <1>1, <1>2, <1>3 DEF Run, RunInv, HasRole, Bound, Planned, Open
  <2> HIDE DEF t
  <2> QED
    BY <1>2, <2>1, <2>2, <2>3, OneRun
<1>4. CASE run[r].todo # {}
  <2> DEFINE f == FirstFile(run[r].todo)
             t == [run[r] EXCEPT !.pc = "execute", !.file = f]
  <2>1. run' = [run EXCEPT ![r] = t]
    BY <1>4 DEF NextFile
  <2>2. run[r].todo \subseteq {1, 2, 3}
    BY <1>1 DEF Run, Files
  <2>3. \E g \in run[r].todo : \A h \in run[r].todo : g <= h
    BY <1>4, <2>2
  <2>4. f \in run[r].todo /\ \A g \in run[r].todo : f <= g
    BY <2>3 DEF FirstFile
  <2> HIDE DEF f
  <2>5. t \in Run /\ t.alone = run[r].alone
    BY <1>1, <2>4 DEF Run, Running
  <2>6. f \in Files
    BY <1>1, <2>4 DEF Run
  <2>7. run[r].done = 0 /\ Len(Script(f)) \in Nat \ {0}
    BY <1>1, <1>2, <2>6, TablesComeFirst DEF RunInv, Open
  <2>8. RunInv(t)
    BY <1>1, <1>2, <2>4, <2>7 DEF Run, RunInv, FileInv, HasRole, Bound, Planned, Open
  <2> HIDE DEF t
  <2> QED
    BY <1>2, <2>1, <2>5, <2>8, OneRun
<1> QED
  BY <1>3, <1>4

\* The process dies and its transaction is rolled back.
LEMMA DieStep == ASSUME IInv, NEW r \in Runners, Die(r) PROVE IInv'
<1> DEFINE t == [run[r] EXCEPT !.pc = "died", !.file = None, !.done = 0]
<1>1. run[r] \in Run /\ RunInv(run[r])
  BY Unfold
<1>2. /\ Active(r) /\ run' = [run EXCEPT ![r] = t]
      /\ UNCHANGED <<released, documents, role, schema, bookkeeping, ledger, runs, incidents>>
  BY DEF Die
<1>3. t \in Run /\ t.alone = run[r].alone
  BY <1>1 DEF Run, Ended
<1>4. RunInv(t)
  BY <1>1 DEF Run, RunInv, HasRole, Bound, Planned, Open
<1> HIDE DEF t
<1> QED
  BY <1>2, <1>3, <1>4, OneRun

\* The run goes on to its next statement, or has executed them all.
LEMMA AdvancedRun ==
    ASSUME IInv, NEW r \in Runners, run[r].pc \in {"execute", "extend"}
    PROVE  /\ Advanced(r) \in Run /\ RunInv(Advanced(r))
           /\ Advanced(r).alone = run[r].alone
<1> DEFINE n == Len(Script(run[r].file))
           pc == IF run[r].done + 1 = n THEN "record" ELSE "execute"
           t == [run[r] EXCEPT !.pc = pc, !.done = run[r].done + 1]
<1>1. /\ run[r] \in Run /\ RunInv(run[r]) /\ FileInv(run[r])
      /\ run[r].file \in Files /\ run[r].done \in Nat
  BY Unfold DEF Run, RunInv, FileInv, Open
<1>2. n \in Nat /\ run[r].done < n
  BY <1>1, TablesComeFirst DEF FileInv
<1>3. pc \in {"record", "execute"} /\ (pc = "record" <=> run[r].done + 1 = n)
  OBVIOUS
<1> HIDE DEF pc
<1>4. t \in Run /\ t.alone = run[r].alone
  <2>1. run[r].done + 1 \in Nat /\ pc \in {"idle"} \cup Running \cup Ended
    BY <1>1, <1>3 DEF Running
  <2> QED
    BY <1>1, <2>1 DEF Run
<1>5. FileInv(t)
  BY <1>1, <1>2, <1>3 DEF Run, FileInv
<1>6. RunInv(t)
  BY <1>1, <1>3, <1>5 DEF Run, RunInv, HasRole, Bound, Planned, Open
<1> QED
  BY <1>4, <1>6 DEF Advanced, pc

\* A statement raised, and the run was not alone.
LEMMA GivenUpRun ==
    ASSUME IInv, NEW r \in Runners, run[r].pc \in Open, ~run[r].alone
    PROVE  /\ GivenUp(r) \in Run /\ RunInv(GivenUp(r))
           /\ GivenUp(r).alone = run[r].alone
<1>1. run[r] \in Run /\ RunInv(run[r])
  BY Unfold
<1> QED
  BY <1>1 DEF GivenUp, Run, Ended, RunInv, HasRole, Bound, Planned, Open

\* A run that is alone has its file neither applied nor half applied.
LEMMA NotInEffect ==
    ASSUME IInv, NEW r \in Runners, run[r].alone, run[r].pc \in Open
    PROVE  Effects(run[r].file) \cap schema = {}
<1>1. RunInv(run[r]) /\ run[r].file \in Files /\ run[r].file \notin ledger
  BY Unfold DEF Run, RunInv, FileInv, Open
<1>2. \A g \in ledger : g # run[r].file /\ g \in Files
  BY <1>1 DEF IInv, LedgerIsTheSchema, TypeOK
<1> QED
  BY <1>1, <1>2, FilesAreDisjoint DEF IInv, LedgerIsTheSchema

\* A statement is accepted or the file is given up; a run that is alone has its
\* file not in effect, and its predecessors are.
LEMMA ExecuteStep == ASSUME IInv, NEW r \in Runners, Execute(r) PROVE IInv'
<1>1. run[r] \in Run /\ RunInv(run[r]) /\ LedgerIsTheSchema
  BY Unfold DEF IInv
<1>2. /\ run[r].pc = "execute" /\ Active(r)
      /\ UNCHANGED <<released, documents, role, schema, bookkeeping, ledger, runs, incidents>>
  BY DEF Execute, Active, Running
<1>3. /\ FileInv(run[r]) /\ run[r].file \in Files
      /\ run[r].done \in Nat /\ run[r].done <= Len(Script(run[r].file))
      /\ run[r].done # Len(Script(run[r].file))
  BY <1>1, <1>2 DEF Run, RunInv, FileInv, Open
<1>4. /\ Statement(r) \in Effects(run[r].file)
      /\ run[r].done + 1 \in 1 .. Len(Script(run[r].file))
  BY <1>3, WholeFile
<1>5. CASE ~Accepted(r)
  <2>1. run' = [run EXCEPT ![r] = GivenUp(r)]
    BY <1>5 DEF Execute
  <2>2. ~run[r].alone
    <3>1. SUFFICES ASSUME run[r].alone PROVE Accepted(r)
      BY <1>5
    <3>2. role.exists
      BY <1>1, <1>2 DEF RunInv, HasRole, Bound, Planned, Open
    <3>3. Statement(r) \notin schema
      BY <1>2, <1>4, <3>1, NotInEffect DEF Open
    <3>4. ASSUME Statement(r)[1] \notin {"extension", "table"}
          PROVE  <<"table", Statement(r)[2]>> \in schema \cup Uncommitted(r)
      <4>1. CASE run[r].file # 1 /\ Statement(r)[2] = "document_chunks"
        <5>1. 1 \in 1 .. run[r].shipped /\ 1 \notin run[r].todo
          BY <1>1, <1>3, <4>1, FilesAreDisjoint DEF Run, FileInv
        <5>2. 1 \in ledger
          BY <1>1, <1>2, <5>1 DEF RunInv, Planned, Open
        <5> QED
          BY <1>1, <4>1, <5>2, Contents DEF LedgerIsTheSchema
      <4>2. CASE \E j \in 1 .. run[r].done :
                   Script(run[r].file)[j] = <<"table", Statement(r)[2]>>
        BY <4>2 DEF Uncommitted
      <4> DEFINE i == run[r].done + 1
                 s == Script(run[r].file)
      <4>3. 1 .. (i - 1) = 1 .. run[r].done
        BY <1>3
      <4>4. Statement(r) = s[i] /\ i \in 1 .. Len(s)
        BY <1>4 DEF Statement
      <4>5. s[i][1] \notin {"extension", "table"} =>
               \/ run[r].file # 1 /\ s[i][2] = "document_chunks"
               \/ \E j \in 1 .. (i - 1) : s[j] = <<"table", s[i][2]>>
        BY <1>3, <4>4, TablesComeFirst
      <4> HIDE DEF i, s
      <4>6. \/ run[r].file # 1 /\ Statement(r)[2] = "document_chunks"
            \/ \E j \in 1 .. (i - 1) : s[j] = <<"table", Statement(r)[2]>>
        BY <3>4, <4>4, <4>5
      <4> QED
        BY <4>1, <4>2, <4>3, <4>6 DEF s
    <3> QED
      BY <3>2, <3>3, <3>4 DEF Accepted
  <2>3. GivenUp(r) \in Run /\ RunInv(GivenUp(r)) /\ GivenUp(r).alone = run[r].alone
    BY <1>2, <2>2, GivenUpRun DEF Open
  <2> QED
    BY <1>2, <2>1, <2>3, OneRun
<1>6. CASE Accepted(r) /\ Statement(r) = Extension /\ Extension \notin schema
  <2> DEFINE t == [run[r] EXCEPT !.pc = "extend"]
  <2>1. run' = [run EXCEPT ![r] = t]
    BY <1>6 DEF Execute
  <2>2. t \in Run /\ t.alone = run[r].alone
    BY <1>1 DEF Run, Running
  <2>3. RunInv(t)
    BY <1>1, <1>2, <1>3, <1>6 DEF Statement, Run, RunInv, FileInv, HasRole, Bound, Planned, Open
  <2> HIDE DEF t
  <2> QED
    BY <1>2, <2>1, <2>2, <2>3, OneRun
<1>7. CASE Accepted(r) /\ ~(Statement(r) = Extension /\ Extension \notin schema)
  <2>1. run' = [run EXCEPT ![r] = Advanced(r)]
    BY <1>7 DEF Execute
  <2>2. Advanced(r) \in Run /\ RunInv(Advanced(r)) /\ Advanced(r).alone = run[r].alone
    BY <1>2, AdvancedRun
  <2> QED
    BY <1>2, <2>1, <2>2, OneRun
<1> QED
  BY <1>5, <1>6, <1>7

\* The extension is created, unless another run came first.
LEMMA CreateExtensionStep == ASSUME IInv, NEW r \in Runners, CreateExtension(r) PROVE IInv'
<1>1. /\ run[r].pc = "extend" /\ Active(r)
      /\ UNCHANGED <<released, documents, role, schema, bookkeeping, ledger, runs, incidents>>
  BY DEF CreateExtension, Active, Running
<1>2. CASE Extension \in schema
  <2>1. run' = [run EXCEPT ![r] = GivenUp(r)]
    BY <1>2 DEF CreateExtension
  <2>2. Extension \in Effects(run[r].file)
    <3>1. /\ FileInv(run[r]) /\ run[r].file \in Files
          /\ run[r].done \in Nat
      BY <1>1, Unfold DEF Run, RunInv, FileInv, Open
    <3> QED
      BY <1>1, <3>1, WholeFile DEF FileInv, Statement
  <2>3. ~run[r].alone
    BY <1>1, <1>2, <2>2, NotInEffect DEF Open
  <2>4. GivenUp(r) \in Run /\ RunInv(GivenUp(r)) /\ GivenUp(r).alone = run[r].alone
    BY <1>1, <2>3, GivenUpRun DEF Open
  <2> QED
    BY <1>1, <2>1, <2>4, OneRun
<1>3. CASE Extension \notin schema
  <2>1. run' = [run EXCEPT ![r] = Advanced(r)]
    BY <1>3 DEF CreateExtension
  <2>2. Advanced(r) \in Run /\ RunInv(Advanced(r)) /\ Advanced(r).alone = run[r].alone
    BY <1>1, AdvancedRun
  <2> QED
    BY <1>1, <2>1, <2>2, OneRun
<1> QED
  BY <1>2, <1>3

\* A run begins, alone only if no other is under way, and no other is alone
\* from then on.
LEMMA StartStep == ASSUME IInv, NEW r \in Runners, Start(r) PROVE IInv'
<1> DEFINE others == {q \in Runners \ {r} : Active(q)}
           new == [NoRun EXCEPT !.pc = "look", !.shipped = released, !.alone = others = {}]
           old(q) == [run[q] EXCEPT !.alone = run[q].alone /\ q \notin others]
<1>1. /\ ~Active(r) /\ runs < MaxRuns /\ runs' = runs + 1
      /\ UNCHANGED <<released, documents, role, schema, bookkeeping, ledger, incidents>>
      /\ run' = [q \in Runners |-> IF q = r THEN new ELSE old(q)]
  BY DEF Start
<1>2. new \in Run /\ RunInv(new) /\ new.pc = "look" /\ new.alone = (others = {})
  <2>1. released \in Files /\ incidents \in Nat
    BY Unfold DEF TypeOK
  <2> DEFINE b == others = {}
             t == [NoRun EXCEPT !.pc = "look", !.shipped = released, !.alone = b]
  <2>2. b \in BOOLEAN
    OBVIOUS
  <2> HIDE DEF b
  <2>3. t \in Run /\ t.pc = "look" /\ t.alone = b
    BY <2>1, <2>2 DEF Run, NoRun, Running, None
  <2>4. RunInv(t)
    BY <2>1 DEF NoRun, RunInv, HasRole, Bound, Planned, Open
  <2> QED
    BY <2>3, <2>4 DEF b
<1>3. ASSUME NEW q \in Runners
      PROVE  /\ old(q) \in Run /\ RunInv(old(q)) /\ old(q).pc = run[q].pc
             /\ old(q).alone = (run[q].alone /\ q \notin others)
  <2>1. run[q] \in Run /\ RunInv(run[q])
    BY Unfold
  <2> DEFINE b == run[q].alone /\ q \notin others
             t == [run[q] EXCEPT !.alone = b]
  <2>2. b \in BOOLEAN /\ (b => run[q].alone)
    BY <2>1 DEF Run
  <2> HIDE DEF b
  <2>3. t \in Run /\ t.pc = run[q].pc /\ t.alone = b
    BY <2>1, <2>2 DEF Run
  <2>4. RunInv(t)
    BY <2>1, <2>2 DEF Run, RunInv, FileInv, HasRole, Bound, Planned, Open
  <2> QED
    BY <2>3, <2>4 DEF b
<1>4. \A q \in Runners : run'[q] = IF q = r THEN new ELSE old(q)
  BY <1>1
<1> HIDE DEF new, old
<1>5. TypeOK'
  <2>1. run' \in [Runners -> Run]
    BY <1>1, <1>2, <1>3
  <2>2. runs' \in 0..MaxRuns
    BY <1>1, BoundAssumption, Unfold DEF TypeOK
  <2> QED
    BY <1>1, <2>1, <2>2, Unfold DEF TypeOK
<1>6. LedgerIsTheSchema'
  BY <1>1, <1>5 DEF IInv, LedgerIsTheSchema, AppliedInOrder
<1>7. ASSUME NEW q \in Runners PROVE RunInv(run[q])'
  <2>1. RunInv(run'[q])
    BY <1>2, <1>3, <1>4
  <2> QED
    BY <1>1, <2>1 DEF RunInv, FileInv
<1>8. AloneInv'
  <2> SUFFICES ASSUME NEW p \in Runners, NEW q \in Runners, p # q, Active(p)', Active(q)'
               PROVE  ~run'[p].alone
    BY DEF AloneInv
  <2>1. CASE p = r
    <3>1. q \in others
      BY <1>3, <1>4, <2>1 DEF Active
    <3> QED
      BY <1>2, <1>4, <2>1, <3>1
  <2>2. CASE p # r
    <3>1. p \in others
      BY <1>3, <1>4, <2>2 DEF Active
    <3> QED
      BY <1>3, <1>4, <2>2, <3>1
  <2> QED
    BY <2>1, <2>2
<1> QED
  BY <1>6, <1>7, <1>8 DEF IInv

\* A step of one run that changes the role, and leaves every other run's view
\* of it true.
LEMMA RoleStep ==
    ASSUME IInv, NEW r \in Runners, NEW t \in Run, Active(r), RunInv(run[r])',
           role' \in [exists : BOOLEAN, bypass : BOOLEAN], role'.exists,
           role'.bypass => role.bypass,
           ~role.exists => \A q \in Runners \ {r} : ~(run[q].alone /\ run[q].pc = "create"),
           run' = [run EXCEPT ![r] = t], t.alone = run[r].alone,
           UNCHANGED <<released, documents, schema, bookkeeping, ledger, runs, incidents>>
    PROVE  IInv'
<1>1. TypeOK'
  BY DEF IInv, LedgerIsTheSchema, TypeOK
<1>2. LedgerIsTheSchema'
  BY <1>1 DEF IInv, LedgerIsTheSchema, AppliedInOrder
<1>3. ASSUME NEW q \in Runners PROVE RunInv(run[q])'
  <2>1. CASE q = r
    BY <2>1 DEF IInv, LedgerIsTheSchema, TypeOK, RunInv, FileInv
  <2>2. CASE q # r
    <3>1. run'[q] = run[q] /\ RunInv(run[q])
      BY <2>2 DEF IInv, LedgerIsTheSchema, TypeOK
    <3> QED
      BY <2>2, <3>1 DEF RunInv, FileInv
  <2> QED
    BY <2>1, <2>2
<1>4. AloneInv'
  BY DEF IInv, AloneInv, Active, LedgerIsTheSchema, TypeOK
<1> QED
  BY <1>2, <1>3, <1>4 DEF IInv

\* The role is created; a run that is alone finds it missing, as it saw.
LEMMA CreateRoleStep == ASSUME IInv, NEW r \in Runners, CreateRole(r) PROVE IInv'
<1> DEFINE pc == IF role.exists THEN "conflict" ELSE "alter"
           t == [run[r] EXCEPT !.pc = pc]
<1>1. /\ run[r] \in Run /\ RunInv(run[r])
      /\ role \in [exists : BOOLEAN, bypass : BOOLEAN]
  BY Unfold
<1>2. /\ run[r].pc = "create" /\ Active(r)
      /\ UNCHANGED <<released, documents, schema, bookkeeping, ledger, runs, incidents>>
      /\ role' = [role EXCEPT !.exists = TRUE]
      /\ run' = [run EXCEPT ![r] = t]
  BY DEF CreateRole, GoTo, Active, Running
<1>3. t \in Run /\ t.alone = run[r].alone
  BY <1>1 DEF Run, Running, Ended
<1>4. role' \in [exists : BOOLEAN, bypass : BOOLEAN] /\ role'.exists /\ role'.bypass = role.bypass
  BY <1>1, <1>2
<1>5. RunInv(run[r])'
  <2>1. run'[r] = t
    BY <1>2, Unfold DEF TypeOK
  <2> QED
    BY <1>1, <1>2, <1>4, <2>1 DEF Run, RunInv, HasRole, Bound, Planned, Open
<1>6. \A q \in Runners \ {r} : ~(run[q].alone /\ run[q].pc = "create")
  BY <1>2 DEF IInv, AloneInv, Active, Running
<1> HIDE DEF t
<1> QED
  BY <1>2, <1>3, <1>4, <1>5, <1>6, RoleStep

\* The role no longer bypasses the policies.
LEMMA AlterRoleStep == ASSUME IInv, NEW r \in Runners, AlterRole(r) PROVE IInv'
<1> DEFINE t == [run[r] EXCEPT !.pc = "verify", !.seen = incidents]
<1>1. /\ run[r] \in Run /\ RunInv(run[r]) /\ incidents \in Nat
      /\ role \in [exists : BOOLEAN, bypass : BOOLEAN]
  BY Unfold
<1>2. /\ run[r].pc = "alter" /\ Active(r)
      /\ UNCHANGED <<released, documents, schema, bookkeeping, ledger, runs, incidents>>
      /\ role' = [role EXCEPT !.bypass = FALSE]
      /\ run' = [run EXCEPT ![r] = t]
  BY DEF AlterRole, Active, Running
<1>3. t \in Run /\ t.alone = run[r].alone
  BY <1>1 DEF Run, Running
<1>4. role.exists
  BY <1>1, <1>2 DEF RunInv, HasRole
<1>5. role' \in [exists : BOOLEAN, bypass : BOOLEAN] /\ role'.exists /\ ~role'.bypass
  BY <1>1, <1>2, <1>4
<1>6. RunInv(run[r])'
  <2>1. run'[r] = t
    BY <1>2, Unfold DEF TypeOK
  <2> QED
    BY <1>1, <1>2, <1>5, <2>1 DEF Run, RunInv, HasRole, Bound, Planned, Open
<1> HIDE DEF t
<1> QED
  BY <1>2, <1>3, <1>4, <1>5, <1>6, RoleStep

\* The ledger is created; a run that is alone finds it missing, as it saw.
LEMMA MakeLedgerStep == ASSUME IInv, NEW r \in Runners, MakeLedger(r) PROVE IInv'
<1> DEFINE pc == IF bookkeeping = {} THEN "ledger" ELSE "conflict"
           t == [run[r] EXCEPT !.pc = pc]
<1>1. run[r] \in Run /\ RunInv(run[r]) /\ TypeOK
  BY Unfold
<1>2. /\ run[r].pc = "make" /\ Active(r)
      /\ bookkeeping' = {"schema_migrations"}
      /\ UNCHANGED <<released, documents, role, schema, ledger, runs, incidents>>
      /\ run' = [run EXCEPT ![r] = t]
  BY DEF MakeLedger, GoTo, Active, Running
<1>3. pc \in {"conflict", "ledger"} /\ (pc = "conflict" => ~run[r].alone)
  BY <1>1, <1>2 DEF RunInv
<1> HIDE DEF pc
<1>4. t \in Run /\ t.alone = run[r].alone
  BY <1>1, <1>3 DEF Run, Running, Ended
<1>5. /\ run'[r] = t
      /\ \A q \in Runners : q # r => run'[q] = run[q]
  BY <1>1, <1>2 DEF TypeOK
<1>6. RunInv(run[r])'
  BY <1>1, <1>2, <1>3, <1>5 DEF Run, RunInv, HasRole, Bound, Planned, Open
<1> HIDE DEF t
<1>7. TypeOK'
  BY <1>1, <1>2, <1>4 DEF TypeOK
<1>8. LedgerIsTheSchema'
  BY <1>2, <1>7 DEF IInv, LedgerIsTheSchema, AppliedInOrder
<1>9. ASSUME NEW q \in Runners, q # r PROVE RunInv(run[q])'
  <2>1. run'[q] = run[q] /\ RunInv(run[q])
    BY <1>5, <1>9 DEF IInv
  <2>2. ~(run[q].alone /\ run[q].pc = "make")
    BY <1>2, <1>9 DEF IInv, AloneInv, Active, Running
  <2> QED
    BY <1>2, <2>1, <2>2 DEF RunInv, FileInv
<1>10. AloneInv'
  BY <1>2, <1>4, <1>5 DEF IInv, AloneInv, Active
<1> QED
  BY <1>6, <1>8, <1>9, <1>10 DEF IInv

\* A file takes effect and is recorded: its predecessors are in the ledger
\* already, and no run that is alone has it left to do.
LEMMA CommitFileStep == ASSUME IInv, NEW r \in Runners, CommitFile(r) PROVE IInv'
<1> DEFINE f == run[r].file
           t == [run[r] EXCEPT !.pc = "file", !.todo = run[r].todo \ {f}, !.file = None, !.done = 0]
<1>1. /\ run[r] \in Run /\ RunInv(run[r]) /\ LedgerIsTheSchema /\ AloneInv /\ TypeOK
      /\ \A q \in Runners : run[q] \in Run /\ RunInv(run[q])
  BY Unfold DEF IInv
<1>2. /\ run[r].pc = "commit" /\ Active(r)
      /\ UNCHANGED <<released, documents, role, bookkeeping, runs, incidents>>
      /\ schema' = schema \cup Uncommitted(r) /\ ledger' = ledger \cup {f}
      /\ run' = [run EXCEPT ![r] = t]
  BY DEF CommitFile, Active, Running
<1>3. FileInv(run[r]) /\ f \in Files /\ Uncommitted(r) = Effects(f)
  <2>1. FileInv(run[r]) /\ f \in Files /\ run[r].done \in Nat
    BY <1>1, <1>2 DEF Run, RunInv, FileInv, Open
  <2> QED
    BY <1>2, <2>1, WholeFile DEF FileInv
<1>4. 1 .. f \subseteq ledger \cup {f}
  <2>1. 1 .. run[r].shipped \subseteq run[r].todo \cup ledger /\ f \in 1 .. run[r].shipped
    BY <1>1, <1>2, <1>3 DEF RunInv, FileInv, Planned, Open
  <2>2. run[r].todo \subseteq Files /\ run[r].shipped \in Files /\ ledger \subseteq Files
    BY <1>1 DEF Run, TypeOK
  <2> QED
    BY <1>3, <2>1, <2>2 DEF FileInv, Files
<1>5. t \in Run /\ t.alone = run[r].alone /\ t.pc = "file"
  BY <1>1 DEF Run, Running
<1>6. \A q \in Runners : run'[q] = IF q = r THEN t ELSE run[q]
  BY <1>1, <1>2 DEF TypeOK
<1>7. RunInv(run[r])'
  <2>1. run'[r] = t
    BY <1>6
  <2>2. 1 .. t.shipped \subseteq t.todo \cup ledger'
    BY <1>1, <1>2 DEF Run, RunInv, Planned, Open
  <2>3. t.alone => t.todo \cap ledger' = {}
    BY <1>1, <1>2 DEF Run, RunInv, Open
  <2>4. t.todo \subseteq 1 .. t.shipped
    BY <1>1 DEF Run, RunInv
  <2>5. /\ t.pc = "file" /\ t.done = 0 /\ t.seen = run[r].seen /\ t.alone = run[r].alone
    BY <1>1 DEF Run
  <2>6. /\ run[r].seen <= incidents /\ role.exists /\ (role.bypass => incidents > run[r].seen)
    BY <1>1, <1>2 DEF RunInv, HasRole, Bound, Planned, Open
  <2> HIDE DEF t
  <2> QED
    BY <1>2, <2>1, <2>2, <2>3, <2>4, <2>5, <2>6 DEF RunInv, Open
<1> HIDE DEF t
<1>8. TypeOK'
  <2>1. run' \in [Runners -> Run]
    BY <1>1, <1>2, <1>5 DEF TypeOK
  <2>2. schema' \subseteq AllEffects /\ ledger' \subseteq Files
    BY <1>1, <1>2, <1>3, FilesAreDisjoint DEF TypeOK
  <2> QED
    BY <1>1, <1>2, <2>1, <2>2 DEF TypeOK
<1>9. LedgerIsTheSchema'
  <2>1. schema' = UNION {Effects(g) : g \in ledger'}
    BY <1>1, <1>2, <1>3 DEF LedgerIsTheSchema
  <2>2. AppliedInOrder'
    BY <1>1, <1>2, <1>4 DEF LedgerIsTheSchema, AppliedInOrder
  <2> QED
    BY <1>8, <2>1, <2>2 DEF LedgerIsTheSchema
<1>10. ASSUME NEW q \in Runners PROVE RunInv(run[q])'
  <2>1. CASE q = r
    BY <1>7, <2>1
  <2>2. CASE q # r
    <3>1. run'[q] = run[q] /\ RunInv(run[q])
      BY <1>1, <1>6, <2>2
    <3>2. Active(q) => ~run[q].alone
      BY <1>1, <1>2, <2>2 DEF AloneInv
    <3> QED
      BY <1>2, <3>1, <3>2 DEF RunInv, FileInv, Active, Running, Open
  <2> QED
    BY <2>1, <2>2
<1>11. AloneInv'
  BY <1>1, <1>2, <1>5, <1>6 DEF AloneInv, Active
<1> QED
  BY <1>9, <1>10, <1>11 DEF IInv

\* What goes on around the runs leaves everything but a granted BYPASSRLS as it
\* was, and that counts as an incident.
LEMMA AroundStep == ASSUME IInv, Release \/ CreateDocuments \/ GrantBypass PROVE IInv'
<1>1. TypeOK /\ released \in {1, 2, 3} /\ incidents \in Nat
  BY BoundAssumption DEF IInv, LedgerIsTheSchema, TypeOK, Files
<1>2. UNCHANGED <<schema, bookkeeping, ledger, run, runs>>
  BY DEF Release, CreateDocuments, GrantBypass
<1>3. /\ role' \in [exists : BOOLEAN, bypass : BOOLEAN] /\ role'.exists = role.exists
      /\ incidents' \in 0..MaxIncidents
      /\ \/ role' = role /\ incidents' = incidents
         \/ incidents' = incidents + 1
  <2>1. CASE Release \/ CreateDocuments
    BY <1>1, <2>1 DEF Release, CreateDocuments, TypeOK
  <2>2. CASE GrantBypass
    <3>1. incidents < MaxIncidents /\ incidents' = incidents + 1 /\ role' = [role EXCEPT !.bypass = TRUE]
      BY <2>2 DEF GrantBypass
    <3>2. role \in [exists : BOOLEAN, bypass : BOOLEAN]
      BY <1>1 DEF TypeOK
    <3>3. role' \in [exists : BOOLEAN, bypass : BOOLEAN] /\ role'.exists = role.exists
      BY <3>1, <3>2
    <3>4. incidents' \in 0..MaxIncidents
      BY <1>1, <3>1, BoundAssumption
    <3> QED
      BY <3>1, <3>3, <3>4
  <2> QED
    BY <2>1, <2>2
<1>4. released' \in Files /\ documents' \in BOOLEAN
  <2>1. Cardinality(Files) = 3
    <3>1. IsFiniteSet({1}) /\ Cardinality({1}) = 1
      BY FS_Singleton
    <3>2. IsFiniteSet({1} \cup {2}) /\ Cardinality({1} \cup {2}) = 2
      BY <3>1, FS_AddElement
    <3>3. Cardinality(({1} \cup {2}) \cup {3}) = 3
      <4>1. 3 \notin {1} \cup {2}
        OBVIOUS
      <4>2. Cardinality(({1} \cup {2}) \cup {3}) = Cardinality({1} \cup {2}) + 1
        BY <3>2, <4>1, FS_AddElement, Zenon
      <4> QED
        BY <3>2, <4>2
    <3>4. Files = ({1} \cup {2}) \cup {3}
      BY DEF Files
    <3> QED
      BY <3>3, <3>4
  <2>2. CASE Release
    BY <1>1, <2>1, <2>2 DEF Release, TypeOK, Files
  <2>3. CASE CreateDocuments \/ GrantBypass
    BY <1>1, <2>3 DEF CreateDocuments, GrantBypass, TypeOK
  <2> QED
    BY <2>2, <2>3
<1>5. LedgerIsTheSchema'
  <2>1. TypeOK'
    BY <1>1, <1>2, <1>3, <1>4 DEF TypeOK
  <2> QED
    BY <1>2, <2>1 DEF IInv, LedgerIsTheSchema, AppliedInOrder
<1>6. ASSUME NEW r \in Runners PROVE RunInv(run[r])'
  <2>1. RunInv(run[r]) /\ run[r].seen \in Nat
    BY <1>1 DEF IInv, TypeOK, Run
  <2> QED
    BY <1>1, <1>2, <1>3, <2>1 DEF RunInv, FileInv
<1>7. AloneInv'
  BY <1>2 DEF IInv, AloneInv, Active
<1> QED
  BY <1>5, <1>6, <1>7 DEF IInv

\* Every step preserves the invariant.
LEMMA StepIInv == IInv /\ [Next]_vars => IInv'
<1> SUFFICES ASSUME IInv, [Next]_vars PROVE IInv'
  OBVIOUS
<1>1. ASSUME NEW r \in Runners, Start(r) PROVE IInv'
  BY <1>1, StartStep
<1>2. ASSUME NEW r \in Runners, RunStep(r) PROVE IInv'
  BY <1>2, ReadingStep, CreateRoleStep, AlterRoleStep, MakeLedgerStep, ReadLedgerStep,
     NextFileStep, ExecuteStep, CreateExtensionStep, CommitFileStep DEF RunStep
<1>3. ASSUME NEW r \in Runners, Die(r) PROVE IInv'
  BY <1>3, DieStep
<1>4. CASE Release \/ CreateDocuments \/ GrantBypass
  BY <1>4, AroundStep
<1>5. CASE UNCHANGED vars
  <2>1. LedgerIsTheSchema'
    BY <1>5 DEF vars, IInv, LedgerIsTheSchema, TypeOK, AppliedInOrder
  <2>2. \A r \in Runners : RunInv(run[r])'
    BY <1>5 DEF vars, IInv, RunInv, FileInv
  <2>3. AloneInv'
    BY <1>5 DEF vars, IInv, AloneInv, Active
  <2> QED
    BY <2>1, <2>2, <2>3 DEF IInv
<1> QED
  BY <1>1, <1>2, <1>3, <1>4, <1>5 DEF Next

\* The invariant holds of every state a migration can reach.
THEOREM Invariance == Spec => []IInv
  BY InitIInv, StepIInv, PTL DEF Spec

-----------------------------------------------------------------------------
(* Results.                                                               *)

\* Whoever runs migrate() beside whom, and whatever dies (migrate.py:46-90), a
\* file is in the ledger exactly if all of it is in effect, nothing is in
\* effect of a file that is not, and the files came in order.
THEOREM LedgerIsTheSchemaAlways == Spec => []LedgerIsTheSchema
<1>1. IInv => LedgerIsTheSchema
  BY DEF IInv
<1> QED
  BY <1>1, Invariance, PTL

\* No state in which the service role may read a table has that table's policy
\* missing, not enabled or not forced: each grant is in a file that also brings
\* all three (0002_chunks_rls.sql, 0003_embedding_v2.sql).
THEOREM NeverOpenUnprotectedAlways == Spec => []NeverOpenUnprotected
<1>1. IInv => NeverOpenUnprotected
  <2> SUFFICES ASSUME IInv, NEW table \in Tables, <<"grant", table>> \in schema
               PROVE  {<<"enable", table>>, <<"force", table>>, <<"policy", table>>} \subseteq schema
    BY DEF NeverOpenUnprotected
  <2>1. PICK f \in ledger : <<"grant", table>> \in Effects(f)
    BY DEF IInv, LedgerIsTheSchema
  <2>2. f \in {1, 2, 3} /\ Effects(f) \subseteq schema
    BY <2>1 DEF IInv, LedgerIsTheSchema, TypeOK, Files
  <2>3. {<<"enable", table>>, <<"force", table>>, <<"policy", table>>} \subseteq Effects(f)
    <3>1. CASE f = 1
      BY <2>1, <3>1, Contents DEF Extension
    <3>2. CASE f = 2
      BY <2>1, <3>2, Contents
    <3>3. CASE f = 3
      BY <2>1, <3>3, Contents
    <3> QED
      BY <2>2, <3>1, <3>2, <3>3
  <2> QED
    BY <2>2, <2>3
<1> QED
  BY <1>1, Invariance, PTL

\* A run that has the database to itself never meets a statement already
\* applied, however many runs died before it (migrate.py:71-74).
THEOREM AloneMeansNoConflictAlways == Spec => []AloneMeansNoConflict
<1>1. IInv => AloneMeansNoConflict
  BY DEF IInv, RunInv, AloneMeansNoConflict
<1> QED
  BY <1>1, Invariance, PTL

\* A run that ends well leaves every file it was shipped with applied and a
\* role the policies bind, unless BYPASSRLS was granted after it had seen to
\* that (migrate.py:94-101, bootstrap_roles.py:36-41).
THEOREM OkMeansCurrentAlways == Spec => []OkMeansCurrent
<1>1. IInv => OkMeansCurrent
  <2> SUFFICES ASSUME IInv, NEW r \in Runners, run[r].pc = "ok"
               PROVE  /\ 1 .. run[r].shipped \subseteq ledger
                      /\ role.exists
                      /\ role.bypass => incidents > run[r].seen
    BY DEF OkMeansCurrent
  <2> QED
    BY Unfold DEF RunInv, HasRole, Bound, Planned
<1> QED
  BY <1>1, Invariance, PTL
=============================================================================
