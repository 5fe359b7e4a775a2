----------------------- MODULE LocalnetHarnessProofs -----------------------
(***************************************************************************)
(* What a run of the localnet script leaves behind and what its status     *)
(* means, for any number of runs, probes, looks at the ports and signals.  *)
(* No run changes another's state, so the inductive invariant speaks of    *)
(* one run at a time: it says what a run has at each of its commands.      *)
(***************************************************************************)
EXTENDS LocalnetHarness, TLAPS

\* The run's validator has been started and has not ended: Alive, of a run's state.
Lives(r) == r.child \notin {"none", "dead"}

\* A signal struck one of the windows that LeaksOnlyInWindows names.
Struck(r) == \E i \in 1 .. Len(r.hits) : r.hits[i] \in {"trap", "record"} \union Cleanup

\* Nothing is made before it is made, and the pid is known once it is recorded.
HasWhatItMade(r) ==
    /\ r.pc \in {"check", "probe", "mktemp"} => ~r.dir
    /\ r.pc \in Untrapped \union {"generate", "spawn"} => r.child = "none"
    /\ r.pc \in {"poll", "alive", "test", "report"} => r.pid

\* In cleanup only a validator whose pid is not known escapes the TERM, and then
\* a signal struck between its start and the line that records the pid.
CleanupFindsIt(r) ==
    /\ (r.pc \in Cleanup /\ Lives(r)) => r.pid \/ Struck(r)
    /\ (r.pc \in {"ports", "remove"} /\ Lives(r)) => ~r.pid
    /\ (r.pc = "exited" /\ Lives(r)) => Struck(r)
    /\ (r.pc = "exited" /\ r.dir) => Struck(r) \/ r.rmFailed

\* Status 0 comes from the end of the script and from nowhere else.
KeepsStatus(r) ==
    /\ r.pc = "report" => r.passed
    /\ (r.pc \in Cleanup /\ r.status = 0) => r.passed /\ r.pid
    /\ (r.pc = "exited" /\ r.status = 0) => r.passed /\ ~r.dir /\ ~Lives(r)

RunInv(r) == /\ r \in Run /\ WithinLimit(r)
             /\ HasWhatItMade(r) /\ CleanupFindsIt(r) /\ KeepsStatus(r)

\* The inductive invariant.
HarnessInv == /\ HarnessTypeOK
              /\ \A h \in Harness : RunInv(run[h])

-----------------------------------------------------------------------------
\* The types of a run's fields.
Label == Untrapped \union Trapped \union Cleanup

Place == Label \union {"exited"}

Status == {0, 1, 130, 143}

Child == {"none", "starting", "serving", "stopping", "dead"}

\* Run, with a name for the type of each field: the proofs below use the names only.
LEMMA RunFields ==
    Run = [pc : Place, status : Status, dir : BOOLEAN, child : Child, pid : BOOLEAN,
           tries : Nat, ledger : Harness \union {None}, passed : BOOLEAN,
           rmFailed : BOOLEAN, hits : Seq(Label)]
  BY DEF Run, Label, Place, Status, Child

\* The values the script assigns belong to the types of their fields.
LEMMA Labels ==
    /\ Label \subseteq Place /\ "exited" \in Place
    /\ {"check", "probe", "mktemp", "trap", "generate", "spawn", "record", "poll", "alive",
        "test", "report", "cleanup", "wait", "ports", "remove"} \subseteq Label
    /\ {0, 1, 130, 143} \subseteq Status
    /\ {"none", "starting", "serving", "stopping", "dead"} \subseteq Child
  BY DEF Place, Label, Untrapped, Trapped, Cleanup, Status, Child

\* A signal that struck is remembered, and so is where.
LEMMA HitsGrow ==
    ASSUME NEW r \in Run, r.pc \in Label, NEW s, s.hits = Append(r.hits, r.pc)
    PROVE  /\ s.hits \in Seq(Label)
           /\ Struck(r) => Struck(s)
           /\ r.pc \in {"trap", "record"} \union Cleanup => Struck(s)
<1> DEFINE n == Len(r.hits)
<1>1. r.hits \in Seq(Label) /\ n \in Nat
  BY DEF Run, Label
<1>2. /\ s.hits \in Seq(Label)
      /\ Len(s.hits) = n + 1
      /\ s.hits[n + 1] = r.pc
      /\ \A i \in 1 .. n : s.hits[i] = r.hits[i]
  BY <1>1
<1> HIDE DEF n
<1>3. \A i \in 1 .. n : i \in 1 .. Len(s.hits)
  BY <1>1, <1>2
<1>4. n + 1 \in 1 .. Len(s.hits)
  BY <1>1, <1>2
<1>5. Struck(r) => Struck(s)
  BY <1>2, <1>3 DEF Struck, n
<1>6. r.pc \in {"trap", "record"} \union Cleanup => Struck(s)
  BY <1>2, <1>4 DEF Struck
<1> QED
  BY <1>2, <1>5, <1>6

\* The commands before the traps: nothing to leave behind but the directory.
LEMMA UntrappedKeeps ==
    ASSUME NEW r, RunInv(r), NEW s,
           \/ /\ r.pc = "check"
              /\ s = [r EXCEPT !.pc = "probe"]
           \/ /\ r.pc = "probe"
              /\ s = [r EXCEPT !.pc = "mktemp"]
           \/ /\ r.pc = "mktemp"
              /\ s = [r EXCEPT !.pc = "trap", !.dir = TRUE]
           \/ /\ r.pc = "trap"
              /\ s = [r EXCEPT !.pc = "generate"]
           \/ /\ r.pc \in {"check", "probe", "mktemp"}
              /\ s = [r EXCEPT !.pc = "exited", !.status = 1]
    PROVE  RunInv(s)
<1>0. r \in Run
  BY DEF RunInv
<1>1. CASE r.pc = "check" /\ s = [r EXCEPT !.pc = "probe"]
  <2>1. /\ s \in Run
        /\ s.pc = "probe" /\ s.status = r.status /\ s.dir = r.dir /\ s.child = r.child
        /\ s.pid = r.pid /\ s.passed = r.passed /\ s.hits = r.hits
        /\ s.tries = r.tries /\ s.rmFailed = r.rmFailed
    BY <1>0, <1>1, RunFields, Labels
  <2>3. WithinLimit(s)
    BY <1>1, <2>1 DEF RunInv, WithinLimit
  <2> QED
    BY <1>1, <2>1, <2>3
       DEF RunInv, HasWhatItMade, CleanupFindsIt, KeepsStatus, Lives, Untrapped, Cleanup
<1>2. CASE r.pc = "probe" /\ s = [r EXCEPT !.pc = "mktemp"]
  <2>1. /\ s \in Run
        /\ s.pc = "mktemp" /\ s.status = r.status /\ s.dir = r.dir /\ s.child = r.child
        /\ s.pid = r.pid /\ s.passed = r.passed /\ s.hits = r.hits
        /\ s.tries = r.tries /\ s.rmFailed = r.rmFailed
    BY <1>0, <1>2, RunFields, Labels
  <2>3. WithinLimit(s)
    BY <1>2, <2>1 DEF RunInv, WithinLimit
  <2> QED
    BY <1>2, <2>1, <2>3
       DEF RunInv, HasWhatItMade, CleanupFindsIt, KeepsStatus, Lives, Untrapped, Cleanup
<1>3. CASE r.pc = "mktemp" /\ s = [r EXCEPT !.pc = "trap", !.dir = TRUE]
  <2>1. /\ s \in Run
        /\ s.pc = "trap" /\ s.status = r.status /\ s.dir = TRUE /\ s.child = r.child
        /\ s.pid = r.pid /\ s.passed = r.passed /\ s.hits = r.hits
        /\ s.tries = r.tries /\ s.rmFailed = r.rmFailed
    BY <1>0, <1>3, RunFields, Labels
  <2>3. WithinLimit(s)
    BY <1>3, <2>1 DEF RunInv, WithinLimit
  <2> QED
    BY <1>3, <2>1, <2>3
       DEF RunInv, HasWhatItMade, CleanupFindsIt, KeepsStatus, Lives, Untrapped, Cleanup
<1>4. CASE r.pc = "trap" /\ s = [r EXCEPT !.pc = "generate"]
  <2>1. /\ s \in Run
        /\ s.pc = "generate" /\ s.status = r.status /\ s.dir = r.dir /\ s.child = r.child
        /\ s.pid = r.pid /\ s.passed = r.passed /\ s.hits = r.hits
        /\ s.tries = r.tries /\ s.rmFailed = r.rmFailed
    BY <1>0, <1>4, RunFields, Labels
  <2>3. WithinLimit(s)
    BY <1>4, <2>1 DEF RunInv, WithinLimit
  <2> QED
    BY <1>4, <2>1, <2>3
       DEF RunInv, HasWhatItMade, CleanupFindsIt, KeepsStatus, Lives, Untrapped, Cleanup
<1>5. CASE /\ r.pc \in {"check", "probe", "mktemp"}
           /\ s = [r EXCEPT !.pc = "exited", !.status = 1]
  <2>1. /\ s \in Run
        /\ s.pc = "exited" /\ s.status = 1 /\ s.dir = r.dir /\ s.child = r.child
        /\ s.pid = r.pid /\ s.passed = r.passed /\ s.hits = r.hits
        /\ s.tries = r.tries /\ s.rmFailed = r.rmFailed
    BY <1>0, <1>5, RunFields, Labels
  <2>3. WithinLimit(s)
    BY <1>5, <2>1 DEF RunInv, WithinLimit
  <2> QED
    BY <1>5, <2>1, <2>3
       DEF RunInv, HasWhatItMade, CleanupFindsIt, KeepsStatus, Lives, Untrapped, Cleanup
<1> QED
  BY <1>1, <1>2, <1>3, <1>4, <1>5

\* The commands under the traps: a failure goes to cleanup, with or without a
\* validator, and only the last command with status 0.
LEMMA TrappedKeeps ==
    ASSUME NEW r, RunInv(r), NEW s, NEW l \in Harness,
           \/ /\ r.pc = "generate"
              /\ s = [r EXCEPT !.pc = "spawn"]
           \/ /\ r.pc = "generate"
              /\ s = [r EXCEPT !.pc = "cleanup", !.status = 1]
           \/ /\ r.pc = "spawn"
              /\ s = [r EXCEPT !.pc = "record", !.child = "starting"]
           \/ /\ r.pc = "record"
              /\ s = [r EXCEPT !.pc = "poll", !.pid = TRUE]
           \/ /\ r.pc = "poll"
              /\ s = [r EXCEPT !.pc = "test", !.ledger = l]
           \/ /\ r.pc = "poll"
              /\ s = [r EXCEPT !.pc = "alive"]
           \/ /\ r.pc = "alive" /\ r.tries + 1 < READY_PROBES
              /\ s = [r EXCEPT !.pc = "poll", !.tries = @ + 1]
           \/ /\ r.pc \in {"alive", "test"}
              /\ s = [r EXCEPT !.pc = "cleanup", !.status = 1]
           \/ /\ r.pc = "test"
              /\ s = [r EXCEPT !.pc = "report", !.passed = TRUE]
           \/ /\ r.pc = "report"
              /\ s = [r EXCEPT !.pc = "cleanup", !.status = 0]
    PROVE  RunInv(s)
<1>0. r \in Run
  BY DEF RunInv
<1>1. CASE r.pc = "generate" /\ s = [r EXCEPT !.pc = "spawn"]
  <2>1. /\ s \in Run
        /\ s.pc = "spawn" /\ s.status = r.status /\ s.dir = r.dir /\ s.child = r.child
        /\ s.pid = r.pid /\ s.passed = r.passed /\ s.hits = r.hits
        /\ s.tries = r.tries /\ s.rmFailed = r.rmFailed
    BY <1>0, <1>1, RunFields, Labels
  <2>3. WithinLimit(s)
    BY <1>1, <2>1 DEF RunInv, WithinLimit
  <2> QED
    BY <1>1, <2>1, <2>3
       DEF RunInv, HasWhatItMade, CleanupFindsIt, KeepsStatus, Lives, Untrapped, Cleanup
<1>2. CASE r.pc = "generate" /\ s = [r EXCEPT !.pc = "cleanup", !.status = 1]
  <2>1. /\ s \in Run
        /\ s.pc = "cleanup" /\ s.status = 1 /\ s.dir = r.dir /\ s.child = r.child
        /\ s.pid = r.pid /\ s.passed = r.passed /\ s.hits = r.hits
        /\ s.tries = r.tries /\ s.rmFailed = r.rmFailed
    BY <1>0, <1>2, RunFields, Labels
  <2>3. WithinLimit(s)
    BY <1>2, <2>1 DEF RunInv, WithinLimit
  <2> QED
    BY <1>2, <2>1, <2>3
       DEF RunInv, HasWhatItMade, CleanupFindsIt, KeepsStatus, Lives, Untrapped, Cleanup
<1>3. CASE r.pc = "spawn" /\ s = [r EXCEPT !.pc = "record", !.child = "starting"]
  <2>1. /\ s \in Run
        /\ s.pc = "record" /\ s.status = r.status /\ s.dir = r.dir /\ s.child = "starting"
        /\ s.pid = r.pid /\ s.passed = r.passed /\ s.hits = r.hits
        /\ s.tries = r.tries /\ s.rmFailed = r.rmFailed
    BY <1>0, <1>3, RunFields, Labels
  <2>3. WithinLimit(s)
    BY <1>3, <2>1 DEF RunInv, WithinLimit
  <2> QED
    BY <1>3, <2>1, <2>3
       DEF RunInv, HasWhatItMade, CleanupFindsIt, KeepsStatus, Lives, Untrapped, Cleanup
<1>4. CASE r.pc = "record" /\ s = [r EXCEPT !.pc = "poll", !.pid = TRUE]
  <2>1. /\ s \in Run
        /\ s.pc = "poll" /\ s.status = r.status /\ s.dir = r.dir /\ s.child = r.child
        /\ s.pid = TRUE /\ s.passed = r.passed /\ s.hits = r.hits
        /\ s.tries = r.tries /\ s.rmFailed = r.rmFailed
    BY <1>0, <1>4, RunFields, Labels
  <2>3. WithinLimit(s)
    BY <1>4, <2>1 DEF RunInv, WithinLimit
  <2> QED
    BY <1>4, <2>1, <2>3
       DEF RunInv, HasWhatItMade, CleanupFindsIt, KeepsStatus, Lives, Untrapped, Cleanup
<1>5. CASE r.pc = "poll" /\ s = [r EXCEPT !.pc = "test", !.ledger = l]
  <2>1. /\ s \in Run
        /\ s.pc = "test" /\ s.status = r.status /\ s.dir = r.dir /\ s.child = r.child
        /\ s.pid = r.pid /\ s.passed = r.passed /\ s.hits = r.hits
        /\ s.tries = r.tries /\ s.rmFailed = r.rmFailed
    BY <1>0, <1>5, RunFields, Labels
  <2>3. WithinLimit(s)
    BY <1>5, <2>1 DEF RunInv, WithinLimit
  <2> QED
    BY <1>5, <2>1, <2>3
       DEF RunInv, HasWhatItMade, CleanupFindsIt, KeepsStatus, Lives, Untrapped, Cleanup
<1>6. CASE r.pc = "poll" /\ s = [r EXCEPT !.pc = "alive"]
  <2>1. /\ s \in Run
        /\ s.pc = "alive" /\ s.status = r.status /\ s.dir = r.dir /\ s.child = r.child
        /\ s.pid = r.pid /\ s.passed = r.passed /\ s.hits = r.hits
        /\ s.tries = r.tries /\ s.rmFailed = r.rmFailed
    BY <1>0, <1>6, RunFields, Labels
  <2>3. WithinLimit(s)
    BY <1>6, <2>1 DEF RunInv, WithinLimit
  <2> QED
    BY <1>6, <2>1, <2>3
       DEF RunInv, HasWhatItMade, CleanupFindsIt, KeepsStatus, Lives, Untrapped, Cleanup
<1>7. CASE /\ r.pc = "alive" /\ r.tries + 1 < READY_PROBES
           /\ s = [r EXCEPT !.pc = "poll", !.tries = @ + 1]
  <2>0. r.tries \in Nat /\ r.tries + 1 \in Nat
    BY <1>0, RunFields
  <2>1. /\ s \in Run
        /\ s.pc = "poll" /\ s.status = r.status /\ s.dir = r.dir /\ s.child = r.child
        /\ s.pid = r.pid /\ s.passed = r.passed /\ s.hits = r.hits
        /\ s.tries = r.tries + 1 /\ s.rmFailed = r.rmFailed
    BY <1>0, <1>7, RunFields, Labels, <2>0
  <2>3. WithinLimit(s)
    BY <1>7, <2>1 DEF RunInv, WithinLimit
  <2> QED
    BY <1>7, <2>1, <2>3
       DEF RunInv, HasWhatItMade, CleanupFindsIt, KeepsStatus, Lives, Untrapped, Cleanup
<1>8. CASE r.pc \in {"alive", "test"} /\ s = [r EXCEPT !.pc = "cleanup", !.status = 1]
  <2>1. /\ s \in Run
        /\ s.pc = "cleanup" /\ s.status = 1 /\ s.dir = r.dir /\ s.child = r.child
        /\ s.pid = r.pid /\ s.passed = r.passed /\ s.hits = r.hits
        /\ s.tries = r.tries /\ s.rmFailed = r.rmFailed
    BY <1>0, <1>8, RunFields, Labels
  <2>3. WithinLimit(s)
    BY <1>8, <2>1 DEF RunInv, WithinLimit
  <2> QED
    BY <1>8, <2>1, <2>3
       DEF RunInv, HasWhatItMade, CleanupFindsIt, KeepsStatus, Lives, Untrapped, Cleanup
<1>9. CASE r.pc = "test" /\ s = [r EXCEPT !.pc = "report", !.passed = TRUE]
  <2>1. /\ s \in Run
        /\ s.pc = "report" /\ s.status = r.status /\ s.dir = r.dir /\ s.child = r.child
        /\ s.pid = r.pid /\ s.passed = TRUE /\ s.hits = r.hits
        /\ s.tries = r.tries /\ s.rmFailed = r.rmFailed
    BY <1>0, <1>9, RunFields, Labels
  <2>3. WithinLimit(s)
    BY <1>9, <2>1 DEF RunInv, WithinLimit
  <2> QED
    BY <1>9, <2>1, <2>3
       DEF RunInv, HasWhatItMade, CleanupFindsIt, KeepsStatus, Lives, Untrapped, Cleanup
<1>10. CASE r.pc = "report" /\ s = [r EXCEPT !.pc = "cleanup", !.status = 0]
  <2>1. /\ s \in Run
        /\ s.pc = "cleanup" /\ s.status = 0 /\ s.dir = r.dir /\ s.child = r.child
        /\ s.pid = r.pid /\ s.passed = r.passed /\ s.hits = r.hits
        /\ s.tries = r.tries /\ s.rmFailed = r.rmFailed
    BY <1>0, <1>10, RunFields, Labels
  <2>3. WithinLimit(s)
    BY <1>10, <2>1 DEF RunInv, WithinLimit
  <2> QED
    BY <1>10, <2>1, <2>3
       DEF RunInv, HasWhatItMade, CleanupFindsIt, KeepsStatus, Lives, Untrapped, Cleanup
<1> QED
  BY <1>1, <1>2, <1>3, <1>4, <1>5, <1>6, <1>7, <1>8, <1>9, <1>10

\* cleanup: the validator it knows of is told to end and waited for.
LEMMA CleanupKeeps ==
    ASSUME NEW r, RunInv(r), NEW s,
           \/ /\ r.pc = "cleanup" /\ r.pid /\ Lives(r)
              /\ s = [r EXCEPT !.pc = "wait", !.child = "stopping", !.tries = 0]
           \/ /\ r.pc = "cleanup" /\ ~(r.pid /\ Lives(r))
              /\ s = [r EXCEPT !.pc = "ports", !.tries = 0]
           \/ /\ r.pc = "wait" /\ ~Lives(r)
              /\ s = [r EXCEPT !.pc = "ports"]
           \/ /\ r.pc = "ports"
              /\ s = [r EXCEPT !.pc = "remove"]
           \/ /\ r.pc = "ports" /\ r.tries + 1 < PORT_CHECKS
              /\ s = [r EXCEPT !.tries = @ + 1]
           \/ /\ r.pc = "ports"
              /\ s = [r EXCEPT !.pc = "remove", !.status = 1]
           \/ /\ r.pc = "remove"
              /\ s = [r EXCEPT !.pc = "exited", !.dir = FALSE]
           \/ /\ r.pc = "remove"
              /\ s = [r EXCEPT !.pc = "exited", !.status = 1, !.rmFailed = TRUE]
    PROVE  RunInv(s)
<1>0. r \in Run
  BY DEF RunInv
<1>1. CASE /\ r.pc = "cleanup" /\ r.pid /\ Lives(r)
           /\ s = [r EXCEPT !.pc = "wait", !.child = "stopping", !.tries = 0]
  <2>1. /\ s \in Run
        /\ s.pc = "wait" /\ s.status = r.status /\ s.dir = r.dir /\ s.child = "stopping"
        /\ s.pid = r.pid /\ s.passed = r.passed /\ s.hits = r.hits
        /\ s.tries = 0 /\ s.rmFailed = r.rmFailed
    BY <1>0, <1>1, RunFields, Labels
  <2>2. Struck(s) <=> Struck(r)
    BY <2>1 DEF Struck
  <2>3. WithinLimit(s)
    BY <1>1, <2>1, HarnessAssumption DEF RunInv, WithinLimit
  <2> QED
    BY <1>1, <2>1, <2>2, <2>3
       DEF RunInv, HasWhatItMade, CleanupFindsIt, KeepsStatus, Lives, Untrapped, Cleanup
<1>2. CASE /\ r.pc = "cleanup" /\ ~(r.pid /\ Lives(r))
           /\ s = [r EXCEPT !.pc = "ports", !.tries = 0]
  <2>1. /\ s \in Run
        /\ s.pc = "ports" /\ s.status = r.status /\ s.dir = r.dir /\ s.child = r.child
        /\ s.pid = r.pid /\ s.passed = r.passed /\ s.hits = r.hits
        /\ s.tries = 0 /\ s.rmFailed = r.rmFailed
    BY <1>0, <1>2, RunFields, Labels
  <2>2. Struck(s) <=> Struck(r)
    BY <2>1 DEF Struck
  <2>3. WithinLimit(s)
    BY <1>2, <2>1, HarnessAssumption DEF RunInv, WithinLimit
  <2> QED
    BY <1>2, <2>1, <2>2, <2>3
       DEF RunInv, HasWhatItMade, CleanupFindsIt, KeepsStatus, Lives, Untrapped, Cleanup
<1>3. CASE r.pc = "wait" /\ ~Lives(r) /\ s = [r EXCEPT !.pc = "ports"]
  <2>1. /\ s \in Run
        /\ s.pc = "ports" /\ s.status = r.status /\ s.dir = r.dir /\ s.child = r.child
        /\ s.pid = r.pid /\ s.passed = r.passed /\ s.hits = r.hits
        /\ s.tries = r.tries /\ s.rmFailed = r.rmFailed
    BY <1>0, <1>3, RunFields, Labels
  <2>2. Struck(s) <=> Struck(r)
    BY <2>1 DEF Struck
  <2>3. WithinLimit(s)
    BY <1>3, <2>1 DEF RunInv, WithinLimit
  <2> QED
    BY <1>3, <2>1, <2>2, <2>3
       DEF RunInv, HasWhatItMade, CleanupFindsIt, KeepsStatus, Lives, Untrapped, Cleanup
<1>4. CASE r.pc = "ports" /\ s = [r EXCEPT !.pc = "remove"]
  <2>1. /\ s \in Run
        /\ s.pc = "remove" /\ s.status = r.status /\ s.dir = r.dir /\ s.child = r.child
        /\ s.pid = r.pid /\ s.passed = r.passed /\ s.hits = r.hits
        /\ s.tries = r.tries /\ s.rmFailed = r.rmFailed
    BY <1>0, <1>4, RunFields, Labels
  <2>2. Struck(s) <=> Struck(r)
    BY <2>1 DEF Struck
  <2>3. WithinLimit(s)
    BY <1>4, <2>1 DEF RunInv, WithinLimit
  <2> QED
    BY <1>4, <2>1, <2>2, <2>3
       DEF RunInv, HasWhatItMade, CleanupFindsIt, KeepsStatus, Lives, Untrapped, Cleanup
<1>5. CASE r.pc = "ports" /\ r.tries + 1 < PORT_CHECKS /\ s = [r EXCEPT !.tries = @ + 1]
  <2>0. r.tries \in Nat /\ r.tries + 1 \in Nat
    BY <1>0, RunFields
  <2>1. /\ s \in Run
        /\ s.pc = r.pc /\ s.status = r.status /\ s.dir = r.dir /\ s.child = r.child
        /\ s.pid = r.pid /\ s.passed = r.passed /\ s.hits = r.hits
        /\ s.tries = r.tries + 1 /\ s.rmFailed = r.rmFailed
    BY <1>0, <1>5, RunFields, Labels, <2>0
  <2>2. Struck(s) <=> Struck(r)
    BY <2>1 DEF Struck
  <2>3. WithinLimit(s)
    BY <1>5, <2>1 DEF RunInv, WithinLimit
  <2> QED
    BY <1>5, <2>1, <2>2, <2>3
       DEF RunInv, HasWhatItMade, CleanupFindsIt, KeepsStatus, Lives, Untrapped, Cleanup
<1>6. CASE r.pc = "ports" /\ s = [r EXCEPT !.pc = "remove", !.status = 1]
  <2>1. /\ s \in Run
        /\ s.pc = "remove" /\ s.status = 1 /\ s.dir = r.dir /\ s.child = r.child
        /\ s.pid = r.pid /\ s.passed = r.passed /\ s.hits = r.hits
        /\ s.tries = r.tries /\ s.rmFailed = r.rmFailed
    BY <1>0, <1>6, RunFields, Labels
  <2>2. Struck(s) <=> Struck(r)
    BY <2>1 DEF Struck
  <2>3. WithinLimit(s)
    BY <1>6, <2>1 DEF RunInv, WithinLimit
  <2> QED
    BY <1>6, <2>1, <2>2, <2>3
       DEF RunInv, HasWhatItMade, CleanupFindsIt, KeepsStatus, Lives, Untrapped, Cleanup
<1>7. CASE r.pc = "remove" /\ s = [r EXCEPT !.pc = "exited", !.dir = FALSE]
  <2>1. /\ s \in Run
        /\ s.pc = "exited" /\ s.status = r.status /\ s.dir = FALSE /\ s.child = r.child
        /\ s.pid = r.pid /\ s.passed = r.passed /\ s.hits = r.hits
        /\ s.tries = r.tries /\ s.rmFailed = r.rmFailed
    BY <1>0, <1>7, RunFields, Labels
  <2>2. Struck(s) <=> Struck(r)
    BY <2>1 DEF Struck
  <2>3. WithinLimit(s)
    BY <1>7, <2>1 DEF RunInv, WithinLimit
  <2> QED
    BY <1>7, <2>1, <2>2, <2>3
       DEF RunInv, HasWhatItMade, CleanupFindsIt, KeepsStatus, Lives, Untrapped, Cleanup
<1>8. CASE /\ r.pc = "remove"
           /\ s = [r EXCEPT !.pc = "exited", !.status = 1, !.rmFailed = TRUE]
  <2>1. /\ s \in Run
        /\ s.pc = "exited" /\ s.status = 1 /\ s.dir = r.dir /\ s.child = r.child
        /\ s.pid = r.pid /\ s.passed = r.passed /\ s.hits = r.hits
        /\ s.tries = r.tries /\ s.rmFailed = TRUE
    BY <1>0, <1>8, RunFields, Labels
  <2>2. Struck(s) <=> Struck(r)
    BY <2>1 DEF Struck
  <2>3. WithinLimit(s)
    BY <1>8, <2>1 DEF RunInv, WithinLimit
  <2> QED
    BY <1>8, <2>1, <2>2, <2>3
       DEF RunInv, HasWhatItMade, CleanupFindsIt, KeepsStatus, Lives, Untrapped, Cleanup
<1> QED
  BY <1>1, <1>2, <1>3, <1>4, <1>5, <1>6, <1>7, <1>8

\* The validator binds or ends: neither makes one that had ended.
LEMMA ValidatorKeeps ==
    ASSUME NEW r, RunInv(r), NEW s,
           \/ /\ r.child = "starting"
              /\ s = [r EXCEPT !.child = "serving"]
           \/ /\ Lives(r)
              /\ s = [r EXCEPT !.child = "dead"]
    PROVE  RunInv(s)
<1>0. r \in Run
  BY DEF RunInv
<1>1. CASE r.child = "starting" /\ s = [r EXCEPT !.child = "serving"]
  <2>1. /\ s \in Run
        /\ s.pc = r.pc /\ s.status = r.status /\ s.dir = r.dir /\ s.child = "serving"
        /\ s.pid = r.pid /\ s.passed = r.passed /\ s.hits = r.hits
        /\ s.tries = r.tries /\ s.rmFailed = r.rmFailed
    BY <1>0, <1>1, RunFields, Labels
  <2>2. Struck(s) <=> Struck(r)
    BY <2>1 DEF Struck
  <2>3. WithinLimit(s)
    BY <1>1, <2>1 DEF RunInv, WithinLimit
  <2> QED
    BY <1>1, <2>1, <2>2, <2>3
       DEF RunInv, HasWhatItMade, CleanupFindsIt, KeepsStatus, Lives, Untrapped, Cleanup
<1>2. CASE Lives(r) /\ s = [r EXCEPT !.child = "dead"]
  <2>1. /\ s \in Run
        /\ s.pc = r.pc /\ s.status = r.status /\ s.dir = r.dir /\ s.child = "dead"
        /\ s.pid = r.pid /\ s.passed = r.passed /\ s.hits = r.hits
        /\ s.tries = r.tries /\ s.rmFailed = r.rmFailed
    BY <1>0, <1>2, RunFields, Labels
  <2>2. Struck(s) <=> Struck(r)
    BY <2>1 DEF Struck
  <2>3. WithinLimit(s)
    BY <1>2, <2>1 DEF RunInv, WithinLimit
  <2> QED
    BY <1>2, <2>1, <2>2, <2>3
       DEF RunInv, HasWhatItMade, CleanupFindsIt, KeepsStatus, Lives, Untrapped, Cleanup
<1> QED
  BY <1>1, <1>2

\* The state a signal takes a run to.
Signalled(r, code) ==
    [r EXCEPT !.pc = IF @ \in Trapped THEN "cleanup" ELSE "exited",
              !.status = code,
              !.hits = Append(@, r.pc)]

\* A signal: before the traps and in cleanup it ends the run, in a window or with
\* nothing to leave; under the traps it goes to cleanup.
LEMMA SignalKeeps ==
    ASSUME NEW r, RunInv(r), r.pc # "exited", NEW code, code \in {130, 143}
    PROVE  RunInv(Signalled(r, code))
<1> DEFINE s == Signalled(r, code)
           p == IF r.pc \in Trapped THEN "cleanup" ELSE "exited"
           hits == Append(r.hits, r.pc)
<1>0. s = [r EXCEPT !.pc = p, !.status = code, !.hits = hits]
  BY DEF Signalled
<1> SUFFICES RunInv(s)
  OBVIOUS
<1> HIDE DEF s
<1>1. r \in Run /\ r.pc \in Label
  BY RunFields DEF RunInv, Place
<1>2. p \in Place /\ code \in Status
  BY Labels
<1>3. hits \in Seq(Label)
  BY <1>1, RunFields
<1>4. /\ s \in Run
      /\ s.pc = p /\ s.status = code /\ s.dir = r.dir /\ s.child = r.child
      /\ s.pid = r.pid /\ s.passed = r.passed /\ s.hits = hits /\ s.tries = r.tries
  <2> HIDE DEF p, hits
  <2> QED
    BY ONLY <1>0, <1>1, <1>2, <1>3, RunFields
<1>5. /\ Struck(r) => Struck(s)
      /\ r.pc \in {"trap", "record"} \union Cleanup => Struck(s)
  <2>1. s.hits = Append(r.hits, r.pc)
    BY <1>4
  <2> QED
    BY ONLY <1>1, <2>1, HitsGrow
<1>6. WithinLimit(s)
  BY <1>4 DEF RunInv, WithinLimit, Trapped
<1>7. CASE r.pc \in Trapped
  <2>1. s.pc = "cleanup"
    BY <1>4, <1>7
  <2>2. (r.child # "none" /\ r.pc # "record") => r.pid
    BY <1>7 DEF RunInv, HasWhatItMade, Trapped
  <2> QED
    BY <1>4, <1>5, <1>6, <2>1, <2>2
       DEF RunInv, HasWhatItMade, CleanupFindsIt, KeepsStatus, Lives, Untrapped, Cleanup
<1>8. CASE r.pc \notin Trapped
  <2>1. s.pc = "exited"
    BY <1>4, <1>8
  <2>2. r.pc \in {"check", "probe", "mktemp"} => ~r.dir /\ r.child = "none"
    BY DEF RunInv, HasWhatItMade, Untrapped
  <2>3. r.pc \in {"check", "probe", "mktemp"} \/ r.pc \in {"trap"} \union Cleanup
    BY <1>1, <1>8 DEF Label, Untrapped
  <2> QED
    BY <1>4, <1>5, <1>6, <2>1, <2>2, <2>3
       DEF RunInv, HasWhatItMade, CleanupFindsIt, KeepsStatus, Lives, Untrapped, Cleanup
<1> QED
  BY <1>7, <1>8

-----------------------------------------------------------------------------
\* Run h goes to state r and no other run moves.
Moves(h, r) == run' = [run EXCEPT ![h] = r]

\* One run moves and keeps its invariant, and so does the whole.
LEMMA OneMoves ==
    ASSUME HarnessInv, NEW h \in Harness, NEW r, RunInv(r),
           Moves(h, r), port' \in Harness \union {None}
    PROVE  HarnessInv'
<1>1. r \in Run /\ run \in [Harness -> Run]
  BY DEF RunInv, HarnessInv, HarnessTypeOK
<1>2. ASSUME NEW g \in Harness
      PROVE  RunInv(run'[g])
  <2>1. CASE g = h
    BY <1>1, <2>1 DEF Moves
  <2>2. CASE g # h
    BY <1>1, <2>2 DEF HarnessInv, Moves
  <2> QED
    BY <2>1, <2>2
<1>3. HarnessTypeOK'
  BY <1>1, <1>2 DEF HarnessTypeOK, Moves, RunInv
<1> QED
  BY <1>2, <1>3 DEF HarnessInv

\* A command of the script keeps the invariant.
LEMMA StepKeeps ==
    ASSUME HarnessInv, NEW h \in Harness, Step(h)
    PROVE  HarnessInv'
<1> DEFINE r == run[h]
<1>1. RunInv(r) /\ port \in Harness \union {None}
  BY DEF HarnessInv, HarnessTypeOK
<1> SUFFICES \E s : RunInv(s) /\ Become(h, s)
  <2>1. ASSUME NEW s, Become(h, s)
        PROVE  Moves(h, s) /\ port' \in Harness \union {None}
    BY <1>1, <2>1 DEF Become, Moves
  <2> QED
    BY <2>1, OneMoves
<1>2. CASE check_inputs(h) \/ probe_ports(h) \/ make_run_directory(h) \/ set_traps(h)
  BY <1>1, <1>2, UntrappedKeeps
     DEF check_inputs, probe_ports, make_run_directory, set_traps, Goto, Die
<1>3. CASE \/ generate_fixtures(h) \/ spawn_validator(h) \/ record_pid(h) \/ poll_ready(h)
           \/ check_alive(h) \/ npm_test(h) \/ report(h)
  BY <1>1, <1>3, TrappedKeeps
     DEF generate_fixtures, spawn_validator, record_pid, poll_ready, check_alive, npm_test,
         report, Goto, Exit
<1>4. CASE cleanup_kill(h) \/ cleanup_wait(h) \/ cleanup_ports(h) \/ cleanup_remove(h)
  BY <1>1, <1>4, CleanupKeeps
     DEF cleanup_kill, cleanup_wait, cleanup_ports, cleanup_remove, Goto, Die, Alive, Lives
<1> QED
  BY <1>2, <1>3, <1>4 DEF Step

\* A signal, wherever it strikes, keeps the invariant.
LEMMA SignalStepKeeps ==
    ASSUME HarnessInv, NEW h \in Harness, NEW code \in {130, 143}, signal(h, code)
    PROVE  HarnessInv'
<1> DEFINE s == Signalled(run[h], code)
<1>1. RunInv(run[h]) /\ run[h].pc # "exited" /\ port \in Harness \union {None}
  BY DEF HarnessInv, HarnessTypeOK, signal
<1>2. Moves(h, s) /\ port' = port
  BY DEF signal, Signalled, Become, Moves
<1>3. RunInv(s)
  BY <1>1, SignalKeeps
<1> HIDE DEF s
<1> QED
  BY <1>1, <1>2, <1>3, OneMoves

\* A step of a validator keeps the invariant.
LEMMA ValidatorStepKeeps ==
    ASSUME HarnessInv, NEW h \in Harness, bind(h) \/ crash(h) \/ stop(h)
    PROVE  HarnessInv'
<1> DEFINE r == run[h]
<1>1. RunInv(r) /\ port \in Harness \union {None}
  BY DEF HarnessInv, HarnessTypeOK
<1>2. port' \in Harness \union {None}
  BY <1>1 DEF bind, crash, stop, Ends
<1>3. CASE r.child = "starting" /\ run' = [run EXCEPT ![h].child = "serving"]
  <2> DEFINE s == [r EXCEPT !.child = "serving"]
  <2>1. RunInv(s)
    BY <1>1, <1>3, ValidatorKeeps
  <2>2. Moves(h, s)
    BY <1>3 DEF Moves
  <2> HIDE DEF s
  <2> QED
    BY <1>2, <2>1, <2>2, OneMoves
<1>4. CASE Lives(r) /\ run' = [run EXCEPT ![h].child = "dead"]
  <2> DEFINE s == [r EXCEPT !.child = "dead"]
  <2>1. RunInv(s)
    BY <1>1, <1>4, ValidatorKeeps
  <2>2. Moves(h, s)
    BY <1>4 DEF Moves
  <2> HIDE DEF s
  <2> QED
    BY <1>2, <2>1, <2>2, OneMoves
<1> QED
  BY <1>3, <1>4 DEF bind, crash, stop, Ends, Lives

\* Before its first command a run has made nothing.
LEMMA HarnessInitInv == HarnessInit => HarnessInv
<1> SUFFICES ASSUME HarnessInit PROVE HarnessInv
  OBVIOUS
<1>1. ASSUME NEW h \in Harness
      PROVE  RunInv(run[h])
  <2>1. <<>> \in Seq(Label)
    OBVIOUS
  <2>2. run[h] \in Run
    BY <2>1, RunFields, Labels DEF HarnessInit
  <2> QED
    BY <2>2, HarnessAssumption DEF HarnessInit, RunInv, WithinLimit, HasWhatItMade,
                                   CleanupFindsIt, KeepsStatus, Lives, Cleanup
<1>2. HarnessTypeOK
  <2>1. run = [h \in Harness |-> run[h]] /\ port = None
    BY DEF HarnessInit
  <2> QED
    BY <1>1, <2>1 DEF HarnessTypeOK, RunInv
<1> QED
  BY <1>1, <1>2 DEF HarnessInv

\* The invariant is inductive: a command, a signal or a step of a validator in one
\* run takes that run to a state the invariant allows, and no other run moves.
THEOREM HarnessInvariant == HarnessSpec => []HarnessInv
<1>1. HarnessInv /\ [HarnessNext]_harnessVars => HarnessInv'
  <2> SUFFICES ASSUME HarnessInv, [HarnessNext]_harnessVars PROVE HarnessInv'
    OBVIOUS
  <2>1. CASE HarnessNext
    BY <2>1, StepKeeps, SignalStepKeeps, ValidatorStepKeeps DEF HarnessNext
  <2>2. CASE UNCHANGED harnessVars
    BY <2>2 DEF harnessVars, HarnessInv, HarnessTypeOK
  <2> QED
    BY <2>1, <2>2
<1> QED
  BY HarnessInitInv, <1>1, PTL DEF HarnessSpec

\* Every run has its type, the readiness loop stops within READY_PROBES probes and
\* the wait for the ports within PORT_CHECKS looks, whichever of the two is larger.
THEOREM HarnessTypeInvariant == HarnessSpec => []HarnessTypeOK
<1>1. HarnessInv => HarnessTypeOK
  BY DEF HarnessInv
<1> QED
  BY <1>1, HarnessInvariant, PTL

\* A run that has ended leaves its validator behind only if a signal struck one of
\* the three windows, and its directory only then or if rm failed, however many runs
\* share the ports.
THEOREM LeaksOnlyInWindowsInvariant == HarnessSpec => []LeaksOnlyInWindows
<1>1. HarnessInv => LeaksOnlyInWindows
  BY DEF HarnessInv, RunInv, CleanupFindsIt, LeaksOnlyInWindows, Struck, StruckInWindow,
         Lives, Alive
<1> QED
  BY <1>1, HarnessInvariant, PTL

\* Status 0 means that the tests passed and nothing is left behind.
THEOREM SuccessIsEarnedInvariant == HarnessSpec => []SuccessIsEarned
<1>1. HarnessInv => SuccessIsEarned
  BY DEF HarnessInv, RunInv, KeepsStatus, SuccessIsEarned, Lives, Alive
<1> QED
  BY <1>1, HarnessInvariant, PTL
=============================================================================
