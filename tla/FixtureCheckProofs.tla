------------------------- MODULE FixtureCheckProofs -------------------------
(***************************************************************************)
(* What a successful verification of the fixtures means, for any number of *)
(* files and of versions.  The inductive invariant says what a run of the  *)
(* verification has established at each of its commands, as long as nobody *)
(* else has moved since it began.                                          *)
(***************************************************************************)
EXTENDS FixtureCheck, TLAPS

\* What the committed fixtures say of each file a lock may name.
Content == [ToSet(LockedFile) -> Version]

\* A lock gives the content of some of them.
Lock == UNION {[files -> Version] : files \in SUBSET ToSet(LockedFile)}

Place == Running \union {"idle", "ok", "failed", "killed"}

Verify == [pc : Place,
           failure : BOOLEAN,
           lock : Lock \union {None},
           checked : Nat,
           version : Version,
           temp : Seq(Version) \union {None},
           normalised : BOOLEAN,
           rmThrew : BOOLEAN,
           quiet : BOOLEAN]

\* Every variable has its type.
FixtureTypeOK ==
    /\ generator \in Version
    /\ committed \in Content
    /\ lock \in Lock \union {None}
    /\ regen \in [version : Version, next : Nat] \union {None}
    /\ verify \in Verify

\* The temporary directory is there between mkdtemp and the finally block only, unless
\* that block did not remove it.
TemporaryInv ==
    /\ verify.pc \in {"idle", "hash", "mkdtemp", "ok"} => verify.temp = None
    /\ verify.pc = "failed" => verify.temp = None \/ ~verify.normalised \/ verify.rmThrew
    /\ verify.pc \in {"generate", "compare"} => verify.temp \in Seq(Version)

\* The committed file is the locked one, if the lock names it.
Matches(f) == f \in DOMAIN lock => committed[f] = lock[f]

LockMatches == lock \in Lock /\ lock # None /\ \A f \in DOMAIN lock : Matches(f)

\* The lock in use is the lock, and the files behind the loop's counter have the
\* hashes it gives; from mkdtemp on all of them have.
LockChecked ==
    /\ verify.pc = "hash" =>
         /\ lock \in Lock /\ lock # None /\ lock = verify.lock
         /\ \A i \in 1 .. Len(LockedFile) : i <= verify.checked => Matches(LockedFile[i])
    /\ verify.pc \in (Running \ {"hash"}) \union {"ok"} => LockMatches

\* The generator that ran is the one in the repository, all it has written is its
\* own, and the files behind the counter of the comparison are the same.
OutputChecked ==
    /\ verify.pc \in (Running \ {"hash", "mkdtemp"}) \union {"ok"}
         => verify.version = generator
    /\ verify.pc \in {"generate", "compare"}
         => \A i \in 1 .. Len(verify.temp) : verify.temp[i] = generator
    /\ verify.pc = "compare"
         => \A i \in 1 .. Len(IdentityFile) :
                i <= verify.checked => committed[IdentityFile[i]] = generator

\* What no error means in the finally block and after it.
NothingThrown ==
    /\ verify.pc = "ok" => ~verify.failure
    /\ (verify.pc = "wallets" \/ (verify.pc \in {"finally", "ok"} /\ ~verify.failure))
         => \A f \in ToSet(IdentityFile) : committed[f] = generator
    /\ (verify.pc \in {"finally", "ok"} /\ ~verify.failure) => generator \in FundedWallets

\* The inductive invariant.
FixtureInv == /\ FixtureTypeOK
              /\ TemporaryInv
              /\ verify.quiet => LockChecked /\ OutputChecked /\ NothingThrown

-----------------------------------------------------------------------------
\* The places of a run, so that no other definition of them is needed below.
LEMMA Places ==
    /\ {"idle", "hash", "mkdtemp", "generate", "compare", "wallets", "finally", "ok",
        "failed", "killed"} \subseteq Place
    /\ Running \subseteq Place
  BY DEF Place, Running

\* The lists of files are sequences, and the sets of their entries.
LEMMA Files ==
    /\ Len(LockedFile) \in Nat /\ Len(IdentityFile) \in Nat
    /\ ToSet(LockedFile) = {LockedFile[i] : i \in 1 .. Len(LockedFile)}
    /\ ToSet(IdentityFile) = {IdentityFile[i] : i \in 1 .. Len(IdentityFile)}
<1>1. LockedFile \in Seq(STRING) /\ IdentityFile \in Seq(STRING)
  BY FixtureAssumption DEF LockedFile
<1> QED
  BY <1>1 DEF ToSet

\* A file that is written, or that no list names, leaves a content of versions.
LEMMA ContentWritten ==
    ASSUME NEW c \in Content, NEW f, NEW v \in Version
    PROVE  [c EXCEPT ![f] = v] \in Content
  BY DEF Content

\* A lock made from some of the committed files is a lock.
LEMMA RestrictedLock ==
    ASSUME NEW c \in Content, NEW files \in SUBSET ToSet(LockedFile)
    PROVE  Restrict(c, files) \in Lock
<1>1. Restrict(c, files) \in [files -> Version]
  BY DEF Content, Restrict
<1> QED
  BY <1>1 DEF Lock

\* A step of the verification leaves everything else alone, the committed files
\* too: the generator it runs is told to write elsewhere.
LEMMA VerifyStepReads ==
    VerifyStep => UNCHANGED <<generator, committed, lock, regen>>
<1>1. parseOutputDirectory(<<"--output-dir", "temporary">>) = "temporary"
  BY DEF parseOutputDirectory
<1> QED
  BY <1>1 DEF VerifyStep, verify_start, verify_hash, verify_mkdtemp, verify_generate,
              verify_compare, verify_wallets, verify_finally, verify_killed

\* A lock that matches goes on matching while neither it nor the files change.
LEMMA LockKept ==
    ASSUME UNCHANGED <<committed, lock>>, LockMatches
    PROVE  LockMatches'
  BY DEF LockMatches, Matches

-----------------------------------------------------------------------------
\* The developer may do anything between two commands of a run: the run is no
\* longer alone, and its record keeps its type.
LEMMA DevelopKeeps ==
    ASSUME FixtureInv, Develop
    PROVE  FixtureInv'
<1>1. /\ verify' \in Verify /\ verify'.pc = verify.pc /\ verify'.temp = verify.temp
      /\ verify'.quiet = FALSE /\ verify'.normalised = verify.normalised
      /\ verify'.rmThrew = verify.rmThrew
  BY DEF FixtureInv, FixtureTypeOK, Verify, Develop
<1>2. TemporaryInv'
  BY <1>1 DEF FixtureInv, TemporaryInv
<1>3. generator' \in Version /\ lock' \in Lock \union {None}
  <2>1. \A files \in SUBSET ToSet(LockedFile) : Restrict(committed, files) \in Lock
    BY RestrictedLock DEF FixtureInv, FixtureTypeOK
  <2> QED
    BY <2>1 DEF FixtureInv, FixtureTypeOK, Develop, edit_generator, edit_lock,
                replace_binary, regenerate, regenerate_write, regenerate_interrupted
<1>4. /\ committed' \in Content
      /\ regen' \in [version : Version, next : Nat] \union {None}
  <2>1. CASE regenerate_write
    <3>1. regen \in [version : Version, next : Nat]
      BY <2>1 DEF FixtureInv, FixtureTypeOK, regenerate_write
    <3>2. committed' \in Content
      BY <2>1, <3>1, ContentWritten DEF FixtureInv, FixtureTypeOK, regenerate_write
    <3>3. [regen EXCEPT !.next = @ + 1] \in [version : Version, next : Nat]
      BY <3>1
    <3> QED
      BY <2>1, <3>2, <3>3 DEF regenerate_write
  <2>2. CASE \E v \in Version : \E f \in ToSet(BinaryFile) : replace_binary(f, v)
    <3>1. PICK v \in Version, f \in ToSet(BinaryFile) :
            committed' = [committed EXCEPT ![f] = v] /\ regen' = regen
      BY <2>2 DEF replace_binary
    <3>2. [committed EXCEPT ![f] = v] \in Content
      BY ContentWritten DEF FixtureInv, FixtureTypeOK
    <3> QED
      BY <3>1, <3>2 DEF FixtureInv, FixtureTypeOK
  <2>3. CASE \/ \E v \in Version : edit_generator(v)
             \/ \E content : edit_lock(content)
             \/ regenerate \/ regenerate_interrupted
    BY <2>3 DEF FixtureInv, FixtureTypeOK, edit_generator, edit_lock, regenerate,
                regenerate_interrupted
  <2> QED
    BY <2>1, <2>2, <2>3 DEF Develop
<1> QED
  BY <1>1, <1>2, <1>3, <1>4 DEF FixtureInv, FixtureTypeOK

\* A run begins with nothing but the lock.
LEMMA StartKeeps ==
    ASSUME FixtureInv, verify_start, UNCHANGED <<generator, committed, lock, regen>>
    PROVE  FixtureInv'
<1> DEFINE p == IF lock = None THEN "failed" ELSE "hash"
<1>1. p \in Place
  BY Places
<1>2. /\ verify' \in Verify /\ verify'.pc = p /\ verify'.lock = lock /\ verify'.checked = 0
      /\ verify'.temp = None
  <2> HIDE DEF p
  <2>1. PICK normalised \in BOOLEAN :
          verify' = [pc |-> p, failure |-> FALSE, lock |-> lock, checked |-> 0,
                     version |-> generator, temp |-> None, normalised |-> normalised,
                     rmThrew |-> FALSE, quiet |-> TRUE]
    BY DEF verify_start, p
  <2> QED
    BY <1>1, <2>1 DEF FixtureInv, FixtureTypeOK, Verify
<1>3. FixtureTypeOK' /\ TemporaryInv'
  BY <1>2 DEF FixtureInv, FixtureTypeOK, TemporaryInv
<1>4. LockChecked' /\ OutputChecked' /\ NothingThrown'
  BY <1>2, Files
     DEF FixtureInv, FixtureTypeOK, LockChecked, OutputChecked, NothingThrown, Running
<1> QED
  BY <1>3, <1>4 DEF FixtureInv

\* One more file has the hash the lock gives; after the last one all have.
LEMMA HashKeeps ==
    ASSUME FixtureInv, verify_hash, UNCHANGED <<generator, committed, lock, regen>>
    PROVE  FixtureInv'
<1> DEFINE i == verify.checked + 1
<1>0. verify \in Verify /\ verify.pc = "hash" /\ i \in Nat
  BY DEF FixtureInv, FixtureTypeOK, Verify, verify_hash
<1>1. CASE i > Len(LockedFile)
  <2>1. /\ verify' \in Verify /\ verify'.pc = "mkdtemp" /\ verify'.temp = verify.temp
        /\ verify'.quiet = verify.quiet
    <3>1. verify' = [verify EXCEPT !.pc = "mkdtemp", !.checked = 0, !.lock = None]
      BY <1>1 DEF verify_hash
    <3> QED
      BY <1>0, <3>1, Places DEF Verify
  <2>2. FixtureTypeOK' /\ TemporaryInv'
    BY <1>0, <2>1 DEF FixtureInv, FixtureTypeOK, TemporaryInv
  <2>3. ASSUME verify.quiet PROVE LockMatches
    <3>1. \A j \in 1 .. Len(LockedFile) : Matches(LockedFile[j])
      BY <1>0, <1>1, <2>3, Files DEF FixtureInv, LockChecked, Verify
    <3>2. lock \in Lock /\ lock # None
      BY <1>0, <2>3 DEF FixtureInv, LockChecked
    <3>3. DOMAIN lock \subseteq ToSet(LockedFile)
      BY <3>2 DEF Lock
    <3> QED
      BY <3>1, <3>2, <3>3, Files DEF LockMatches
  <2>4. ASSUME verify.quiet PROVE LockMatches'
    BY <2>3, <2>4, LockKept
  <2> QED
    BY <2>1, <2>2, <2>4
       DEF FixtureInv, LockChecked, OutputChecked, NothingThrown, Running
<1>2. CASE /\ i <= Len(LockedFile)
           /\ LockedFile[i] \in DOMAIN verify.lock
                => committed[LockedFile[i]] = verify.lock[LockedFile[i]]
  <2>1. /\ verify' \in Verify /\ verify'.pc = "hash" /\ verify'.temp = verify.temp
        /\ verify'.quiet = verify.quiet /\ verify'.checked = i /\ verify'.lock = verify.lock
    BY <1>0, <1>2, Files DEF verify_hash, Verify
  <2>2. FixtureTypeOK' /\ TemporaryInv'
    BY <1>0, <2>1 DEF FixtureInv, FixtureTypeOK, TemporaryInv
  <2>3. ASSUME verify.quiet, NEW j \in 1 .. Len(LockedFile), j <= i
        PROVE  Matches(LockedFile[j])
    BY <1>0, <1>2, <2>3, Files DEF FixtureInv, LockChecked, Matches, Verify
  <2>4. ASSUME verify.quiet, NEW j \in 1 .. Len(LockedFile), j <= i
        PROVE  Matches(LockedFile[j])'
    BY <2>3, <2>4 DEF Matches
  <2> QED
    BY <1>0, <2>1, <2>2, <2>4
       DEF FixtureInv, LockChecked, OutputChecked, NothingThrown, Running
<1>3. CASE verify' = [verify EXCEPT !.pc = "failed", !.lock = None]
  <2>1. /\ verify' \in Verify /\ verify'.pc = "failed" /\ verify'.temp = verify.temp
    BY <1>0, <1>3, Places DEF Verify
  <2> QED
    BY <1>0, <2>1 DEF FixtureInv, FixtureTypeOK, TemporaryInv, LockChecked, OutputChecked,
                      NothingThrown, Running
<1> QED
  BY <1>0, <1>1, <1>2, <1>3, Files DEF verify_hash

\* The temporary directory, empty, and the generator as it is now.
LEMMA MkdtempKeeps ==
    ASSUME FixtureInv, verify_mkdtemp, UNCHANGED <<generator, committed, lock, regen>>
    PROVE  FixtureInv'
<1>0. verify \in Verify /\ verify.pc = "mkdtemp" /\ generator \in Version
  BY DEF FixtureInv, FixtureTypeOK, verify_mkdtemp
<1>1. CASE verify' = [verify EXCEPT !.pc = "generate", !.temp = <<>>, !.version = generator]
  <2>1. /\ verify' \in Verify /\ verify'.pc = "generate" /\ verify'.temp = <<>>
        /\ verify'.version = generator /\ verify'.quiet = verify.quiet
    <3>1. <<>> \in Seq(Version)
      OBVIOUS
    <3> QED
      BY <1>0, <1>1, <3>1, Places DEF Verify
  <2>2. FixtureTypeOK' /\ TemporaryInv'
    BY <1>0, <2>1 DEF FixtureInv, FixtureTypeOK, TemporaryInv
  <2> QED
    BY <1>0, <2>1, <2>2, LockKept
       DEF FixtureInv, LockChecked, OutputChecked, NothingThrown, Running
<1>2. CASE verify' = [verify EXCEPT !.pc = "failed"]
  <2>1. verify' \in Verify /\ verify'.pc = "failed" /\ verify'.temp = verify.temp
    BY <1>0, <1>2, Places DEF Verify
  <2> QED
    BY <1>0, <2>1 DEF FixtureInv, FixtureTypeOK, TemporaryInv, LockChecked, OutputChecked,
                      NothingThrown, Running
<1> QED
  BY <1>1, <1>2 DEF verify_mkdtemp

\* An error in the try block keeps what the finally block needs to know.
LEMMA ThrowKeeps ==
    ASSUME FixtureInv, verify.pc \in {"generate", "compare", "wallets"}, Throw,
           UNCHANGED <<generator, committed, lock, regen>>
    PROVE  FixtureInv'
<1>0. verify \in Verify
  BY DEF FixtureInv, FixtureTypeOK
<1>1. /\ verify' \in Verify /\ verify'.pc = "finally" /\ verify'.failure = TRUE
      /\ verify'.version = verify.version /\ verify'.quiet = verify.quiet
  BY <1>0, Places DEF Throw, Verify
<1>2. FixtureTypeOK' /\ TemporaryInv'
  BY <1>0, <1>1 DEF FixtureInv, FixtureTypeOK, TemporaryInv
<1> QED
  BY <1>0, <1>1, <1>2, LockKept
     DEF FixtureInv, LockChecked, OutputChecked, NothingThrown, Running

\* One more file is the version's own.
LEMMA GenerateKeeps ==
    ASSUME FixtureInv, verify_generate, UNCHANGED <<generator, committed, lock, regen>>
    PROVE  FixtureInv'
<1>0. /\ verify \in Verify /\ verify.pc = "generate" /\ verify.checked + 1 \in Nat
      /\ verify.temp \in Seq(Version) /\ verify.version \in Version
  BY DEF FixtureInv, FixtureTypeOK, TemporaryInv, Verify, verify_generate
<1>1. CASE Throw
  BY <1>0, <1>1, ThrowKeeps
<1>2. CASE Proceed("compare")
  <2>1. /\ verify' \in Verify /\ verify'.pc = "compare" /\ verify'.temp = verify.temp
        /\ verify'.version = verify.version /\ verify'.quiet = verify.quiet
        /\ verify'.checked = 0
    BY <1>0, <1>2, Places DEF Proceed, Verify
  <2>2. FixtureTypeOK' /\ TemporaryInv'
    BY <1>0, <2>1 DEF FixtureInv, FixtureTypeOK, TemporaryInv
  <2> QED
    BY <1>0, <2>1, <2>2, Files, LockKept
       DEF FixtureInv, LockChecked, OutputChecked, NothingThrown, Running
<1>3. CASE verify' = [verify EXCEPT !.checked = verify.checked + 1,
                                    !.temp = Append(@, verify.version)]
  <2> DEFINE t == Append(verify.temp, verify.version)
  <2>1. /\ t \in Seq(Version) /\ Len(t) = Len(verify.temp) + 1 /\ Len(verify.temp) \in Nat
        /\ t[Len(t)] = verify.version
        /\ \A i \in 1 .. Len(verify.temp) : t[i] = verify.temp[i]
    BY <1>0
  <2> HIDE DEF t
  <2>2. /\ verify' \in Verify /\ verify'.pc = "generate" /\ verify'.temp = t
        /\ verify'.version = verify.version /\ verify'.quiet = verify.quiet
    BY <1>0, <1>3, <2>1 DEF Verify, t
  <2>3. FixtureTypeOK' /\ TemporaryInv'
    BY <1>0, <2>1, <2>2 DEF FixtureInv, FixtureTypeOK, TemporaryInv
  <2>4. ASSUME verify.quiet, NEW i \in 1 .. Len(t)
        PROVE  t[i] = generator
    <3>1. CASE i = Len(t)
      BY <1>0, <2>1, <2>4, <3>1 DEF FixtureInv, OutputChecked, Running
    <3>2. CASE i \in 1 .. Len(verify.temp)
      BY <1>0, <2>1, <2>4, <3>2 DEF FixtureInv, OutputChecked, Running
    <3> QED
      BY <2>1, <3>1, <3>2
  <2> QED
    BY <1>0, <2>2, <2>3, <2>4, LockKept
       DEF FixtureInv, LockChecked, OutputChecked, NothingThrown, Running
<1>4. parseOutputDirectory(<<"--output-dir", "temporary">>) = "temporary"
  BY DEF parseOutputDirectory
<1> QED
  BY <1>1, <1>2, <1>3, <1>4 DEF verify_generate

\* One more committed file is what the generator writes; after the last one all are.
LEMMA CompareKeeps ==
    ASSUME FixtureInv, verify_compare, UNCHANGED <<generator, committed, lock, regen>>
    PROVE  FixtureInv'
<1> DEFINE i == verify.checked + 1
<1>0. /\ verify \in Verify /\ verify.pc = "compare" /\ i \in Nat /\ i # 0
      /\ verify.checked \in Nat /\ verify.temp \in Seq(Version)
  BY DEF FixtureInv, FixtureTypeOK, TemporaryInv, Verify, verify_compare
<1>1. CASE i > Len(IdentityFile) /\ Proceed("wallets")
  <2>1. /\ verify' \in Verify /\ verify'.pc = "wallets" /\ verify'.version = verify.version
        /\ verify'.quiet = verify.quiet
    BY <1>0, <1>1, Places DEF Proceed, Verify
  <2>2. FixtureTypeOK' /\ TemporaryInv'
    BY <1>0, <2>1 DEF FixtureInv, FixtureTypeOK, TemporaryInv
  <2>3. ASSUME verify.quiet, NEW f \in ToSet(IdentityFile)
        PROVE  committed[f] = generator
    BY <1>0, <1>1, <2>3, Files DEF FixtureInv, OutputChecked
  <2> QED
    BY <1>0, <2>1, <2>2, <2>3, LockKept
       DEF FixtureInv, LockChecked, OutputChecked, NothingThrown, Running
<1>2. CASE /\ i <= Len(IdentityFile) /\ i <= Len(verify.temp)
           /\ committed[IdentityFile[i]] = verify.temp[i]
           /\ verify' = [verify EXCEPT !.checked = i]
  <2>1. /\ verify' \in Verify /\ verify'.pc = "compare" /\ verify'.temp = verify.temp
        /\ verify'.version = verify.version /\ verify'.quiet = verify.quiet
        /\ verify'.checked = i
    BY <1>0, <1>2 DEF Verify
  <2>2. FixtureTypeOK' /\ TemporaryInv'
    BY <1>0, <2>1 DEF FixtureInv, FixtureTypeOK, TemporaryInv
  <2>3. ASSUME verify.quiet, NEW j \in 1 .. Len(IdentityFile), j <= i
        PROVE  committed[IdentityFile[j]] = generator
    <3>1. CASE j = i
      BY <1>0, <1>2, <2>3, <3>1 DEF FixtureInv, OutputChecked
    <3>2. CASE j <= verify.checked
      BY <1>0, <2>3, <3>2 DEF FixtureInv, OutputChecked
    <3> QED
      BY <1>0, <2>3, <3>1, <3>2, Files
  <2> QED
    BY <1>0, <2>1, <2>2, <2>3, LockKept
       DEF FixtureInv, LockChecked, OutputChecked, NothingThrown, Running
<1>3. CASE Throw
  BY <1>0, <1>3, ThrowKeeps
<1> QED
  BY <1>0, <1>1, <1>2, <1>3, Files DEF verify_compare

\* The wallets are looked at last.
LEMMA WalletsKeeps ==
    ASSUME FixtureInv, verify_wallets, UNCHANGED <<generator, committed, lock, regen>>
    PROVE  FixtureInv'
<1>0. verify \in Verify /\ verify.pc = "wallets"
  BY DEF FixtureInv, FixtureTypeOK, verify_wallets
<1>1. CASE verify.version \in FundedWallets /\ Proceed("finally")
  <2>1. /\ verify' \in Verify /\ verify'.pc = "finally" /\ verify'.version = verify.version
        /\ verify'.quiet = verify.quiet
    BY <1>0, <1>1, Places DEF Proceed, Verify
  <2>2. FixtureTypeOK' /\ TemporaryInv'
    BY <1>0, <2>1 DEF FixtureInv, FixtureTypeOK, TemporaryInv
  <2> QED
    BY <1>0, <1>1, <2>1, <2>2, LockKept
       DEF FixtureInv, LockChecked, OutputChecked, NothingThrown, Running
<1>2. CASE Throw
  BY <1>0, <1>2, ThrowKeeps
<1> QED
  BY <1>1, <1>2 DEF verify_wallets

\* The finally block removes the directory and passes the error on, or says that it
\* could not.
LEMMA FinallyKeeps ==
    ASSUME FixtureInv, verify_finally, UNCHANGED <<generator, committed, lock, regen>>
    PROVE  FixtureInv'
<1>0. verify \in Verify /\ verify.pc = "finally"
  BY DEF FixtureInv, FixtureTypeOK, verify_finally
<1>1. CASE verify' = [verify EXCEPT !.temp = None,
                                    !.pc = IF verify.failure THEN "failed" ELSE "ok"]
  <2> DEFINE p == IF verify.failure THEN "failed" ELSE "ok"
  <2>1. /\ verify' \in Verify /\ verify'.pc = p /\ verify'.version = verify.version
        /\ verify'.quiet = verify.quiet /\ verify'.failure = verify.failure
        /\ verify'.temp = None
    <3>1. p \in Place
      BY Places
    <3>2. verify' = [verify EXCEPT !.temp = None, !.pc = p]
      BY <1>1
    <3> HIDE DEF p
    <3> QED
      BY <1>0, <3>1, <3>2 DEF Verify
  <2>2. FixtureTypeOK' /\ TemporaryInv'
    BY <1>0, <2>1 DEF FixtureInv, FixtureTypeOK, TemporaryInv
  <2> QED
    BY <1>0, <2>1, <2>2, LockKept
       DEF FixtureInv, LockChecked, OutputChecked, NothingThrown, Running
<1>2. CASE \/ ~verify.normalised /\ verify' = [verify EXCEPT !.pc = "failed"]
           \/ verify' = [verify EXCEPT !.pc = "failed", !.rmThrew = TRUE]
  <2>1. /\ verify' \in Verify /\ verify'.pc = "failed"
        /\ ~verify'.normalised \/ verify'.rmThrew
    BY <1>0, <1>2, Places DEF Verify
  <2> QED
    BY <1>0, <2>1 DEF FixtureInv, FixtureTypeOK, TemporaryInv, LockChecked, OutputChecked,
                      NothingThrown, Running
<1> QED
  BY <1>1, <1>2 DEF verify_finally

\* A killed run promises nothing.
LEMMA KilledKeeps ==
    ASSUME FixtureInv, verify_killed, UNCHANGED <<generator, committed, lock, regen>>
    PROVE  FixtureInv'
<1>1. verify' \in Verify /\ verify'.pc = "killed"
  BY Places DEF FixtureInv, FixtureTypeOK, Verify, verify_killed
<1> QED
  BY <1>1 DEF FixtureInv, FixtureTypeOK, TemporaryInv, LockChecked, OutputChecked,
              NothingThrown, Running

\* At first the committed files are the generator's and nothing has run.
LEMMA FixtureInitInv == FixtureInit => FixtureInv
<1> SUFFICES ASSUME FixtureInit PROVE FixtureInv
  OBVIOUS
<1>1. FixtureTypeOK
  <2>1. committed \in Content /\ generator \in Version
    BY DEF FixtureInit, Content
  <2>2. Content \subseteq Lock
    BY DEF Content, Lock
  <2>3. verify \in Verify
    BY <2>1, Places DEF FixtureInit, Verify
  <2> QED
    BY <2>1, <2>2, <2>3 DEF FixtureInit, FixtureTypeOK
<1> QED
  BY <1>1 DEF FixtureInit, FixtureInv, TemporaryInv, LockChecked, OutputChecked,
              NothingThrown, Running

-----------------------------------------------------------------------------
\* The invariant is inductive: a step of the verification adds what it has checked,
\* and a step of anybody else takes the conclusion away.
THEOREM FixtureInvariant == FixtureSpec => []FixtureInv
<1>1. FixtureInv /\ [FixtureNext]_fixtureVars => FixtureInv'
  <2> SUFFICES ASSUME FixtureInv, [FixtureNext]_fixtureVars PROVE FixtureInv'
    OBVIOUS
  <2>1. CASE Develop
    BY <2>1, DevelopKeeps
  <2>2. CASE VerifyStep
    <3>1. UNCHANGED <<generator, committed, lock, regen>>
      BY <2>2, VerifyStepReads
    <3> QED
      BY <2>2, <3>1, StartKeeps, HashKeeps, MkdtempKeeps, GenerateKeeps, CompareKeeps,
         WalletsKeeps, FinallyKeeps, KilledKeeps DEF VerifyStep
  <2>3. CASE UNCHANGED fixtureVars
    <3>1. \A f : Matches(f)' <=> Matches(f)
      BY <2>3 DEF fixtureVars, Matches
    <3>2. FixtureTypeOK' /\ TemporaryInv'
      BY <2>3 DEF fixtureVars, FixtureInv, FixtureTypeOK, TemporaryInv
    <3>3. LockMatches => LockMatches'
      BY <2>3, LockKept DEF fixtureVars
    <3>4. LockChecked => LockChecked'
      BY <2>3, <3>1, <3>3 DEF fixtureVars, LockChecked
    <3>5. OutputChecked /\ NothingThrown => OutputChecked' /\ NothingThrown'
      BY <2>3 DEF fixtureVars, OutputChecked, NothingThrown
    <3> QED
      BY <2>3, <3>2, <3>4, <3>5 DEF fixtureVars, FixtureInv
  <2> QED
    BY <2>1, <2>2, <2>3 DEF FixtureNext
<1> QED
  BY FixtureInitInv, <1>1, PTL DEF FixtureSpec

\* A verification that succeeded while nothing else moved means that the committed
\* files are the locked ones and the present generator's, for any lists of files.
THEOREM VerifiedIsConsistentInvariant == FixtureSpec => []VerifiedIsConsistent
<1>1. FixtureInv => VerifiedIsConsistent
  <2>1. LockMatches => lock # None /\ \A f \in DOMAIN lock : committed[f] = lock[f]
    BY DEF LockMatches, Matches
  <2> QED
    BY <2>1 DEF FixtureInv, LockChecked, OutputChecked, NothingThrown,
                VerifiedIsConsistent, Running
<1> QED
  BY <1>1, FixtureInvariant, PTL

\* A verification that succeeded has removed its temporary directory, and one that
\* failed has, unless the finally block could not.
THEOREM TemporaryRemovedInvariant == FixtureSpec => []TemporaryRemoved
<1>1. FixtureInv => TemporaryRemoved
  BY DEF FixtureInv, TemporaryInv, TemporaryRemoved
<1> QED
  BY <1>1, FixtureInvariant, PTL

\* No step of the verification writes the committed files.
THEOREM VerifyOnlyReadsProperty == FixtureSpec => VerifyOnlyReads
<1>1. FixtureInv /\ [FixtureNext]_fixtureVars
        => [[verify' EXCEPT !.quiet = TRUE] # [verify EXCEPT !.quiet = TRUE]
              => committed' = committed]_fixtureVars
  <2> SUFFICES ASSUME FixtureInv, FixtureNext,
                      [verify' EXCEPT !.quiet = TRUE] # [verify EXCEPT !.quiet = TRUE]
               PROVE  committed' = committed
    BY DEF fixtureVars
  <2>1. CASE VerifyStep
    BY <2>1, VerifyStepReads
  <2>2. CASE Develop
    <3>1. verify \in Verify /\ verify' = [verify EXCEPT !.quiet = FALSE]
      BY <2>2 DEF FixtureInv, FixtureTypeOK, Develop
    <3> QED
      BY <3>1 DEF Verify
  <2> QED
    BY <2>1, <2>2 DEF FixtureNext
<1> QED
  BY <1>1, FixtureInvariant, PTL DEF FixtureSpec, VerifyOnlyReads
=============================================================================
