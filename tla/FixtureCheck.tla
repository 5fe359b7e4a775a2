---------------------------- MODULE FixtureCheck ----------------------------
(***************************************************************************)
(* scripts/generate-test-fixtures.ts and scripts/verify-fixtures.mjs, with *)
(* a developer who edits the generator, the lock and the committed files   *)
(* and runs the generator in place, where it may be interrupted between    *)
(* two files.  A file's content is modelled by the version of the          *)
(* generator that wrote it, its hash by its content.                       *)
(***************************************************************************)
EXTENDS Integers, Sequences, SequencesExt

CONSTANTS
    IdentityFile,   \* the generated identity files, in the order they are written
    BinaryFile,     \* locked files that are not generated
    Version,        \* versions of the generator, and of a binary
    FundedWallets,  \* versions whose wallet fixtures are the expected ones
    None

ASSUME FixtureAssumption == /\ IdentityFile \in Seq(STRING)
                            /\ BinaryFile \in Seq(STRING)
                            /\ FundedWallets \subseteq Version
                            /\ None \notin Version

\* The files a lock may name, in its order.
LockedFile == BinaryFile \o IdentityFile

VARIABLES
    generator,  \* version of scripts/generate-test-fixtures.ts
    committed,  \* content of tests/fixtures
    lock,       \* fixture-lock.json: the content locked for each file it names, or
                \* None when its format is unsupported
    regen,      \* the generator running in place: version and next file, or None
    verify      \* the last run of verify-fixtures.mjs

fixtureVars == <<generator, committed, lock, regen, verify>>

Running == {"hash", "mkdtemp", "generate", "compare", "wallets", "finally"}

\* What a run of the verification has: the lock it read (until the loop over it
\* ends), how many files the loop it is in has dealt with, the generator's version and
\* output in the temporary directory (None when there is none), whether an error was
\* thrown in the try block, whether tmpdir() is a normalised path, whether removing
\* the directory threw, and whether nothing else moved meanwhile.
FixtureInit ==
    /\ generator \in Version
    /\ committed = [f \in ToSet(LockedFile) |-> generator]
    /\ lock = committed
    /\ regen = None
    /\ verify = [pc |-> "idle", failure |-> FALSE, lock |-> None, checked |-> 0,
                 version |-> generator, temp |-> None, normalised |-> TRUE,
                 rmThrew |-> FALSE, quiet |-> TRUE]

-----------------------------------------------------------------------------
\* The developer.
edit_generator(v) == generator' = v /\ UNCHANGED <<committed, lock, regen>>

edit_lock(content) == lock' = content /\ UNCHANGED <<generator, committed, regen>>

replace_binary(f, v) == /\ committed' = [committed EXCEPT ![f] = v]
                        /\ UNCHANGED <<generator, lock, regen>>

\* npm run fixtures:generate, without arguments.
regenerate ==
    /\ regen = None
    /\ regen' = [version |-> generator, next |-> 1]
    /\ UNCHANGED <<generator, committed, lock>>

regenerate_write ==
    /\ regen # None
    /\ committed' = [committed EXCEPT ![IdentityFile[regen.next]] = regen.version]
    /\ regen' = IF regen.next = Len(IdentityFile) THEN None
                ELSE [regen EXCEPT !.next = @ + 1]
    /\ UNCHANGED <<generator, lock>>

regenerate_interrupted == /\ regen # None
                          /\ regen' = None
                          /\ UNCHANGED <<generator, committed, lock>>

Develop ==
    /\ \/ \E v \in Version : edit_generator(v) \/ \E f \in ToSet(BinaryFile) : replace_binary(f, v)
       \/ edit_lock(None)
       \/ \E files \in SUBSET ToSet(LockedFile) : edit_lock(Restrict(committed, files))
       \/ regenerate \/ regenerate_write \/ regenerate_interrupted
    /\ verify' = [verify EXCEPT !.quiet = FALSE]

-----------------------------------------------------------------------------
\* Mutant: the arguments are not looked at.
parseOutputDirectory_default(args) == "tests/fixtures"

\* Where the generator writes: in place unless it is told a directory; None for the
\* usage error.
parseOutputDirectory(args) ==
    CASE args = <<>> -> "tests/fixtures"
      [] Len(args) = 2 /\ args[1] = "--output-dir" /\ args[2] # "" -> args[2]
      [] OTHER -> None

Proceed(label) == verify' = [verify EXCEPT !.pc = label, !.checked = 0]

\* An error in the try block.
Throw == verify' = [verify EXCEPT !.pc = "finally", !.failure = TRUE]

\* The lock is read once, at the start; an unsupported format ends the run.  TMPDIR
\* is whatever the caller has set.
verify_start ==
    /\ verify.pc \notin Running
    /\ \E normalised \in BOOLEAN :
         verify' = [pc |-> IF lock = None THEN "failed" ELSE "hash",
                    failure |-> FALSE, lock |-> lock, checked |-> 0,
                    version |-> generator, temp |-> None, normalised |-> normalised,
                    rmThrew |-> FALSE, quiet |-> TRUE]
    /\ UNCHANGED committed

\* The loop is over the lock's own entries: a file it does not name is not looked at.
verify_hash ==
    LET i == verify.checked + 1
        f == LockedFile[i]
    IN  /\ verify.pc = "hash"
        /\ IF i > Len(LockedFile)
             THEN verify' = [verify EXCEPT !.pc = "mkdtemp", !.checked = 0, !.lock = None]
           ELSE IF f \in DOMAIN verify.lock => committed[f] = verify.lock[f]
             THEN verify' = [verify EXCEPT !.checked = i]
             ELSE verify' = [verify EXCEPT !.pc = "failed", !.lock = None]
        /\ UNCHANGED committed

\* The directory is made, or cannot be, which ends the run before the try block.
verify_mkdtemp ==
    /\ verify.pc = "mkdtemp"
    /\ \/ verify' = [verify EXCEPT !.pc = "generate", !.temp = <<>>, !.version = generator]
       \/ verify' = [verify EXCEPT !.pc = "failed"]
    /\ UNCHANGED committed

\* The generator as a child process, which may fail after any file.
verify_generate ==
    LET i == verify.checked + 1
        written == [verify EXCEPT !.checked = i]
    IN  /\ verify.pc = "generate"
        /\ \/ Throw /\ UNCHANGED committed
           \/ i > Len(IdentityFile) /\ Proceed("compare") /\ UNCHANGED committed
           \/ /\ i <= Len(IdentityFile)
              /\ IF parseOutputDirectory(<<"--output-dir", "temporary">>) = "temporary"
                   THEN /\ verify' = [written EXCEPT !.temp = Append(@, verify.version)]
                        /\ UNCHANGED committed
                   ELSE /\ verify' = written
                        /\ committed' = [committed EXCEPT ![IdentityFile[i]] = verify.version]

\* Mutant: the last file is never reached.
verify_compare_short ==
    LET i == verify.checked + 1
    IN  /\ verify.pc = "compare"
        /\ IF i >= Len(IdentityFile) THEN Proceed("wallets")
           ELSE IF i <= Len(verify.temp) /\ committed[IdentityFile[i]] = verify.temp[i]
             THEN verify' = [verify EXCEPT !.checked = i]
             ELSE Throw
        /\ UNCHANGED committed

\* Committed and generated bytes, file by file; a missing file is an error too.
verify_compare ==
    LET i == verify.checked + 1
    IN  /\ verify.pc = "compare"
        /\ IF i > Len(IdentityFile) THEN Proceed("wallets")
           ELSE IF i <= Len(verify.temp) /\ committed[IdentityFile[i]] = verify.temp[i]
             THEN verify' = [verify EXCEPT !.checked = i]
             ELSE Throw
        /\ UNCHANGED committed

\* Mutant: the wallets are checked after the finally block would have run.
verify_wallets_outside_try ==
    /\ verify.pc = "wallets"
    /\ IF verify.version \in FundedWallets THEN Proceed("finally")
       ELSE Proceed("failed")
    /\ UNCHANGED committed

verify_wallets ==
    /\ verify.pc = "wallets"
    /\ IF verify.version \in FundedWallets THEN Proceed("finally") ELSE Throw
    /\ UNCHANGED committed

\* The directory's parent, a normalised path, is compared with tmpdir(), which need
\* not be one: an error refuses the removal then.  rmSync may throw too.  Either
\* leaves the directory and ends the run, whatever the try block did.
verify_finally ==
    /\ verify.pc = "finally"
    /\ \/ /\ verify.normalised
          /\ verify' = [verify EXCEPT !.temp = None,
                                      !.pc = IF verify.failure THEN "failed" ELSE "ok"]
       \/ ~verify.normalised /\ verify' = [verify EXCEPT !.pc = "failed"]
       \/ /\ verify.normalised
          /\ verify' = [verify EXCEPT !.pc = "failed", !.rmThrew = TRUE]
    /\ UNCHANGED committed

\* A signal ends node without the finally block.
verify_killed == /\ verify.pc \in Running
                 /\ verify' = [verify EXCEPT !.pc = "killed"]
                 /\ UNCHANGED committed

VerifyStep ==
    /\ \/ verify_start \/ verify_hash \/ verify_mkdtemp \/ verify_generate
       \/ verify_compare \/ verify_wallets \/ verify_finally \/ verify_killed
    /\ UNCHANGED <<generator, lock, regen>>

FixtureNext == Develop \/ VerifyStep

FixtureSpec == FixtureInit /\ [][FixtureNext]_fixtureVars

-----------------------------------------------------------------------------
\* A verification that succeeded while nothing else moved means what CI takes it
\* to mean: every file the lock names is the locked one, every identity fixture comes
\* from the generator as it is now, whether the lock names it or not, and so do the
\* wallets the localnet run will load beside them.  No edit, no half-finished
\* regeneration and no lock made from one, in whole or in part, gets through.
VerifiedIsConsistent ==
    (verify.pc = "ok" /\ verify.quiet)
      => /\ lock # None
         /\ \A f \in DOMAIN lock : committed[f] = lock[f]
         /\ \A f \in ToSet(IdentityFile) : committed[f] = generator
         /\ generator \in FundedWallets

\* A verification that succeeds leaves no temporary directory, and one that fails by
\* itself leaves one only where the finally block could not remove it: with a TMPDIR
\* that is not normalised, or when rmSync threw.  An error of the generator or of a
\* comparison never does.
TemporaryRemoved ==
    /\ verify.pc = "ok" => verify.temp = None
    /\ (verify.pc = "failed" /\ verify.temp # None)
         => ~verify.normalised \/ verify.rmThrew

\* Verifying never writes the committed fixtures, though it runs the program that
\* does: CI asks afterwards whether they changed.
VerifyOnlyReads ==
    [][[verify' EXCEPT !.quiet = TRUE] # [verify EXCEPT !.quiet = TRUE]
         => committed' = committed]_fixtureVars
=============================================================================
