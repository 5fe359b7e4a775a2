-------------------------- MODULE LocalnetHarness --------------------------
(***************************************************************************)
(* scripts/test-localnet.sh: a shell script that starts a validator in the *)
(* background, waits for it, runs the tests against it and cleans up in an *)
(* EXIT trap.  Several runs of it share the machine's three ports, which   *)
(* one validator takes and releases together, and INT or TERM may reach a  *)
(* run between any two of its commands.  The validator is external: it     *)
(* binds the ports or dies, may crash, and ends some time after TERM.      *)
(***************************************************************************)
EXTENDS Integers, Sequences

CONSTANTS
    Harness,        \* runs of the script
    None,
    READY_PROBES,   \* probes of the validator before the run gives up (60)
    PORT_CHECKS,    \* looks at the ports before cleanup gives up (50)
    MAX_SIGNALS     \* bound: signals a run receives

ASSUME HarnessAssumption == /\ None \notin Harness
                            /\ READY_PROBES \in Nat \ {0}
                            /\ PORT_CHECKS \in Nat \ {0}
                            /\ MAX_SIGNALS \in Nat

VARIABLES
    run,    \* the state of each run of the script
    port    \* the run whose validator listens, or None

harnessVars == <<run, port>>

Untrapped == {"check", "probe", "mktemp", "trap"}

Trapped == {"generate", "spawn", "record", "poll", "alive", "test", "report"}

Cleanup == {"cleanup", "wait", "ports", "remove"}

Run == [pc : Untrapped \union Trapped \union Cleanup \union {"exited"},
        status : {0, 1, 130, 143},
        dir : BOOLEAN,              \* RUN_DIRECTORY exists
        child : {"none", "starting", "serving", "stopping", "dead"},
        pid : BOOLEAN,              \* VALIDATOR_PID is set
        tries : Nat,                \* rounds of the loop it is or was last in
        ledger : Harness \union {None},    \* whose validator answered
        passed : BOOLEAN,           \* npm test succeeded
        rmFailed : BOOLEAN,         \* RUN_DIRECTORY could not be removed
        hits : Seq(Untrapped \union Trapped \union Cleanup)]  \* where signals struck

\* The readiness loop stays below its limit, and the loop over the ports, which uses
\* the counter from cleanup on, below its own.
WithinLimit(r) ==
    /\ r.pc \notin {"wait", "ports", "remove", "exited"} => r.tries < READY_PROBES
    /\ r.pc \in {"wait", "ports", "remove"} => r.tries < PORT_CHECKS

\* Every run has its type, and each of its two loops keeps to its own limit,
\* whichever is the larger.
HarnessTypeOK == /\ run \in [Harness -> Run]
                 /\ \A h \in Harness : WithinLimit(run[h])
                 /\ port \in Harness \union {None}

HarnessInit ==
    /\ run = [h \in Harness |->
                [pc |-> "check", status |-> 0, dir |-> FALSE, child |-> "none",
                 pid |-> FALSE, tries |-> 0, ledger |-> None, passed |-> FALSE,
                 rmFailed |-> FALSE, hits |-> <<>>]]
    /\ port = None

Alive(h) == run[h].child \notin {"none", "dead"}

\* Only run h moves, to state r.
Become(h, r) == run' = [run EXCEPT ![h] = r] /\ UNCHANGED port

Goto(h, label) == Become(h, [run[h] EXCEPT !.pc = label])

\* The shell ends without a trap, and with the EXIT trap.
Die(h, code) == Become(h, [run[h] EXCEPT !.pc = "exited", !.status = code])

Exit(h, code) == Become(h, [run[h] EXCEPT !.pc = "cleanup", !.status = code])

-----------------------------------------------------------------------------
\* Commands and files the run needs are there, or it ends.
check_inputs(h) == /\ run[h].pc = "check"
                   /\ Goto(h, "probe") \/ Die(h, 1)

probe_ports(h) == /\ run[h].pc = "probe"
                  /\ IF port # None THEN Die(h, 1) ELSE Goto(h, "mktemp")

make_run_directory(h) ==
    /\ run[h].pc = "mktemp"
    /\ \/ Become(h, [run[h] EXCEPT !.pc = "trap", !.dir = TRUE])
       \/ Die(h, 1)

set_traps(h) == run[h].pc = "trap" /\ Goto(h, "generate")

generate_fixtures(h) == /\ run[h].pc = "generate"
                        /\ Goto(h, "spawn") \/ Exit(h, 1)

spawn_validator(h) ==
    /\ run[h].pc = "spawn"
    /\ Become(h, [run[h] EXCEPT !.pc = "record", !.child = "starting"])

record_pid(h) == /\ run[h].pc = "record"
                 /\ Become(h, [run[h] EXCEPT !.pc = "poll", !.pid = TRUE])

\* The probe asks whoever listens on the RPC port for the payer's balance, and
\* may fail for reasons of its own.
poll_ready(h) ==
    /\ run[h].pc = "poll"
    /\ \/ /\ port # None
          /\ Become(h, [run[h] EXCEPT !.pc = "test", !.ledger = port])
       \/ Goto(h, "alive")

\* Mutant: a loop without an end.
check_alive_forever(h) ==
    /\ run[h].pc = "alive"
    /\ IF Alive(h) THEN Goto(h, "poll") ELSE Exit(h, 1)

\* Once more, unless the validator has died or the probes are used up.
check_alive(h) ==
    /\ run[h].pc = "alive"
    /\ IF Alive(h) /\ run[h].tries + 1 < READY_PROBES
         THEN Become(h, [run[h] EXCEPT !.pc = "poll", !.tries = @ + 1])
         ELSE Exit(h, 1)

\* The tests need the validator they started on to the end.
npm_test(h) ==
    /\ run[h].pc = "test"
    /\ \/ /\ port = run[h].ledger
          /\ Become(h, [run[h] EXCEPT !.pc = "report", !.passed = TRUE])
       \/ Exit(h, 1)

report(h) == run[h].pc = "report" /\ Exit(h, 0)

-----------------------------------------------------------------------------
\* Mutant: the status is read after another command has replaced it.
cleanup_kill_loses_status(h) ==
    /\ run[h].pc = "cleanup"
    /\ IF run[h].pid /\ Alive(h)
         THEN Become(h, [run[h] EXCEPT !.pc = "wait", !.child = "stopping",
                                       !.tries = 0, !.status = 0])
         ELSE Become(h, [run[h] EXCEPT !.pc = "ports", !.tries = 0, !.status = 0])

\* The status is kept; the validator gets a TERM if its pid is known.
cleanup_kill(h) ==
    /\ run[h].pc = "cleanup"
    /\ IF run[h].pid /\ Alive(h)
         THEN Become(h, [run[h] EXCEPT !.pc = "wait", !.child = "stopping", !.tries = 0])
         ELSE Become(h, [run[h] EXCEPT !.pc = "ports", !.tries = 0])

\* Mutant: cleanup does not wait for the validator to end.
cleanup_wait_skipped(h) == run[h].pc = "wait" /\ Goto(h, "ports")

cleanup_wait(h) == run[h].pc = "wait" /\ ~Alive(h) /\ Goto(h, "ports")

\* Mutant: one look too many.
cleanup_ports_once_more(h) ==
    /\ run[h].pc = "ports"
    /\ IF port = None THEN Goto(h, "remove")
       ELSE IF run[h].tries < PORT_CHECKS
         THEN Become(h, [run[h] EXCEPT !.tries = @ + 1])
         ELSE Become(h, [run[h] EXCEPT !.pc = "remove", !.status = 1])

\* The ports may be some other process's: it is waited for all the same.
cleanup_ports(h) ==
    /\ run[h].pc = "ports"
    /\ IF port = None THEN Goto(h, "remove")
       ELSE IF run[h].tries + 1 < PORT_CHECKS
         THEN Become(h, [run[h] EXCEPT !.tries = @ + 1])
         ELSE Become(h, [run[h] EXCEPT !.pc = "remove", !.status = 1])

\* rm may fail, because a validator of this run is still writing there or for any
\* other reason; the shell ends with it.
cleanup_remove(h) ==
    /\ run[h].pc = "remove"
    /\ \/ Become(h, [run[h] EXCEPT !.pc = "exited", !.dir = FALSE])
       \/ Become(h, [run[h] EXCEPT !.pc = "exited", !.status = 1, !.rmFailed = TRUE])

\* A signal before the traps are set, or in cleanup, ends the shell where it is;
\* otherwise the trap exits, and the EXIT trap runs.
signal(h, code) ==
    /\ run[h].pc # "exited"
    /\ Len(run[h].hits) < MAX_SIGNALS
    /\ Become(h, [run[h] EXCEPT
                     !.pc = IF @ \in Trapped THEN "cleanup" ELSE "exited",
                     !.status = code,
                     !.hits = Append(@, run[h].pc)])

-----------------------------------------------------------------------------
\* The validator: its ports are free and it serves, or it dies.
bind(h) ==
    /\ run[h].child = "starting"
    /\ IF port = None
         THEN run' = [run EXCEPT ![h].child = "serving"] /\ port' = h
         ELSE run' = [run EXCEPT ![h].child = "dead"] /\ UNCHANGED port

Ends(h) == /\ run' = [run EXCEPT ![h].child = "dead"]
           /\ port' = IF port = h THEN None ELSE port

crash(h) == run[h].child \in {"starting", "serving"} /\ Ends(h)

stop(h) == run[h].child = "stopping" /\ Ends(h)

-----------------------------------------------------------------------------
Step(h) ==
    \/ check_inputs(h) \/ probe_ports(h) \/ make_run_directory(h) \/ set_traps(h)
    \/ generate_fixtures(h) \/ spawn_validator(h) \/ record_pid(h)
    \/ poll_ready(h) \/ check_alive(h) \/ npm_test(h) \/ report(h)
    \/ cleanup_kill(h) \/ cleanup_wait(h) \/ cleanup_ports(h) \/ cleanup_remove(h)

HarnessNext ==
    \E h \in Harness :
        \/ Step(h)
        \/ \E code \in {130, 143} : signal(h, code)
        \/ bind(h) \/ crash(h) \/ stop(h)

\* The shell keeps executing, every command it waits for returns, a validator
\* gets to bind or fail, and one that was told to end ends.
HarnessFairness ==
    \A h \in Harness : WF_run(Step(h)) /\ WF_run(bind(h)) /\ WF_run(stop(h))

HarnessSpec == HarnessInit /\ [][HarnessNext]_harnessVars /\ HarnessFairness

-----------------------------------------------------------------------------
\* A signal struck between mktemp and the traps, between the start of the validator
\* and the line that remembers its pid, or in cleanup.
StruckInWindow(h) ==
    \E i \in 1 .. Len(run[h].hits) : run[h].hits[i] \in {"trap", "record"} \union Cleanup

\* When a run has ended, its validator has ended and its directory is gone,
\* whatever failed on the way and wherever a single command was interrupted, with
\* the exception of a signal in one of the three windows.  The directory also stays
\* when rm itself fails; the validator does not.
LeaksOnlyInWindows ==
    \A h \in Harness :
        run[h].pc = "exited"
          => /\ Alive(h) => StruckInWindow(h)
             /\ run[h].dir => StruckInWindow(h) \/ run[h].rmFailed

\* A run that reports success ran the tests to a successful end and left neither
\* validator nor directory: no failure on the way, timeout or signal, in the run
\* or in its cleanup, ends as success.
SuccessIsEarned ==
    \A h \in Harness :
        (run[h].pc = "exited" /\ run[h].status = 0)
          => run[h].passed /\ ~run[h].dir /\ ~Alive(h)

\* Every run ends: no loop, wait or port held by another run keeps it forever.
EveryRunEnds == \A h \in Harness : <>(run[h].pc = "exited")

\* What the README says of the command: it runs the tests on "an isolated ledger",
\* the one of the validator it started.
IsolatedLedger == \A h \in Harness : run[h].ledger \in {None, h}
=============================================================================
