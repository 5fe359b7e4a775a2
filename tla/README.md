# A TLA+ model of the Entros voter weight plugin

`programs/entros-voter-weight` is an Anchor program that spl-governance consults
for the weight of a vote. Every wallet with a recent enough Entros identity and a
high enough trust score gets weight 1, for a few slots or for one action in one
slot; the realm's authority sets the configuration and the quorum denominator.
This directory models the program and the scripts that test it, checks them with
TLC on small instances, and proves the program's main properties with TLAPS for
every value of the constants.

## 1. Inventory of the system

| Component | State | Operations | Depends on |
|---|---|---|---|
| Registrar (`instructions/{create,update,close}_registrar.rs`, `state/registrar.rs`) | one account per (realm, mint): governance program, realm, mint, minimum score, maximum age | create, update, close, by the realm's authority | realm accounts of spl-governance |
| Gate (`verify_voter_identity_and_recency`) | none | one pure check, used by both updates | registrar, record, signer, the first remaining account, the clock |
| Voter weight records (`{create,update,close}_voter_weight_record.rs`) | one account per (realm, mint, wallet): weight, expiry slot, bound action and target | create (expired), general update, action-bound update, close, by the voter | registrar, gate, clock |
| Max voter weight records (`{create,update}_max_voter_weight_record.rs`) | one account per (realm, mint): weight, expiry | create (zero, expired), update, by the realm's authority; no close | registrar, realm |
| Entry point (`lib.rs`) | none | dispatches the nine instructions; Anchor's `init` and `close` move rent | all of the above |
| Record wrappers (`governance.rs`) | byte layout of the two record types | Borsh encode and decode; loading by owner | - |
| spl-governance (external) | reads the records | accepts or refuses a record for an action on a target | clock, records |
| Entros Anchor (external) | identity accounts | creates, verifies, rescores, closes identities | - |
| Localnet harness (`scripts/test-localnet.sh`) | a temporary directory, a validator process, three ports | start, poll for readiness, test, clean up on exit or signal | the operating system |
| Fixtures (`scripts/generate-test-fixtures.ts`, `verify-fixtures.mjs`, `fixture-lock.json`) | fixture files and their hashes | generate, compare | - |
| Devnet script, tests | none | sequences of client calls | - |

How the parts interact. There are no calls between the plugin's instructions:
they meet in the accounts. A record is written in one transaction and read by
governance in that one or in a later one. The registrar, the realm, the identity
and the clock are each changed by somebody else between two instructions on a
record, and a caller chooses freely which registrar, record, signer, realm and
identity account to pass to an instruction.

What is hard about it:

* **Stale state.** A weight outlives the eligibility it was given for; a registrar
  outlives the authority and the mint that configured it; records outlive the
  registrar.
* **Account substitution.** Registrar, record, realm and identity are separate
  arguments; an update does not derive the record's address again but believes
  the record's fields.
* **Sequences of updates.** General and action-bound updates overwrite each
  other's four fields in any order.
* **Numeric edges.** An i64 subtraction of foreign data with a fallback, a
  saturating u64 addition, ages of zero, and an expiry of slot 0 that means
  "expired" except in slot 0.
* **Rent.** Lamports move on every create and close, to wallets that the caller
  names.
* **Layout.** The records are foreign structs with optional fields in accounts of a
  fixed size, loaded by owner alone and read by clients at fixed offsets.
* **Processes.** The localnet script has a child process, shares ports with other
  runs and may be interrupted between any two commands; fixtures are regenerated
  file by file while a verification may be reading them.

What makes each component correct:

* Gate: it opens exactly for the voter's own, recent and sufficient identity, at
  every boundary of the integers; a refusal does not end by waiting.
* Registrar: at its own address, for the program that owns the realm, never with
  an age that shuts everybody out, only changed by its own realm's authority.
* Voter weight record: belongs to the wallet in its address, has one of three
  shapes, and is renewed only for a voter eligible at that moment, who can always
  do so.
* Use: a record is accepted for what was last asked for and nothing else, and
  not later than the window after eligibility ended.
* Max voter weight record: a live denominator is positive and stays set.
* Program: lamports are conserved; towards governance, a record is a lease on one
  vote (`WeightLease`).
* Layout: an account reads back as what was last written to it, always fits its
  space, is not taken for another type, and is where clients look. The third of these
  fails in one case (section 4), and the models show that there is no other.
* Localnet script: it ends, leaves nothing behind and reports success only when it
  was one, wherever it fails or is interrupted, short of three windows for a signal
  and a failing `rm`.
* Fixture verification: success means that lock, files and generator agree; it
  changes nothing and removes its temporary directory, or fails.

`PROJECT.json` lists the hazards line by line with the properties that cover them.

## 2. Modules

```
Accounts ---- Eligibility ---- EligibilityCheck           (gate, repeated calls)
   |               |
 Chain             |
   |               |
Registrar ---- VoterWeight ---- GovernanceUse             (records, and their use)
   |               |
   |               +----------- VoterLease ==> WeightLease  (refinement)
MaxVoterWeight ----+----------- VoterWeightPlugin         (all nine instructions)

RecordCodec    LocalnetHarness    FixtureCheck            (on their own)
```

Each line to the right or down is an `EXTENDS`; `==>` is the `INSTANCE` through which
`VoterLease` implements `WeightLease`. `*Proofs` modules extend the
module they are about (`VoterWeightProofs` also proves `Registrar`'s properties and the refinement of
`VoterLease`, `VoterWeightPluginProofs` also proves `MaxVoterWeight`'s properties), and `MC*` modules
instantiate one for TLC.

| Module | Models | State and actions |
|---|---|---|
| `Accounts` | account types, seeds, integer widths | constants and types only |
| `Eligibility` | `verify_voter_identity_and_recency` | an operator that returns the first error or `"Ok"`; `GateOpen` is the documented rule over unbounded integers |
| `EligibilityCheck` | a voter who repeats one call | `call`, `unix_timestamp`, `result`; `Retry` |
| `Chain` | external: clock, realms, identities, balances | `clock`, `realm`, `identity`, `lamports`; `tick`, `set_realm_authority`, `set_realm_config`, `write_identity` |
| `Registrar` | registrar instructions | `registrar`; `create_registrar`, `update_registrar`, `close_registrar` |
| `VoterWeight` | voter weight record instructions | `vwr`; `create_`, `update_`, `close_voter_weight_record`, `update_voter_weight_record_for_action` |
| `MaxVoterWeight` | max voter weight record instructions | `maxvwr`; `create_`, `update_max_voter_weight_record` |
| `VoterWeightPlugin` | the program as a whole | all nine instructions, one at a time, with `update_max_voter_weight_record_of_voter` for the voter weight records that load as max records |
| `GovernanceUse` | external: governance reading a record | history `lastEligible`, `requested`; predicate `Accepts` |
| `WeightLease` | abstract: what the records promise governance | `slot`, `eligible`, `lease`, `barred`; `Take`, `GiveUp`, `Bar`, `Readmit`, `Environment` |
| `VoterLease` | the refinement mapping from `VoterWeight` to `WeightLease` | none of its own |
| `RecordCodec` | the wrappers of `governance.rs` and the accounts' bytes | `owner`, `data`, `written`, `outcome`; the six instructions that write records, on any account of the program |
| `LocalnetHarness` | `scripts/test-localnet.sh`, several runs of it | `run`, `port`; one action per command that changes state or may fail, `signal`, and the external validator (`bind`, `crash`, `stop`) |
| `FixtureCheck` | `generate-test-fixtures.ts`, `verify-fixtures.mjs` and a developer | `generator`, `committed`, `lock`, `regen`, `verify`; one action per read, write or comparison |

### Correspondence with the code

* **An instruction is one atomic action.** Solana commits all effects of a
  transaction or none, and transactions that write an account are serialised.
  Anchor's account constraints, the handler's `require!`s and its early returns
  are the guards of the action; the assignments are its primed variables. A
  failing call changes nothing, so it is no step. Only the gate keeps its error
  values, because a property is about them.
* **Addresses are seeds.** A program derived address is the tuple of its seeds;
  two addresses are equal when their seeds are. `IsRegistrar` is the seeds
  constraint on the registrar, `RecordUnder` the two constraints on the record.
  The address of a record is *not* checked again on update or close, in the model
  as in the code; that it need not be for registrar and voter instructions is theorem
  `RecordAtItsAddressInvariant`, and how far it need not be for all nine is
  `VoterKeepsRecordInvariant`.
* **Records of the other type.** `Account<MaxVoterWeightRecord>` loads every account of the
  program that decodes as one. `RecordCodec` works out which those are: a voter weight
  record of the same realm and mint, if byte 8 of its owner's key is 0 or 1. Without
  bytes, `VoterWeightPlugin` has the first eight bytes of each wallet's key and the ninth as
  constants, `KeyHead` and `KeyTag`; `TagKey` is the set of wallets with such a ninth byte.
  `LoadsAsMaxRecord` is the load, `update_max_voter_weight_record_of_voter` the instruction on
  such a record: its owner becomes `None`, no wallet's key, which loads again. Only
  a weight that spells the first bytes of the key itself, with a ninth of 0, leaves the owner
  as it was or restores it (`OwnerAfter`). That an overwritten key is by chance some
  other wallet's is left out: 24 of its bytes would have to agree. The
  other way round no load succeeds: a max record is too short for a voter's, and
  a registrar has the governance program's key where the realm would have to be.
* **Accounts are independent arguments.** Each account of an instruction is bound
  by its own quantifier, so TLC and the proofs cover every combination a caller
  may pass.
* **Options.** `None` is Rust's `None` and an account that does not exist.
* **Integers.** `I64_MAX` and `U64_MAX` are constants: `Age` is
  `checked_sub(..).unwrap_or(i64::MAX)`, `saturating_add` is u64's. The runs use
  small widths, so that behaviour at both ends is reached; the proofs hold for
  any width. Scores are naturals: the code only compares them.
* **Names and payloads.** The five governance actions are strings; targets are
  model values. `into` is written arm by arm as in the code.
* **The identity account** is its owner, its length, its type and the two integers
  at the offsets the code reads. "No account" is one owned by the system program
  with no data.
* **Remaining accounts.** In `EligibilityCheck`, up to two, of any content; the
  code looks at the first only. In `VoterWeight`, none or one, at any wallet's
  identity address: an account at another address fails the address check.
* **Leases.** A record stands for a lease while its weight is positive and its expiry not
  past; its voter is barred while the owner in it is not the wallet in its address, as
  governance does not accept the record then. The lease's scope is `<<>>` for every action, or the action and target it is
  bound to. Eligibility in `WeightLease` is `Eligible`, the documented rule under
  the registrar of the record's own address; anything the chain does is a change
  of eligibility or of the slot.
* **Bytes.** In `RecordCodec` a layout is a sequence of fields with sizes and
  optionality, taken from the addin API's structs as `get_space` adds them up.
  `Save` writes an encoding over the start of the old data, so that what a
  shorter record leaves behind it is there to be misread. A key, number or
  discriminator is one byte repeated, any byte; a read that strays out of its field
  meets a different byte, and decodes to no value. The voter's key is chosen at the
  start: repeated, its byte is also its byte 8. `written` has the last record of each
  type written to each account, so an account taken for both types has two.
* **Commands.** In `LocalnetHarness` a shell command is a step, and a signal falls
  between two steps, as Bash runs a trap after the command it was waiting for.
  Before the traps are set, and in cleanup, which removes the EXIT trap first, a
  signal ends the shell at once. Commands that may fail (`mktemp`, the generator, the
  tests, `rm` in cleanup) have both outcomes, whatever the reason. The branch that refuses
  to remove the directory (lines 118-121) is not reached: the directory's name is the
  pattern's. The script's three ports are one: a validator takes
  and releases all of them. `hits` records where signals struck, for
  `LeaksOnlyInWindows`.
* **Files.** In `FixtureCheck` the content of a file is the version of the generator
  that wrote it, and its hash is its content: SHA-256 is taken to be injective. The
  lock is a function on the files it names, any subset of those it should name; one
  that names a file that does not exist fails as a wrong hash does. Whether
  `tmpdir()` is a normalised path is chosen when a verification starts: `join` and
  `dirname` normalise, so that the `finally` block finds another parent and refuses
  if it is not. `rmSync` may throw as well.
* **Mutants** (operators named after a definition with a suffix) stand before the
  definition they vary and are used by nothing else; they show that the
  properties are able to fail.

### Abstractions

Transaction fees, compute limits, and lamports sent to an address before `init`
are left out. Wallets are the only payers and destinations. The realm keeps the
governance program and the community mint it was created with; its authority and
council mint change freely while it has an authority. In `MaxVoterWeight` and in
`VoterWeight` an instruction's record argument ranges over the records of its type,
and properties of these two are about their own instructions; the composition in
`VoterWeightPlugin` has the one instruction that takes a record of the other type,
and the theorems about the whole program include it. `ByteAssumption` says no more
than that bytes are bytes and that the realm's address is not the governance program's.

## 3. Runs

All passing runs finish within two minutes. The specifications of the program state no
fairness: it runs only when it is called, nothing in it or around it promises a
call, and so nothing is claimed to happen eventually. What can be said without a
promise is said as a state predicate: `EligibleCanRenew` is that the accounts for a
successful update exist. The localnet script does run by itself, and
`HarnessFairness` states weak fairness of its steps, of a validator's binding or
failing to bind, and of the end of a validator that was sent TERM. That is: the
shell keeps executing, every command it waits for returns, and the validator
honours TERM, without which `wait` (line 91) has no bound. There is no fairness on
signals, crashes or the outcomes of commands.

| Run | Instance | States | What it shows |
|---|---|---|---|
| `eligibility` | i64 is -4..3; all timestamps, two scores, two wallets, every malformed account, none to two accounts | 63,552 | `GateExact`, `DiagnosisAccurate`, `LapsesForGood` |
| `voter_mints` | one wallet, two mints, slots 0..3, window 2 | 84,780 | `VoterTypeOK`, `RecordShape`, `EligibleCanRenew`, `RenewalRequiresEligibility` across registrars |
| `realm_admin` | two realms with different community mints that may share them as council mints; a second governance program; two authorities, symmetric; ages 0..2, weights 0..1, slot 1 | 295,245 | `RegistrarSound`, `FrozenWithoutAuthority`, `ChangesOnlyWithMint`, `LiveQuorumPositive`, `QuorumStaysSet`, `QuorumNeedsRegistrar` |
| `governance_use` | one voter, two actions, two targets, slots 0..4, window 2 | 20,604 | `RevocationBound`, `AcceptedAsRequested` |
| `plugin` | all nine instructions, two wallets with 6 lamports each, of which one is in `TagKey` and can be restored, rents 1, 2 and 4, slots 0..2, window 1 | 323,808 | `PluginTypeOK`, `LamportsConserved`, `VoterKeepsRecord`, `RenewalRequiresEligibility` across wallets, `ImplementsLease` |
| `record_codec` | one realm, mint and voter, whose key is of bytes 0, 1 or 13; targets of which one is the realm; numbers 0, 1 and 5 | 6,792 | `ReadsBackUnlessTag`, `AlwaysFits`, `ClientOffsets` |
| `localnet_harness` | two runs, three probes, two looks at the ports, two signals each | 480,560 | `HarnessTypeOK`, `LeaksOnlyInWindows`, `SuccessIsEarned`, `EveryRunEnds` |
| `fixture_check` | two generator versions, one of them with wrong wallets; a binary and two identity files, locks of any of them | 1,846,722 | `VerifiedIsConsistent`, `TemporaryRemoved`, `VerifyOnlyReads` |
| `isolated_ledger` | as `localnet_harness` | violation | section 4 |
| `future_timestamp` | as `eligibility` | violation | section 4 |
| `record_confusion` | as `record_codec` | violation | section 4 |
| `record_closable` | as `plugin`, in one slot | violation | section 4 |

Why the bounds are enough to be interesting. Two of a thing (realms, mints,
wallets, programs, actions, targets) is what a substitution needs. With a window of 2
and slots up to 3 or 4 a record can be within its window, past it, and written so
late that the expiry saturates. Seconds go from 0 to 2 by steps of 0 or 2 with
a maximum age of 2, so a verification of second 0 lapses while one of second 2
does not. Three different rents cannot be confused in a sum. Bytes 0 and 1 of
`record_codec` are those that can be taken for an option's tag. Two runs of the
script are what a race for the ports needs; of two signals the second can strike
the cleanup that the first began; the code's 60 probes and 50 looks repeat what three
and two do, different from one another so that neither loop can hide behind the other's
limit, and `READY_PROBES` and `PORT_CHECKS` are parameters. The named bounds are
`LAST_TIME` (the clock stops), `U64_MAX` (the last slot), `MAX_SIGNALS` and the
`...Arg` sets (arguments of instructions). What the bounds leave open is what the proofs are for.

`eligibility` switches the deadlock check off, as the clock stops at the end of i64,
and the harness runs do, as every run ends. In the other runs some instruction or a
step of the environment is always enabled.

Not obvious from the names:

* `RevocationBound` counts inclusively: a record written in slot `s` is accepted
  in slots `s .. s + window`, which are window + 1 slots. An action-bound record
  is accepted only in a slot in which its voter was eligible.
* `AcceptedAsRequested` is an equivalence, so it also says that an update is never
  refused in its own transaction.
* `ReadsBackUnlessTag` also shows what no discriminator check does: it compares what
  is in each account with what was meant for *that* account, so an update that took
  the registrar or a max record for a voter's record would break it, and it says
  exactly what becomes of a voter's record taken for a max record: all but the owner
  is as it was.
* `VoterKeepsRecord` is `RecordAtItsAddress` and `EligibleCanRenew` for the whole program,
  with that exception.
* `LeaksOnlyInWindows` names the places where the script can leave a validator or
  its directory: between `mktemp` and the traps, between the start of the
  validator and the line that remembers its pid, and inside cleanup. A single
  signal anywhere else leaves nothing. An `rm` that fails leaves the directory, and
  never a validator that no signal left.
* `HarnessTypeOK` gives each loop its own limit: the counter is below `READY_PROBES` until
  cleanup has looked for the validator, and below `PORT_CHECKS` from then on.
* `TemporaryRemoved` allows a directory to stay after a failed verification only where
  `finally` refused (`verify-fixtures.mjs:86-91`, with a `TMPDIR` that is not normalised) or
  `rmSync` threw; success always means that it is gone.
* `SuccessIsEarned` says that status 0 is never reached by a way through the traps
  that hides a failure: tests passed, no validator, no directory.
* `VerifiedIsConsistent` is about verifications during which nothing else moved
  (`quiet`). The committed files are read twice, for the hash and for the
  comparison, so a regeneration in between can satisfy each with different
  bytes; no document promises otherwise. A binary that the lock does not name is not
  looked at; an identity fixture is compared with the generator's output in any case.
* `LiveQuorumPositive` excludes slot 0, in which an expiry of `Some(0)` is not yet
  past. A cluster has long left it.

## 4. Disagreements between the code and what is said of it

* **Future timestamps** (`future_timestamp`). `tests/entros-voter-weight.ts:255-257`
  says that `checked_sub` fails for an identity verified in the future, so that it
  is refused. `checked_sub` on i64 fails only outside i64: the age is negative and
  the identity passes. Entros Anchor writes that field, so this matters only if
  its clock is ahead.
* **Records of the wrong type** (`record_confusion`). `README.md:52` says that
  `update_max_voter_weight_record` sets the max voter weight, and `:50` that a voter closes
  their record; `governance.rs:2-3` says that the wrappers have what is necessary, a
  discriminator included. Nothing compares it: the wrappers implement
  `try_deserialize_unchecked` only. A voter weight record decodes as a max voter weight record of
  its realm and mint when byte 8 of its owner's key, where the other type has the tag
  of its expiry, is 0 or 1, as it is for one key in 128. Named in
  `update_max_voter_weight_record`, which the realm's authority signs, its owner is written
  over; the voter can then neither renew nor close it, nor create another at that
  address, unless the authority sets the one weight that restores the owner, where there is
  one. Governance no longer takes it for the voter's, so no weight is gained
  (`ReadsBackUnlessTag`, `VoterKeepsRecord`, `RenewalRequiresEligibility`, `ImplementsLease`).
* **Closing** (`record_closable`). `README.md:50` says a voter closes their record
  and reclaims the rent. After `close_registrar` no choice of accounts does so
  until an authority creates that registrar again.
* **Isolated ledger** (`isolated_ledger`). `README.md:100` says that the localnet
  command uses an isolated ledger and refuses occupied ports. Ports are probed
  before fixtures are generated and the validator binds; readiness is asked of
  whoever listens, before the script looks at its own child. Of two runs
  started together the second finds the ports free, its validator dies, and its
  tests run on the first one's ledger.

One more difference is between two constants and has no run: `README.md:34`, `:37` and
`:62` give a standalone update 100 slots, while `VOTER_WEIGHT_EXPIRY_SLOT_WINDOW` is
10. The models take the window as a parameter.

## 5. Proofs

Everything below holds for any sets of wallets, realms, mints, programs and
targets, any set of wallets whose keys read as a tag, any integer widths, any window and any
rents; for any bytes of keys, numbers and targets in `RecordCodec`; for any number of runs of the
localnet script, probes, looks and signals; and for any lists of fixtures and
versions of the generator. The assumptions on constants are the named `ASSUME`s of
the modules: widths are naturals, argument sets are of their types, the window
fits in u64, `None` is no other value. `FinitenessAssumption` says that there are finitely
many wallets, realms and mints, as their addresses are 32 bytes; only
`LamportsConservedInvariant` uses it, for the sum to mean something. TLC evaluates the
assumptions in the runs.

| Module | Theorems | Argument |
|---|---|---|
| `EligibilityProofs` | `GateExactForAll` | `AgeExact`: replacing an overflowed difference by `i64::MAX` does not change its comparison with any i64, because a difference that overflows upwards is above them all and the clock, being at least 0, cannot overflow downwards |
| `EligibilityCheckProofs` | `GateExactInvariant`, `DiagnosisAccurateInvariant`, `LapsesForGoodHolds` | the result is always that of the current call, then `GateExactForAll`; `GateOpen` can only shut as time grows |
| `VoterWeightProofs`, registrars | `RegistrarTypeInvariant`, `RegistrarSoundInvariant`, `FrozenWithoutAuthorityHolds`, `ChangesOnlyWithMintHolds` | `RegistrarChange`: a registrar that changed was changed under the authority of the realm in its address, since `IsRegistrar` ties the fields to the address |
| `VoterWeightProofs`, voters | `VoterTypeInvariant`, `RecordAtItsAddressInvariant`, `RecordShapeInvariant`, `RenewalRequiresEligibilityHolds`, `EligibleCanRenewInvariant`, `ImplementsLeaseHolds` | inductive invariant `VoterInv`; for the refinement, each action maps to `Take`, `GiveUp`, `Environment` or a stutter |
| `GovernanceUseProofs` | `RevocationBoundInvariant`, `AcceptedAsRequestedInvariant` | inductive invariant `UseInv` |
| `VoterWeightPluginProofs`, quorum | `LiveQuorumPositiveInvariant`, `QuorumStaysSetHolds`, `QuorumNeedsRegistrarHolds` | inductive invariant `MaxInv` |
| `VoterWeightPluginProofs`, all nine instructions | `PluginTypeInvariant`, `VoterKeepsRecordInvariant`, `PluginSafety`, `PluginRenewalRequiresEligibility`, `PluginKeepsQuorum`, `PluginFrozenWithoutAuthority`, `PluginImplementsLease` | `PluginInv`, from both parts' invariants; a step of the program is a step of each part, leaves the part, but for balances, alone, or overwrites an owner |
| `VoterWeightPluginProofs`, lamports | `LamportsConservedInvariant` | `Held`, wallets and rents together, is the same after every step, from lemmas about sums over finite sets |
| `RecordCodecProofs` | `ReadsBackUnlessTagInvariant`, `AlwaysFitsInvariant`, `ClientOffsetsInvariant` | inductive invariant `CodecInv`, from lemmas about encoding and decoding |
| `LocalnetHarnessProofs` | `HarnessTypeInvariant`, `LeaksOnlyInWindowsInvariant`, `SuccessIsEarnedInvariant` | inductive invariant `HarnessInv` |
| `FixtureCheckProofs` | `VerifiedIsConsistentInvariant`, `TemporaryRemovedInvariant`, `VerifyOnlyReadsProperty` | inductive invariant `FixtureInv` |

Why the strengthenings are needed:

* `VoterInv` joins type, `RegistrarSound`, `RecordOfItsAddress` (a record's realm and mint
  are its address's, its owner is too or has been overwritten) and `RecordShape`.
  An update only compares fields: that the registrar it was given is the one of
  the record's address needs both accounts to be where their fields say. From
  that and `GateExactForAll` follows `UpdateGate`, and with it
  `RenewalRequiresEligibility`. `EligibleCanRenew` follows with `OwnersKept`, which holds of
  the voter instructions by themselves: the registrar, the record and the identity
  that eligibility speaks of are accounts that every check of the update accepts.
* The refinement needs `VoterInv` at each step: an update must be a `Take` by the
  voter of the record's own address (`RecordOfItsAddress`), with the lease that
  its scope gives (`RecordShape`), while eligible (`UpdateGate`). The clock's step
  maps to `Environment`, which drops exactly the leases that ran out; closing
  maps to `GiveUp`, creating to a stutter, as a fresh record's weight is 0.
* `UseInv` adds `Answers` (a record with weight holds exactly what the last
  request wrote, and the request was made in an eligible slot) and `Noted` (the
  history of eligibility is up to date and not in the future).
  `RevocationBound` alone says nothing of a record that is bound elsewhere or has
  not been accepted, so a step could leave such a record in any form.
* `MaxInv` adds that a record is at its address and is either new (zero, expired)
  or set (positive, never expiring).

* `PluginInv` is both parts' invariants and `OnlyTagKeys`: an overwritten owner is one in
  `TagKey`. What needs proof is that the parts do not disturb one another further. They share the wallets: an instruction of one
  part moves balances that are in the type of the other. `PluginStepForVoters` and
  its two likes say that this is all but for `Overwrite`, so each part's step lemma applies
  to the other steps of the whole program. `OverwriteEffect` says what an `Overwrite` does: no
  weight, expiry or binding changes, so it renews nothing, and in the refinement it is a
  `Bar` or a `Readmit` of the voter, under which the lease runs on (`OverwriteBars`).
* `LamportsConserved` is a sum over all wallets, and `SumFunction` a fold over subsets
  that takes an arbitrary element of each. The prover has no induction over
  sets; what it has is that a non-empty family of subsets of a finite set has a
  smallest member (`Smallest`). `SumsExist`, `SumsNat`, `SumMoves` and `SumConstant` are each
  proved by looking at the smallest subset for which they fail. `SumMoves` then
  gives what `PayRent` and `RefundRent` do to the sum, `AllocatedMore` and
  `AllocatedLess` what create and close do to the number of accounts, and `RentOf` brings
  the two together. That an update neither creates nor removes an account needs
  the types: what it writes is a record, and not `None`.
* `CodecInv` says that an account with data has the length it was created with and
  carries, field by field from its start, the record last written to it
  (`VoterHeld`, `MaxHeld`) or, for a voter's record written as a max record, that record
  over the voter's (`Overwritten`, and then the key is of 0 or 1), and that the registrar has the governance program's key
  where a record has the realm's. `ReadsBackUnlessTag` alone says what the data decodes to and
  not where the fields lie, on which telling the types apart depends. Encoding and decoding are
  recursive functions on `1 .. n`. `Recursion` shows that such functions exist, and `First`
  replaces induction: what holds of all their values is proved by looking at
  the first value without it. `FlattenParts` (the encoded fields lie one behind the
  other) and `DecodeCarried` (data that carries a record decodes to it, whatever is
  behind it) hold for every layout whose field names differ; `VoterPlaces` and
  `MaxPlaces` add up the offsets of the two layouts, and give the fixed offsets and
  `get_space`. `VoterIsNoMax`, `MaxIsNoVoter` and `OtherRealm` tell the types apart where they
  can be, and `VoterAsMax`, `WrittenOver` and `OwnerLost` work out what happens where they
  cannot: the owner's key in a voter weight record lies on the tag of a max one's
  expiry. What is written over it is the first 17 bytes of a key of 32, so the key
  reads as no value, and every field behind it stays in its place.
* `HarnessInv` relates the program counter to what the script has made
  (`HasWhatItMade`), to what cleanup can find (`CleanupFindsIt`: a live validator
  that is not about to get its TERM has no recorded pid, and then a signal struck
  at `record`; a directory left behind has a signal or a failed `rm` to answer for it) and to
  where status 0 comes from (`KeepsStatus`), and keeps the counter of each loop below the
  limit of that loop (`WithinLimit`). The two properties
  speak of runs that have ended only, and a run ends by several ways.
* `FixtureInv` says what each loop of the verification has established so far: the
  hashes of the files behind its counter that the lock names, the output of the generator behind its,
  and, as nothing moved (`quiet`), that lock, files and generator are still those it
  read. `VerifiedIsConsistent` speaks of the end of the run.

TLC checked `HarnessInv`, `FixtureInv` and `CodecInv` (with the offsets that decoding
computes for the positions of the fields) on the instances of `localnet_harness`,
`fixture_check` and `record_codec` before they were proved.

The theorems about `VoterWeight` and `GovernanceUse` are about the registrar and voter
instructions; what of them the whole program keeps is in `VoterWeightPluginProofs`. An
overwritten record is out of `GovernanceUse`'s sight: its owner is no wallet.

Only model-checked: `EveryRunEnds`, the one liveness property, and the four violations.
Out of the prover's reach in general are liveness under fairness, `ENABLED`, and
induction other than by a smallest counterexample as above. No module
uses recursive operators.

## 6. What is not modelled

* Error codes outside the gate (`error.rs`): they label a rolled-back transaction.
  `instructions/mod.rs` only re-exports.
* Governance's own state (proposals, vote records, deposits): the plugin neither
  reads nor writes it.
* Any relation between the quorum denominator and the number of voters: no code
  relates them (`update_max_voter_weight_record.rs:61`), the value is the admin's.
* The bytes of the identity fixtures. The program reads them at the offsets that
  `Accounts` and `Eligibility` model.
* `scripts/test-devnet.ts`: sequential client calls on a mint and a realm made afresh
  in each run. It keeps no state, retries nothing and undoes nothing; its reads
  at fixed offsets are `ClientOffsets`.
* The tests, among them those at the end of `update_voter_weight_record.rs`.

## 7. Plan

Done, in this order: gate; registrars; voter weight records; their use by
governance; max voter weight records; the composed program; the theorems about
them; `WeightLease`, its refinement by the voter instructions and the proof of it;
`RecordCodec`; `LocalnetHarness`; `FixtureCheck`; the theorems about the localnet script,
the fixture verification, the program as a whole, conservation of lamports included, and
the bytes of the records.

Next: shorter proofs, where lemmas of two modules say the same of their own
records, and the safety invariants of `GovernanceUse` for the whole program.
