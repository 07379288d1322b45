# Verification of the Jupiter AMM adapter

TLA+ specifications of this repository, with model-checking configurations and
machine-checked proofs. The repository adapts an SPL token-swap pool to
Jupiter's `Amm` interface, builds the swap instruction of the Jupiter program,
and carries a harness that snapshots a pool's accounts and tests that a
simulated swap yields the amount quoted.

Contents: [the system](#the-system), [modules](#modules), [runs](#runs),
[proofs](#proofs), [findings](#findings), [what is left out](#what-is-left-out),
[plan](#plan).

## The system

Paths are under `src/`; `core/` is `jupiter-core/src/`.

| Component | State it keeps | Operations | What must hold |
|---|---|---|---|
| Adapter `SplTokenSwapAmm`, `core/amms/spl_token_swap_amm.rs`, `core/math/swap_curve_info.rs`, `core/math/token_swap.rs` | pool state, the two mints, a cached pair of reserves | `from_keyed_account`, `clone_amm`, `get_accounts_to_update`, `update`, `quote`, `get_swap_and_account_metas` | reserves are of one slot; a quote is what the swap yields on those vaults; the vaults named are the vaults priced; no conversion fails |
| Factory, `core/amms/loader.rs` | none | `amm_factory` | only supported, initialised pools become instances |
| Account feed, `core/amms/test_harness.rs` 606-622 | none; an account map in flight | one `get_multiple_accounts`, then `update` | an old answer applied late harms nothing but freshness |
| Snapshot writer, same file 774-862, 1005-1040, and `core/main.rs` | the directory of a pool, shared by all invocations | `snapshot-amm [--force]` | one slot per snapshot; Ok means complete; only `--force` destroys; a failed run can be repaired |
| Snapshot reader, same file 566-604, 624-733 | accounts of a test run | `load_accounts_snapshot`, `load_program_test`, `get_clock` | what is replayed is what was written, with its clock |
| Swap harness, same file 105-457, `jupiter-core/tests/test_amms.rs` | token accounts of a simulated bank | halve until quoted, swap, compare balances | a passing test means the quote was right |
| Swap builder, `core/build_swap_transaction.rs` | none | `build_swap_accounts`, `build_swap_instruction_data`, `From<SwapInstructions>` | both halves are for one instruction; nothing half-built is accepted |
| Client crate, `jupiter/src/lib.rs`, `jupiter/idls/` | none | authorities, token ledgers, argument records | accounts and data follow the IDL |
| Mint pairs, `core/route.rs` | none | `get_token_mints_permutations` | every ordered pair once |
| Fee percentage, `core/math/fees.rs` | none | `fee_pct` | not modelled, see [what is left out](#what-is-left-out) |

Interactions. A caller obtains an instance from the factory, then for ever:
asks it for addresses, fetches them, hands the map back through `update`, calls
`quote`, and builds a swap from `get_swap_and_account_metas` and the builder.
Nothing locks anything: the chain moves between any two of these calls, and
clones live on with their own reserves. The snapshot writer runs the same
sequence once, as a process, and leaves files for the tests; processes share
nothing but the directory. A test reads it several times, builds an instance, a
simulated bank and a swap instruction from what it read, and compares.

What is hard here:

* *time*: a quote is made from a cache and executed against the live vaults;
* *partial failure*: one vault missing in `update`; a failed request after the
  snapshot directory was created; a process killed between `File::create` and
  `write_all`;
* *concurrency*: several `snapshot-amm` on one directory, one of them removing
  it file by file;
* *agreement at a distance*: the direction of a swap is decided twice, from
  `reserve_mints` and from the pool state; the kind of instruction twice, from
  two sets of parameters; the accounts of a swap twice, with placeholders when
  the snapshot is taken and with real ones when it is tested;
* *verdicts*: the harness halves an amount until it is quoted and compares an
  expected error with that of an earlier attempt, so that what a passed test
  has shown is not plain from its code.

`PROJECT.json` lists each of these under `hazards`, at its line.

## Modules

| Module | Role |
|---|---|
| `SplTokenSwap` | the adapter as operators on the value of one instance |
| `AmmCache` | instances, the feed, callers and the pool program around a moving chain |
| `PoolView` | abstract: readers that quote from the chain as of the slot they last looked at |
| `SnapshotStore` | invocations of `snapshot-amm` on one directory, one file-system call per step |
| `SnapshotFolder` | abstract: a folder that is made, filled from one look at the chain and taken away by force |
| `SnapshotReplay` | `SnapshotStore` beside a test that reads the directory, one file per step |
| `SwapInstruction` | the two halves of a swap instruction, and how the program reads them, as operators |
| `SwapBuilder` | a caller that builds both halves, joins them and flattens the result |
| `SwapHarness` | the quoting tests, composing `SplTokenSwap` and `SwapInstruction` with a bank |
| `SnapshotFixture` | `SwapHarness` on what `snapshot-amm` saves of a chain |
| `AmmCache_proofs`, `SnapshotStore_proofs`, `SnapshotReplay_proofs`, `SwapInstruction_proofs`, `SwapBuilder_proofs`, `SwapHarness_proofs`, `SnapshotFixture_proofs` | theorems about each, see [proofs](#proofs) |
| `SwapVerdict_proofs` | theorems about `SwapHarness` besides `PassMeansAgreement`: failed tests, expected errors, amounts tried, balances |
| `MCAmmCache`, `MCSnapshotStore`, `MCSnapshotReplay`, `MCSwapBuilder`, `MCSwapHarness`, `MCSwapFixture` | values of the constants for TLC |

### SplTokenSwap and AmmCache

An instance is a record `[state, reserve_mints, reserves]`, as the Rust struct
without its label. `update`, `quote` and `get_swap_and_account_metas` are
operators with the names of the methods. An account map is a function whose
domain may lack an address (the account does not exist) and whose values may
fail to unpack. The curve belongs to the `spl-token-swap` crate: `CurveSwap` is
a constant operator, and `CurveAssumption` states what the adapter relies on,
that a swap takes at most what it is offered, has its fees paid from that
amount, and pays at most the destination reserve.

`ledger[s]` is the chain at slot `s`, its past kept so that properties can
speak of the slot something was read at; `view[i]` and `trade[i].view`,
`trade[i].at` are ghosts with which they do. `update_amm` is two actions,
`FetchAccounts` and `ApplyUpdate`, because the chain and other callers act
between the request and the use of its answer. A failed `update` leaves the
instance unchanged; the harness unwraps the error and stops, a caller that
handles it goes on, and the model covers both (a caller may cease to act).
`OnChainSwap` is the pool program as the adapter presumes it: it prices the
swap with the same curve on the live vaults, takes the direction from the
source vault, and refuses accounts of the wrong mint or a deposit that
overflows.

`quote` looks at the input mint alone, so mints the pool does not serve are
quoted too (from B to A). The model has such a mint; `QuoteMatchesSimulation`
speaks of the pool's own pair, and the pool program rejects the others.

`RefinesPoolView` maps an instance to its `view`: reserves disappear, and what
remains is a reader that never looks back in time and whose offers are prices
as of its view, with the vaults priced being the vaults named.

### SnapshotStore

`pc[p]` is where invocation `p` is. `Prepare` covers everything before the
first change to the disk (`take_snapshot`, and `snapshot_amm_accounts` up to
line 815); a failure there, of a request or of the pool, is `refused`.
Thereafter every file-system call is a step: `remove_dir_all` removes files
in any order and the directory last, `create_dir` fails when the directory
exists, `get_multiple_accounts(..).unwrap()` answers from one slot or panics,
and each file is created empty before it is written. `Die` may happen at any
point. An invocation may be run again, with or without `--force`.

A file is none, empty, whole (with the slot of its account) or torn. `open[p]`
holds the account whose file `p` has created and not written; when a forced run
unlinks the file, `p` writes to a file without a name.

Nothing keeps a forced run from overlapping others. `alone[p]` says that `p`'s
run never overlapped a forced one (its own force counting), `raced` that a run
which did may still touch the directory. What a snapshot is promised to be
(`SingleSlot`, `OkMeansComplete`) holds up to `raced`, and this is exact: with an
overlap, mixed and torn snapshots do occur. `OnlyForceDestroys` has no such
condition. A whole file changes only because a forced run removes it or, while
`raced`, because a late writer, its directory removed and made anew under it,
writes a file it has not written yet over that of another run. That second case
does happen, without anyone removing anything at that moment.

`Die` is a process that is killed. What it wrote stays: a machine that stops is
not modelled, and the code syncs nothing that would survive one.

`RefinesSnapshotFolder` maps directory and processes to a folder: `unsure` while
`raced`, `absent` without a directory, `begun` while its owner has not asked the
chain, `taken` while the owner has the answer of a slot and files are missing,
`picture` of a slot once they are all there, and `broken` when it has no owner
and is no picture. What no property of single states says is in the steps of
`SnapshotFolder`: the look at the chain comes after the folder was made, a
picture shows that slot, a broken folder is never completed, and pictures and
broken folders go away, and a race begins, only while a forced invocation runs.

`Fixtures` says whether the parent, `tests/fixtures/accounts`, exists;
`create_dir` does not make it.

### SnapshotReplay

The test of `test_quoting_for_amm_key` as a reader: the pool account is opened
by name, then the directory is gone through for the clock and once more for
each pair of mints. A pass is `ListFiles`, which is what `glob` sees at one
moment, and one `ReadFile` for every file listed, so that invocations of
`SnapshotStore` act in between. A file that has gone, is empty or is torn is a
panic (`File::open(..).unwrap()`, `from_reader(..).unwrap()`), and a missing
clock is none. The ghost `basis` is the slot of the snapshot a test started on,
as long as no forced invocation came upon it; `quiet` says that no invocation
ran beside the test at all.

### SwapInstruction and SwapBuilder

`AccountsVariant` and `DataVariant` are the two matches. The account list is a
sequence in the order of the IDL, with its writable flags, and `Reads` finds a
role where the IDL of the instruction *in the data* has it, so that halves built
for different instructions are misread as they would be by the program.
`Accepted` is the one check the IDL states, the address of the event authority.

In `SwapBuilder` a caller draws an authority id from a range, builds the halves
in either order, joins them, fills a `SwapInstructions` with whatever it puts
around the swap (`Surround`) and flattens it to a transaction (`Flatten`, with
`from` chaining the vectors and options of the record as the code does). The
instructions besides the swap are `Others`; all that is known of one is the
token ledger it records a balance to, if any (`Records`). Lookup-table addresses,
which `from` ignores, are left out of the record. The ghosts `asked` and `wanted` keep the two sets of parameters. Deriving an
address from an id is the constant function `Authority`; that ranges are not
empty is a precondition (`Uniform::from` panics), which every call in the
repository meets with literals.

### SwapHarness

One test at a time: `Begin` picks parameters, a snapshot and a pool program;
`LoadProgramTest` updates the instance and funds the accounts of a user and an
authority; `TryQuote` is one turn of the halving loop; `ProcessTransaction`
executes the instruction, quoted or not; `Judge` makes the assertions; and after
both ordered pairs of mints `End` asserts that one has passed. An unwrap or
assertion that fails is `Panic`.

The instruction sent is `build_swap_accounts` and `build_swap_instruction_data`
of `SwapInstruction` with the parameters the harness gives them, followed by the
eleven accounts of `TokenSwap`. The bank is external: `Allowed` says what the
Jupiter, pool and token programs need of the accounts of a swap the user has
signed (owners, mints, signer, writable flags, balances, the program authority
of shared accounts), and `Settled` moves the tokens. The pool program's curve
`ProgramSwap` is independent of the adapter's `CurveSwap`: whether they agree
is what the tests are to find out. `snapshot.rest` is the set of accounts without
tokens that the directory has, and `Required` those of them an instruction needs:
the swap, pool mint and fee account the pool program reads, and the mints the
instruction lists for the Jupiter program, which are both with shared accounts
and the one paid out without. Independently of the instruction, `NeededFor` and
`Served` say the same of a pair.

The bank holds the two vaults, as the snapshot has them, and the token accounts
of both wallets, which `setup_token_accounts` sets to eleven times the amount of
the table for each mint (`Funded`), whatever the snapshot had there. The two
balance differences are `checked_sub(..).unwrap()` in the code; they are plain
differences here, and that neither can panic is part of `TypeOK`. The amounts a
pair may be tried with are the halves of the table's amount (`Halves`), the one
it is tried with the largest that is quoted, or the last (`TriedAmount`).

Balances of the user and the authority are not cut to the width of u64: they are
eleven times an amount of the table, at most 1.1e12.

### SnapshotFixture

Replaces the arbitrary directories of `SwapHarness` by those `take_snapshot`
makes: `addresses_for_snapshot` is computed from the swaps of both directions
with a placeholder, the addresses to update, the mints and the clock;
`snapshot_amm_accounts` keeps what exists and is no program; `CanTake` is what
must hold for the invocation to get that far. `ReadBySwaps` is what the swaps of
both directions need, the mints included, which come into the snapshot by a line
of their own (`core/amms/test_harness.rs:809`) and not with the accounts of a
swap.

## Runs

| Run | States | Shows |
|---|---|---|
| `trade` | 494 094 | `QuoteMatchesSimulation`, `NoPhantomLiquidity`, `QuoteFailsOnlyWithCurve` |
| `clones` | 38 078 | `TypeOK`, `ReservesFromOneSlot`, `RefinesPoolView` |
| `snapshot_safety` | 145 222 | `TypeOK`, `SingleSlot`, `OkMeansComplete`, `OnlyForceDestroys`, `ForceUnblocks`, `RefinesSnapshotFolder` |
| `snapshot_live` | 1 269 | `ForcedRunReplaces` |
| `snapshot_replay` | 313 612 | `ReplayTypeOK`, `ReplayReadsTheSnapshot`, `ReplayIsOneMoment` |
| `swap_halves` | 154 914 | `ProgramReadsTheRequest`, `MixedHalvesAreRefused`, `AmountOrLedger`, `LedgerNeedsInstructionsMode` |
| `harness_verdicts` | 7 336 | `TypeOK`, `PassMeansAgreement`, `LargestQuotable`, `FailMeansDisagreement`, `ExpectedErrorIsReal`, `TestEnds` |
| `fixture_suffices` | 1 244 | `SnapshotSuffices` |
| `snapshot_force_missing` | | `ForceIsOptional` is violated, see findings |
| `snapshot_checkout` | | `FolderIsCreated` is violated |
| `swap_exact_out` | | `ExactOutNeedsSharedAccounts` is violated |
| `swap_authorities` | | `EightAuthorities` is violated |

What the newer properties come to:

* `ReplayReadsTheSnapshot`: a test started on a complete snapshot reads it and
  nothing else in all its passes, clock included, and does not panic, whatever
  invocations without `--force` do beside it. `ReplayIsOneMoment`: on what
  failed and killed invocations left, a test beside which nothing runs mixes no
  slots and passes over no file; what is missing has no file.
* `OnlyForceDestroys`: to whom a file that was written may be lost, in every
  state, an overlap of forced runs included (see
  [SnapshotStore](#snapshotstore)).
* `LedgerNeedsInstructionsMode`: whatever surrounds the swap, the flattened
  transaction has all preparations ahead of it and the cleanup after it. The
  amount of an accepted swap is known exactly when the data half was not asked for an exact-in
  ledger, or a compute-budget or setup instruction records that ledger; the
  field `token_ledger_instruction` makes no difference.
* `PassMeansAgreement`: a test that expects no error and passes has compared
  adapter and program on both ordered pairs; and no exact-out test passes, for
  the table of out amounts is empty. `LargestQuotable` says on which amounts:
  the largest half, quarter, ... that can be quoted, never the table's amount
  itself. `FailMeansDisagreement` is the converse: what the harness makes up
  never stands in the way of a swap. `ExpectedErrorIsReal`: the error compared
  is of the same pair, and the program refused the amount finally sent, though
  not for the reason the test names: nothing compares the two.
* `TypeOK` of `SwapHarness`: no account is overdrawn, no vault exceeds u64, and
  the user's balances never differ the wrong way round.
* `SnapshotSuffices`: what `snapshot-amm` saves is enough for the test, as long as
  the chain has the pool's accounts and its mints.

**Bounds.** `trade` has one instance, slots 0 to 3 (a fetch, an update, a quote
and a swap can each fall in a slot of its own, with other traders in between),
`MaxU64 = 15`, and the amounts 4 and 15, the latter being `u64::MAX`, where the
conversions and the deposit sit on their boundary. The chain starts from, and
other traders leave, a healthy pool, one with exchanged amounts, one without
vault B and one whose vault B does not unpack. `clones` has two instances with
slots 0 and 1: one update before and one after a clone, on different slots.
`snapshot_safety` has two invocations, either of which can run again any number
of times, five addresses (three with data, a program, a missing account) and
slots 0 and 1, enough for two snapshots to differ; invocations are symmetric.
Two processes suffice for every two-party interleaving, and a third is
represented by one of them ended and started again; the proofs lift the bound.
`snapshot_live` has one process, since a second forced one may remove the
directory over and over. `snapshot_replay` has one invocation, run again any
number of times, beside one test of two pairs, which is what the two mints of a
pool give; four addresses, of which a program is passed over. `swap_halves` has
every combination of flags and optional accounts, ids on both sides of 8, where
the documented range of authorities ends, and 24 surroundings: with and without a
compute budget, a setup and a cleanup, and the instruction that records the
ledger in its field, among the setup, in both or in none. `harness_verdicts` has three
attempts for ten and amounts 8 and 6, so that attempts can fail none, one, two
or all of the times; pools that are healthy, too small, empty, lopsided and full
(`MaxU64 = 45`, a deposit overflows the vault), broken snapshots, snapshots
without the pool's account or without one mint; a program with
the adapter's curve, one that pays one token less (within tolerance 1, not 0)
and one that refuses. `fixture_suffices` has chains with each of the pool's
accounts and each of the mints missing in turn.

**Fairness.** `snapshot_live` assumes weak fairness of `Step(p)`, the steps a
running process takes by itself. The operating system schedules a process that
does not block for ever, and the RPC client's requests end in an answer or a
timeout, both of which are outcomes of the fair step. Nothing obliges anyone to
start an invocation, and `Die` is never required. `TestEnds` assumes weak
fairness of `TestStep`: a test that runs is scheduled, and the bank, which runs
in the same process, answers every transaction. No test is obliged to begin.

**Deadlock** is checked in every run: there is always another call, invocation or
test to begin.

Each property has a mutant in `PROJECT.json`, a plausible bug in a mapped
definition under which the run finds the property violated; the mutants stand
before the definitions they alter.

## Proofs

The theorems hold for every value of the constants within the named assumptions:
`PoolAssumption` (two distinct vaults), `CurveAssumption` (above),
`AmmCacheAssumption`, `SnapshotAssumption` (types; some account, the pool itself,
has data), `ReplayAssumption` (types; the pool,
the clock and the vaults have data), `InstructionAssumption` (the event
authority and the programs are no keys a caller names), `BuilderAssumption`
(types, those of the surroundings included; ranges are not empty),
`HarnessAssumption` (types; distinct mints and
token accounts, no wallet's account being a vault; at least one attempt),
`ProgramAssumption` (the pool program's curve takes at most what it is offered
and pays at most what the vault holds, which the token program enforces of any
curve; the two curves need not agree in anything) and `FixtureAssumption` (the
placeholder is a fresh key; accounts with data, mints included, are no programs,
and vaults are none of the other accounts). TLC evaluates
each of them in the runs.

| Theorem | Module | Says |
|---|---|---|
| `TypeCorrect` | `AmmCache_proofs`, `SnapshotStore_proofs`, `SwapVerdict_proofs` | the type invariants |
| `OneSlot` | `AmmCache_proofs` | `ReservesFromOneSlot` |
| `NoPhantom` | | `NoPhantomLiquidity` |
| `QuoteSimulates` | | `QuoteMatchesSimulation`, for every curve |
| `ConversionsFit` | | `QuoteFailsOnlyWithCurve` |
| `Refinement` | | `AmmCache` implements `PoolView` |
| `SnapshotFromOneSlot` | `SnapshotStore_proofs` | `SingleSlot` |
| `OkIsComplete` | | `OkMeansComplete` |
| `FilesAreSafe` | | `OnlyForceDestroys` |
| `ForceGetsThrough` | | `ForceUnblocks` |
| `Refinement` | | `SnapshotStore` implements `SnapshotFolder` |
| `ReplayTypeCorrect` | `SnapshotReplay_proofs` | `ReplayTypeOK` |
| `ReplayIsReproducible` | | `ReplayReadsTheSnapshot` |
| `ReplayMixesNothing` | | `ReplayIsOneMoment` |
| `TestsLookOn` | | with a test beside it, `SnapshotStore` is what it was: `ReplaySpec` implies `Spec` and `RefinesSnapshotFolder` |
| `RequestIsRead` | `SwapBuilder_proofs` | `ProgramReadsTheRequest` |
| `MixedHalvesRefused` | | `MixedHalvesAreRefused` |
| `AmountIsGivenOnce` | | `AmountOrLedger` |
| `FlatLedgerIsLost` | | `LedgerNeedsInstructionsMode` |
| `PassedTestsAgree` | `SwapHarness_proofs` | `PassMeansAgreement` |
| `LargestIsTried` | `SwapVerdict_proofs` | `LargestQuotable` |
| `FailuresAreDisagreements` | | `FailMeansDisagreement` |
| `ErrorsAreReal` | | `ExpectedErrorIsReal` |
| `FixtureTests` | `SnapshotFixture_proofs` | `FixtureSpec` implies `Spec` of `SwapHarness`, so all of its theorems |
| `SnapshotsSuffice` | | `SnapshotSuffices` |

*AmmCache.* None of the properties is inductive: a quote is a claim about a
slot that may be long past, and nothing in it says what the reserves were. The
invariant `IInv` records where everything came from: an answer in flight holds
what the chain had at its slot and is not older than the instance's view
(`AnswersFaithful`), reserves are those of the view (`ReservesFromOneSlot`), a
quote is the price as of its own view with the vaults priced
(`QuotesFaithful`), an outcome is what the pool program made of the trade at
its slot (`OutcomesFaithful`). It is preserved because every step leaves the
past of `ledger` as it is. The refinement adds that a step of the chain maps to
`Move`, an applied update to `Look` or to nothing, a clone to `Adopt`, a quote
to `MakeOffer` or `Withdraw`, and a swap that lands to `Move`.

*SnapshotStore.* `SingleSlot` says nothing of who writes. `IInv` adds
`Control`, that unless raced at most one invocation owns the directory (it
created it and has not ended) and a forced run beside another is seen by both,
and `Contents`, that the owner's bookkeeping (`todo`, `open`, `answer`) says
what each file holds. The action properties follow from `IInv` step by step.
For the refinement `Control` had to say more (`StragglersOwn`): an invocation
that met a forced one is, once the race is over, the owner itself or gone.
Otherwise it could make the directory anew and start a race that no forced
invocation takes part in. `Readings` then says what the mapping makes of each
state, and every step compares its two readings: `CreateDir` maps to `Make`,
`FetchAll` to `Look`, the last `WriteFile` to `Fill`, an owner's early end to
`Abandon`, the first `RemoveFile` of a picture to `Undo`, `RemoveDir` to
`Vanish`, and the rest to nothing.

*SnapshotReplay.* Whatever steps the invocations take is a step of
`SnapshotStore`, so its `IInv` comes with the composition. `RInv` adds what the
test holds: while `basis` lasts, the snapshot of that slot is complete and every
account, pool and clock read is of it; while `quiet` lasts, the directory has
not changed since the test began, so what was listed is present and what was
read is what is there.

*SwapBuilder.* `BInv` says that each half is what its function made of the
parameters remembered, and the whole is their concatenation. The properties then
follow by the lemmas of `SwapInstruction_proofs`: every role the program reads
has one position in the list it is read from, the two matches agree on requests
of the same kind, and an accepted instruction has two lists of equal length,
because the event authority is the last but one account of each and no key of
the pool. `TransactionIsTheFilling` adds that a transaction is what `from` made of
a record the caller filled; `FlatSwap` says where the swap comes to stand in it,
with what on either side, for any two sequences around it.

*SwapHarness.* A verdict speaks of a pair long tested. `HInv` keeps, for every
pair passed, that adapter and program agreed on its amount
(`TriedAgree`), and for the pair under test that the instance and the bank are
those of the snapshot, the quote is the adapter's answer for the amount, and
what was executed is the program's. The step that matters is
`ProcessTransaction`: the instruction the builder made of the harness's
parameters names the accounts that are looked at afterwards, and the user is
paid what the curve pays, with shared accounts or without.

*Verdicts.* That a pair passed says nothing of the attempts before, and that a
test failed says nothing of why. `VInv` adds both to `HInv`. `Attempted`: the
amount is the table's amount halved as often as quotes were counted, of these
attempts only the last can have been quoted, and an error is remembered just
when one was not. `Answered`: the transaction went through exactly when the
accounts and mints the pair needs are there and the program's curve takes the amount, and
neither balance has moved the wrong way. `TriedAsExpected` keeps what an
expected error meant for the pairs already passed.

`Answered` is where most of the work lies. It needs that `Allowed` reduces to
the snapshot and the curve (`AllowedIs`), hence that every account in the
instruction, with shared accounts or without, has the owner, the mint, the
signer and the writable flag that the programs ask for (`AccountsAreInOrder`),
that the funds suffice (`HalvesFall`, half an amount is within eleven times the
amount), and what each account holds after the up to four transfers of a swap
(`SettledBank`), from which come both the payment that is compared and the types
of all balances.

Halving is a recursive function, and its equation had to be derived: that some
function satisfies it, and that halves fall and stay natural numbers, is shown
by looking at the least number of halvings for which it would fail (`Least`,
from the library's `WFMin`), since the induction theorems are out of reach.

*SnapshotFixture.* A step on a snapshot that was taken is a step of a test
(`FixtureTests`), so only the snapshot is left to prove about. `FInv` says that
it is what `snapshot_amm_accounts` made of the chain, and `AddressesSuffice` that
the vaults, the mints and whatever the pool program reads are among the
addresses. That is what a pair needs (`Served`), and by `RequiredIsNeeded` of
`SwapHarness_proofs` what its instruction needs, with shared accounts or without:
the roles the instruction lists are read back as the pool's accounts and the two
mints. So the
snapshot is usable, `FailMeansDisagreement` leaves the curves as the only
reason, and they are compared on the chain's own balances.

The invariants (`IInv`, `RInv`, `BInv`, `HInv`, `VInv`) were checked by TLC on the
instances above before they were proved.

Every invariant and action property that a passing run checks is stated by a
theorem, the two refinements included. Only model-checked: `ForcedRunReplaces`
and `TestEnds`, which are liveness, and the violations, which are
counterexamples.

## Findings

* `--force` on a pool without a snapshot fails (`snapshot_force_missing`): the
  help says "Overwrite the output snapshot if it exists"
  (`core/main.rs:19`); the code returns `remove_dir_all`'s error when there is
  no directory.
* `build_swap_accounts` accepts `ExactOut` without shared accounts
  (`swap_exact_out`), which its own error text calls unsupported
  (`core/build_swap_transaction.rs:189`).

* A first `snapshot-amm` in a fresh checkout fails (`snapshot_checkout`):
  `tests/fixtures/README.md:19` says a folder appears in
  `tests/fixtures/accounts`, a directory the repository does not carry and
  `create_dir` does not make.
* Authority ids go up to 15 (`swap_authorities`), while the comment above
  `AUTHORITY_COUNT` (`jupiter/src/lib.rs:10`) says 0 to 7.

`MixedHalvesAreRefused` has an exception worth knowing, which is no
disagreement with a document: `shared_accounts_route` and
`shared_accounts_exact_out_route` take the same accounts, so data of one with
accounts of the other differ in nothing the program could see.

## What is left out

* The curve and its fees, the RPC node, the file system's own failures (a full
  disk), address derivation, the bytes of accounts and instructions: external,
  or without behaviour to get wrong here.
* Fee percentage (`core/math/fees.rs`): a quotient and a sum of decimals of four
  constants of the pool, reported with a quote and read by nothing in the
  repository. That `SwapV1` and `Fees` are copied field by field is left out
  with it. Labels, logging and argument parsing.
* `find_jupiter_token_ledger` and `find_jupiter_open_orders`
  (`jupiter/src/lib.rs` 35-53): nothing in the repository calls them; a ledger
  is any key.
* Chain accounts do not change kind (data, program, missing) during a snapshot,
  and `params.json` is never written there: `take_snapshot` passes no params.
* All invocations name one directory; different pools and options never meet.
* Unidirectional pools and pools with more than two mints (`core/route.rs`):
  there is one pool type, and it has two mints.
* The hook `before_test_setup` and the parameter `restricted_mint_permutations`
  (`jupiter-core/tests/test_amms.rs` 24, 130-131), which are `None` in every test
  of the repository. Since the pairs are therefore never an empty list, the final
  `assert!(one_test_passed)`, which `End` makes, is always met.
* The benchmark after a passed assertion, and
  `assert_out_amount_matches_simulated_swap`, which no test calls. The test RPC
  sender (`core/amms/test_harness.rs` 457-505) is used by nothing either.
* The `is_signer` flags of account lists: those of the pool's accounts are all
  false, and the user is the one signer of a transaction.
* A machine that stops, as opposed to a process that is killed.
* The empty range that `Uniform::from` would refuse (`jupiter/src/lib.rs:27`):
  every call passes literals.
* Exact-out assertions of the harness (lines 343-353) are never reached.
* Compute limits, rent and lamports of the simulated bank.

## Plan

Done: all of the plan but the following, on which no property above depends.

1. An abstract quoting test (a pool, two curves, a verdict) that `SwapHarness`
   implements; its content is in `PassMeansAgreement`, `FailMeansDisagreement`
   and `ExpectedErrorIsReal` already.
2. Pools of another type, when `amm_factory` gets one: unidirectional routes,
   more than two mints, program dependencies.
