# A verification project for x-backend

x-backend is a multi-tenant backend on Cloudflare Workers with a Postgres
database behind it. A customer's authoritative work (packets, approvals, events,
projects, plans) is written by request handlers; read models such as the
workspace graph are derived from it by a queue and by cron jobs; agents draft
proposals that a human signs off. There is no shared memory and no lock service:
every guarantee rests on guarded SQL statements (`UPDATE ... WHERE status = ...`),
on `INSERT ... ON CONFLICT`, and on the order of the `await`s around them.
Handlers, cron runs and queue consumers overlap freely, any of them may die
between two statements, and the queue delivers at least once. That is what these
modules model.

Paths below are relative to the repository's root; `W` is `src/workers`.

## Inventory

| Component | State | Operations | Hard behaviour | What makes it correct |
|---|---|---|---|---|
| Projection outbox and queue (`W/dal/projection-outbox-store.ts`, `W/services/tenant-projection-queue.ts`, `W/crons/tenant-projection-dispatch.ts`) | `projection_outbox` rows; messages in two queues | claim, publish, mark dispatched, release, begin attempt, mark processed / failed / dead-lettered | duplicates, crashes between send and mark, claims that go stale, exhausted retries | no governed row is lost; processed means projected; settled rows are final; rows settle |
| Graph materialization (`W/graph/persist-data-graph.ts`, `W/dal/graph-store.ts`) | graph tables, snapshots | read the facts, compare, replace | several callers at once, torn reads | anchor and graph converge and then stay; rebuilds that overlap install in order |
| Ordinary idempotency guard (`W/lib/idempotency.ts`, `W/dal/idempotency-store.ts`) | `idempotency_keys` | reserve, complete, release | two-statement reserve, fail-open, crashes | one write per key; replays are of real responses and never change |
| Operations executor (`W/services/operations-queue-consumer.ts`) | status of command events | poll, claim, run, append, finalize | overlapping runs on stale pages, errors per event | a verb runs at most once; terminal states are explained; commands finish |
| Digest proposals (`W/services/scheduled-digest-sweep.ts`, `W/services/agent-digest.ts`, `W/dal/governance-store.ts`, `W/routes/sign-offs.ts`) | proposal events, approval state, receipts | draft, sign off, post | check-then-insert across a model call, concurrent verdicts, lost post step | nothing is posted without approval; decisions are final; approved digests are posted |
| Governed intake (`W/dal/intake-store.ts`, `W/routes/intake.ts`, `W/lib/intake-resolution.ts`) | resolutions, receipts, packets, approvals | resolve, execute, replay | one statement under READ COMMITTED racing with other routes | one effect per receipt; no double continuation; success is receipted |
| Operational spine (`W/dal/operational-spine-store.ts`) | packets, evidence, approvals, tool events | create, decide, lifecycle deletion, completion contract | decisions racing with intake | decisions are final |
| Propagation and recommendations (`W/dal/propagation-store.ts`, `W/crons/propagation-tick.ts`) | recommendations, the tick's cursor, a counter per domain; goals, roadmaps, rules | tick (expire, read, match, insert, recount, move the cursor), accept, reject | status read before the payload is applied; ticks that fail half way; events that arrive during a tick or are dated in the future | the cursor passes no event of a page unexamined; a rule recommends once within its window; accepted means applied; a settled decision stays |
| Plan commands (`W/dal/plan-command-store.ts`, `W/dal/plan-command-operations.ts`, `W/routes/plan.ts`) | plan entities with parent and position, strict claims, receipts | create, update (rename, move), delete; replay | a target read before the transaction, two advisory locks, retries with one key | siblings are packed, no lost update, one outcome per key, no deadlock |
| Invitations (`W/dal/customer-invite-store.ts`, `W/routes/customer-invites.ts`, `W/services/clerk-org.ts`) | the command's row with its lease; invitations at the provider | reserve, reclaim, find, create, finalize, record a failure | a side effect outside the database, leases that run out, lost answers | one invitation per command; a receipt names a real one |
| Members (`W/dal/workspace-member-store.ts`, `W/dal/workspace-member-removal-store.ts`, `W/dal/invite-membership-store.ts`, `W/dal/member-authority-provisioning.ts`, `W/routes/session-mode.ts`) | member rows, entitlements, operating modes, user status | change a role, remove, materialize an invitation, ban a user, set one's own mode | one statement with row locks under READ COMMITTED; check-then-insert from two sessions | an owner remains; who may write has the role for it; joining only adds |
| Other strict authority commands (`W/dal/project-command-store.ts` and siblings) | claims, receipts, outbox rows | claim, apply, replay | concurrent commands with one key | one outcome per key |
| Cron composites (`W/crons/index.ts`) | none | run two jobs in turn | a failing first job | the second job still runs |

The rest of the repository (authentication, OAuth, connectors, chat, model
runtimes, MCP gateway, tuning jobs, provisioning, scripts, edge functions) is
listed in `PROJECT.json` with the reason why it is not modelled: it is stateless,
it is I/O, or it has no protocol beyond single statements.

Interaction: an intake execution (or another authority command) writes an outbox
row in the statement that commits its effect; the dispatcher publishes it; the
consumer rebuilds the graph through the same `persistDataGraph` that the hourly
cron and the graph route call. Plan, invitation and member commands claim a
strict idempotency key and write event, audit row, outbox row and stored response
with their effect; an accepted invitation becomes a member row when its user next
signs in. The executor's digest verb and the weekly sweep
write proposal events that sign-off and posting then move.

## Modules

| Module | Models | State and actions |
|---|---|---|
| `ProjectionOutbox` | the outbox, its dispatcher and consumer | `status`, `stale`, `processed`, `dead` are columns of a row (`stale`: `claimed_at` older than five minutes). One action per SQL statement of a dispatcher (`dphase`) and a consumer (`cphase`), one for each way it can fail. `main[r][k]` counts the messages for row `r` that await their `k`-th delivery. Implements `Outbox`. |
| `Outbox` | what the outbox promises | The abstract specification: an effect is owed once its row is committed, delivered only after a graph that contains it was installed, or given up; delivered is for good, and what is given up is not taken up again. |
| `GraphPersist` | `persistDataGraph` for one workspace | A graph is represented by the facts it was built from. `ReadTable` is one statement of the facts read, `Compare` the drift check, `ReplaceWorkspaceGraph` the transaction. Start times enter only by their order: `before[w]` are the running rebuilds that started before `w`, `outdated[w]` says that one which started later has installed its graph. |
| `IdempotencyGuard` | the guard for one (workspace, key) | One process per request; `ReserveInsert` and `ReserveSelect` are the two statements of a reservation. |
| `OperationsExecutor` | the drain of queued commands | `log` holds the rows in the order of `occurred_at`. A run holds the rest of its page as places in it, the newest of which is in hand; every statement about that event is an action. `stranded` are the commands whose run lost them after the claim. |
| `DigestApproval` | digest proposals of one workspace | Sweeps, manual and executor drafts, the sign-off statement, the three statements of the post step, archive and restore. |
| `GovernedIntake` | resolutions and the spine rows they act on | A statement is two steps, `Begin` (its snapshot) and `ExecuteApplies` / `ExecuteMisses` / `ExecuteRefused` (locks, writes, commit), which is what READ COMMITTED allows to differ. |
| `StrictCommand` | what every strict authority command promises | The abstract specification: a key has one outcome, fixed by the first attempt performed, with its envelope (event, audit, outbox row), and reported to attempts with the same request only. An attempt whose request has been performed may not be refused any more (`Owed`), unless it was under way before that (`early`) or its target is not to be found (`stray`); the implementing module says which calls those are. `OneOutcomePerKey` says what the callers get. |
| `PlanCommand` | the three plan commands | The route's read, then one action per statement of the transaction that another can see: the claim (which waits for an uncommitted claim of the key), each advisory lock, the mutation with its re-pack, the commit. `ent`, `claims` are committed rows, `draft` a transaction's own. Implements `StrictCommand`. |
| `InviteDelivery` | `POST /customer/invites` and its three store calls | `row[k]` is the key's row with command, lease and receipt; `sent` what the provider holds. `Create` succeeds, `CreateUnheard` succeeds and loses its answer, `CallFails` does not reach it. Implements `StrictCommand`. |
| `Membership` | members of one workspace and their authority | A member command is one statement: snapshot, target lock, owner locks, guard, writes. `snap` is its snapshot, `held` its row locks; a locked row is read again, which is what READ COMMITTED does. A session's materialization is its guards and one transaction; `Switchers` set their own mode. Implements `StrictCommand`. |
| `Recommendations` | the tick and decisions of one domain | A recommendation is named by its source and the tick, or the detector, that inserted it. `clock` orders arrivals and ticks, an event is dated as its sender likes, `recent` are the recommendations a debounce window still covers. `skipped` are the events the code has passed over, `overlapped` says that two ticks ran at once. |
| `ProjectionOutboxProofs`, `IdempotencyGuardProofs`, `DigestApprovalProofs`, `GovernedIntakeProofs`, `PlanCommandProofs`, `InviteDeliveryProofs`, `MembershipProofs`, `RecommendationsProofs` | | theorems about the module each is named after; `ProjectionOutboxProofs` has those about `GraphPersist` as well, whose rebuild its consumers run, and `DigestApprovalProofs` those about `OperationsExecutor`, whose results are the executed drafts |
| `MC...` | | the constants of the runs |

In each module a guard that a property depends on has a name of its own
(`Claimable`, `DispatchOpen`, `ClaimGuard`, ...), preceded by a form of it with
a plausible mistake; `PROJECT.json` lists which mistake each
property detects.

External and abstracted: Cloudflare Queues (at-least-once, a bounded number of
deliveries, then the dead-letter queue); Postgres statements, which are atomic
except where a module says otherwise; the text of digests and graphs. The
consumer's branch for a message whose event type differs from its row's
(`tenant-projection-queue.ts:143`) is left out: the message is made from the row.
The dispatcher's claim may return any set of candidates within the limit,
because of `SKIP LOCKED`. Event insertion is one insert-if-absent step, as the
primary key makes the second of two racing inserts fail. Events purged by the
retention cron are not modelled. Request digests are the requests themselves, and
random ids and the `updated_at` of a command are unique (`ver` in `PlanCommand` is
the attempt that wrote; two commands on one entity in the same millisecond would
share it). Clerk is external: an invitation is created in one step and can be
looked up from then on; the search stops at 1000 invitations of an organization
(`clerk-org.ts:217`), which the model does not. Row-lock deadlocks between member
statements are broken by Postgres, whose victim is `Fails`. The counter of open
recommendations is written by two actions of `Recommendations` and its value is
left out: nothing in the module reads it. A goal inserted by provisioning
(`customer-provisioning-store.ts:285`), at position 0 and outside the sibling
locks, is not modelled: `SiblingsPacked` is about the plan commands, and that insert
can put a second entity at position 0 until the next re-pack.

## Runs

Runs that hold:

| Run | Instance | Shows |
|---|---|---|
| `ProjectionOutboxDelivery` | 1 row, 2 dispatchers, 2 consumers, 2 deliveries, 5 faults, runs end within their claim | `NoRowLost`: until it settles, a governed row can be claimed or has a delivery outstanding; `GovernedRowsSettle`: it settles |
| `ProjectionOutboxFinality` | 2 rows, one of another event type, overdue runs, 4 faults | processed rows were projected and are final; dead-lettered rows are not reopened; implements `Outbox` |
| `GraphPersistOverlap` | 2 rebuilders, 2 tables, 2 commits, 2 faults | a converged graph stays converged; the anchor converges whatever overlapped; the graph converges when overlapping rebuilds install in the order they started |
| `IdempotencyGuardFaults` | 4 requests, 2 failing handlers, 2 faults | replays come from handlers that wrote; stored responses are final; one write until something fails; only a fault strands a reservation |
| `OperationsExecutorSafety` | 2 runs, a known and an unknown command, 2 foreign rows, page of 2, 2 faults | verbs run at most once; terminal states are explained; a command ends unless a fault strands it or foreign rows crowd it out, both of which happen in the run |
| `DigestApprovalSafety` | 2 sweeps, 2 days, an executor draft, 1 fault | posted implies approved; decisions are final; approved digests are posted |
| `GovernedIntakeSafety` | 2 packets, 1 approval, 2 resolutions, 2 executions, 2 client ids | one effect per receipt, no double continuation, receipted success, final decisions |
| `PlanCommandSafety` | 3 entities (two at the top, one with a child) and an id to spare, 3 attempts; a create, moves up and down, a rename that reuses a move's key, a deletion | siblings stay packed; no lost update; implements `StrictCommand`; every call that has started is answered |
| `InviteDeliverySafety` | 3 attempts, 3 requests on 2 keys, any lease expiring at any time | receipts name an invitation of their command; attempts within their lease send once; implements `StrictCommand` |
| `MembershipSafety` | 3 attempts, 6 requests, 3 users of whom one is invited, signs in twice and sets its own mode | an owner remains; who may write has an operator-grade role, and the entitlement is the mirror of the membership but for a late materialization; joining only adds; implements `StrictCommand` |
| `RecommendationsSafety` | 2 events dated up to 1 ahead of the clock, 1 goal, 1 detection, 2 ticks, 2 decisions, a page of 1 event, at most 2 recommendations | the cursor passes no event of a page unexamined; within its window a rule recommends once; accepted means applied; a settled recommendation stays as it is |

One run fails, against sentences of the repository quoted under `findings` in
`PROJECT.json`: `PlanCommandCycle`. With 3 below 1 and 2 at the top, moving 2
below 3 locks the groups of the top and of 3, moving 3 below 2 locks those of 1
and of 2. Neither sees the other's new parent, both commit, and 2 and 3 are below
each other, cut off from the top.

### Known limits

What the code does not promise, found while stating what it does. Each can be
seen by checking the formula named, with the run and constants given.

* *Outbox.* A row of another event type than `governed_intake.executed` is
  dispatched, acknowledged as invalid and stays `dispatched`
  (`tenant-projection-queue.ts:62`; in `ProjectionOutboxDelivery` with an empty
  `Governed`, that every committed row settles).
* *Graph.* Of two overlapping rebuilds the earlier may install its stale graph
  last, under an anchor that says fresh (`graph-store.ts:211`): snapshots are
  ordered by when a rebuild started, graphs by when it ended, and every rebuild
  after that compares with the anchor and skips the write. `graph-store.ts:160-162`
  and `029_graph_snapshots.sql:14` take the latest snapshot for a description of
  the stored graph. `GraphConverges` has `[]InOrder` as its premise; without the
  premise TLC finds this behaviour in `GraphPersistOverlap`.
* *Executor.* `crons/index.ts:139-140` calls the cron the GUARANTEED-EVENTUALLY
  backstop. Two kinds of command never end, and `CommandsFinish` names both: the
  one whose run died or lost a statement after the claim (`stranded`; the KNOWN
  LIMITATION at `operations-queue-consumer.ts:43`), and the one behind as many
  newer queued rows of somebody else as the page holds (`CrowdedOut`; the rows are
  skipped and stay, `operations-queue-consumer.ts:269`). Leaving either disjunct
  out makes the run fail.
* *Digest.* A rejected proposal keeps the status the sweep looks for, so the sweep
  drafts nothing more (`scheduled-digest-sweep.ts:96`).
* *Intake.* A target row that changes after the statement's snapshot leaves a
  resolution consumed with neither effect nor receipt (`intake-store.ts:139`;
  that a consumed resolution has a receipt, in `GovernedIntakeSafety`).
* *Plan.* "A retry returns the first durable result" (`plan-command-store.ts:3-4`),
  but the route reads the live entity before it looks for a replay, so an exact
  retry of a committed DELETE, or of an update whose entity is gone by then, is
  answered 404 and not its receipt. `ImplementsStrictCommand` names these calls
  (`stray <- TargetAbsent`); with `stray <- {}` the run fails. The children of a
  deleted entity cannot be renamed: the update asks for a live parent.
* *Invitations.* A holder that overruns its two-minute lease may send a second
  invitation after its successor looked for the first: `SentOncePerCommand`
  counts the attempts that kept to their lease. An attempt that is past the
  reservation when another one finalizes the row may be told of a conflict or a
  provider failure although its request has been performed (`early <- Delivering`).
* *Members.* Two sessions may both see no member row; if the member is changed or
  removed between their commits, the later one mirrors the invited role into the
  entitlement again (`invite-membership-store.ts:134-141`: the member row has
  `DO NOTHING`, the entitlement `DO UPDATE`), and a demoted member may write until
  the next command on it. `AuthorityFollowsMembership` says that nothing else does
  this, and what such a user (`late`) is left with. The operating mode is no
  authority at all: `PATCH /session/mode` (`session-mode.ts:4`, `:48`) lets anybody
  set operator mode in the workspace its token names, without a look at the member
  row (`middleware/auth.ts:148-162`); the property is therefore about who may write,
  for which the entitlement is needed too. An overlapping retry of a role change is
  refused when its member has been removed meanwhile (`early <- ChangingRole`); a
  removal looks for its replay again.
* *Recommendations.* A payload may be applied more than once: by two overlapping
  acceptances, by one that dies after applying, and by one that is answered 422
  because the item's audit entry failed after the item was inserted
  (`propagation-store.ts:127`, `:143`, `:826`), which leaves the row pending for the
  next acceptance. A rejection or an expiry may overwrite an acceptance, and the
  other way round (`:822`, `:867`). `SettledIsFinal` says from when on none of this
  happens: when the calls that found the row pending are through.
  `DalAdapter.ts:1008` calls the tick "Idempotent on restart"; a failed tick's
  events are read again, future-dated ones by every tick, and recommend again
  when the rule has no debounce window (`:945`), when it is over, or when two ticks
  overlap. Events that arrive while a tick runs, are dated at or before the cursor
  or lie beyond the page of 500 are not examined (`skipped`). The counter of open
  recommendations may stay wrong: its UPDATE counts on the snapshot it started with
  while it waits for the domain row (`:411`, `:1046`), the detector inserts without
  a recount (`detector-engine.ts:525`), and a tick recounts only domains with a
  pending or expired recommendation. No property is claimed of it.

Some of the premises above need a word. `NoRowLost` needs runs that end
within their claim: with `SlowDispatch = TRUE`, 2 dispatchers and 4 faults TLC
finds a run that marks a row dispatched over another run's claim after its
message was acknowledged unclaimed (`markProjectionOutboxDispatched` checks the
status and not whose claim it is). `AtMostOneEffect` stops at the first failed
handler: a reservation released between another request's INSERT and SELECT
sends that request on without a row (`idempotency-store.ts:56`), beside a third
one that reserves the free key; the code's comments call the guard best-effort.
`ReservationEnds` and `ApprovedIsPosted` except what a fault has cut off: a worker
that dies between reserve and complete leaves the reservation for good
(`lib/idempotency.ts:70`), and a lost post step leaves an approved digest unposted
(`agent-digest.ts:330`); they show that nothing else does. Two commands on one plan
entity in the same millisecond are outside `NoLostUpdate`.

**Bounds.** Two actors of a kind are enough for every race here: each protocol
relates one row to at most two concurrent holders. Two deliveries let a message
fail, come back and be exhausted. Five faults on one row can hit a claim, a send
and the attempts of two messages; the finality run needs four, so that a
duplicate's failing attempt can meet a row dead-lettered through the other
message. Three attempts on one invitation are a holder, its successor and a
bystander; three member commands are two demotions and one retry. Three plan
entities and a new one let a move leave a group that another move, a create or a
deletion re-packs. Two
ticks allow a failed one and its repetition, and an overlap; two recommendations
(`MaxRows`) let an event be recommended for twice, or an event and a detection
compete for two decisions; a date one ahead of the clock (`Ahead`) has an event read
by both ticks. Two foreign rows fill the executor's page of two. `CHECK_DEADLOCK FALSE` is set because the systems rest when all
bounded inputs are used up.

**Fairness.** Weak fairness is given to steps that something keeps driving: the
cron triggers (a dispatcher or an executor polls again), an invocation that has
started (it takes its next step unless a fault is spent on it), the queue's
deliveries and the passing of five minutes. Faults, writers, operators'
decisions and requests that have not started have none. A request handler's
success or failure is one fair choice. In `PlanCommandSafety` each step of a call
that has started is weakly fair; waiting for a lock is not a step, so that a
circle of waits would show. That rebuilds keep being started is true of operator
workspaces, which the hourly cron visits (`crons/graph-rebuild.ts:10`), and elsewhere
as long as governed writes or calls of the rebuild route ask for them: `AnchorConverges`
and `GraphConverges` are about the workspaces for which it is true.

## Proofs

`ProjectionOutboxProofs` proves, for every set of rows, dispatchers and
consumers, every batch limit, number of deliveries and number of faults
(assumptions `RowsAssumption`, `BoundsAssumption`):

* `TypeCorrect`: `Spec => []TypeOK`.
* `ProcessedStaysFinal`, `DeadStaysClosed`: the two action properties. They rest
  on `ProcessedStatus` and `DeadStatus`, that a set timestamp fixes the status
  column, so that every other writer's WHERE clause excludes the row.
* `ProcessedRowsWereProjected`: `ProcessedWasProjected` is not inductive; it is
  followed back through an attempt (`ProjectionInv`): an attempt opens on a
  committed row, its facts contain the row, the installed graph contains it.
* `NoGovernedRowLost`: `NoRowLost`, assuming `~SlowDispatch`, that is, that a
  dispatcher run ends within its five-minute claim (it is false without
  the assumption, see above). The inductive invariant is
  `DeliveryInv`: a live claim has one holder and is neither pending nor stale;
  the messages of a run that has sent and not yet marked are outstanding; so are
  those of every row in `dispatched` or `processing`. The key lemma is
  `DeliveryKept`: the delivery of an unsettled, claimed row ends only in another
  delivery.
* `OutboxIsImplemented`: the refinement of `Outbox`. The stage of a row is read off
  its status column (`Stage`), what was shown are the installed graphs. `RefineInv`
  adds that a row not yet committed is in nobody's hands (`UncommittedIsUntouched`):
  no message, claim or attempt can bring it to a later stage, and no graph shows it.

`IdempotencyGuardProofs` proves, for every set of requests and every number of
failing handlers, lost statements and crashes (assumptions
`NoRequestAssumption`, `GuardBounds`):

* `TypeCorrect`: `Spec => []TypeOK`.
* `ReplaysAreOfEffects`: `ReplaysComeFromEffects`, strengthened to `ReplayInv`:
  a request about to complete the row has written, and the response a completed
  row stores belongs to a request that has written.
* `StoredResponseStays`: the action property; complete and release both ask for
  an unanswered row, and the INSERT for no row.
* `KeyWritesOnce`: `AtMostOneEffect`, from `SingleHolder`: until something fails
  the row is never deleted, so no SELECT finds it gone and the request that
  inserted it stays the only one to run its handler.
* `ReservationsAreHeld`: until a statement is lost or a worker dies, a reserved key
  has a request on the way to completing or releasing it. This is the safety half of
  `ReservationEnds`; it holds although a release may delete another request's row.

`DigestApprovalProofs` proves, for any number of days, executor drafts, sweeps and
lost post steps (assumption `DigestBounds`), `TypeCorrect`,
`PostedDigestsAreApproved` (`PostedWasApproved`) and `DecisionsStay`
(`DecisionIsFinal`). Both rest on `ApprovalInv`: an absent proposal has no
`approval_state`, so that inserting a draft never overwrites a decision, and a
post step runs for an approved proposal only, so that what it closes is approved
when it claims and stays so. `ApprovalsAreOnTheirWay` is the safety half of
`ApprovedIsPosted`: until a post step is lost, an approved digest has its receipt or a
post step on its way to it. `PostInv` adds that the post step of a digest is started by
its approval alone and finds it in `needs_review` when it reads and when it claims.

`InviteDeliveryProofs` proves, for every set of attempts and requests (assumption
`NoneAssumption`: the null value is no attempt), `TypeCorrect` and:

* `ReceiptsNameInvitations`: the invitation an attempt holds is one the provider
  sent for its command, and a finalized row takes it from an attempt that names
  the row's command.
* `CommandsSentOnce`: `SentOncePerCommand` needs `SendInv`: an attempt about to
  create that is within its lease holds the lease of its row, and either it
  inserted the row or it has looked and found none, so nothing sent for the
  command comes from an attempt within its lease; the command of a row belongs to
  one key (`FreshCommands`).
* `DeliveryImplementsStrictCommand`: the initial states and every step map to
  `StrictCommand`; `AnswerInv` says that what was answered is what the row stores, and
  a refusal comes from an attempt that was delivering, or whose request is not the
  one performed.
* `InviteKeysHaveOneOutcome`, and likewise `MemberKeysHaveOneOutcome` and
  `PlanKeysHaveOneOutcome` for the two components below: what the refinement gives the
  callers. A key takes effect once at most, who is told of a success is told of an
  effect of its own request, and attempts that share a key and are told of a success
  are told the same. The invariant of the abstract specification is `OutcomesStand`:
  the outcome of a key is the one effect it had, and what was reported is the outcome
  still.

`MembershipProofs` proves, for every set of users, attempts, sessions and requests,
`TypeCorrect` and:

* `WorkspaceKeepsOwner`: an attempt past its locks holds every owner of its
  snapshot that still is one; a commit that takes the role from an owner therefore
  counts another row it has locked, and that one stays.
* `MaterializationOnlyAdds`, and `AuthorityIsMirrored` with users who set any mode
  they like: each commit writes member row and entitlement together, except for `late`
  users, whose entitlement is that of an invitation; so who has the full entitlement
  and is an active member has an operator-grade role.
* `MemberCommandsAreStrict`: the refinement of `StrictCommand`, with
  `AnsweredOnce`: an attempt that may still commit has not answered.

`PlanCommandProofs` proves, for every finite set of entities, every well-formed
plan to start from and every set of attempts and requests (assumptions
`IdsAssumption`, `RequestsAssumption`, `PlansAssumption`, and `SeedAssumption`: the
`updated_at` of the first rows is not one that a command writes), `TypesKept` and:

* `SiblingsStayPacked`: `SiblingsPacked` is not inductive, because a transaction
  computes its rows before it commits and others commit in between. `PlanInv` adds
  that sibling locks exclude each other and cover the groups of the command
  (`LocksCover`); that a target with the `updated_at` that was read also has the
  parent that was read (`TargetsKnown`, which needs that a commit's `updated_at` is
  new, `VersionsSpent`), so that the groups which were locked are those the re-pack
  numbers; and that the rows written and not committed, laid over the rows as they
  are NOW, number the groups of their command (`DraftsPack`). Another commit keeps
  the last part because it touches only groups whose lock it holds
  (`OtherDraftStays`). What `ROW_NUMBER()` does is `RanksArePacked`: the ranks of a
  finite set under a strict order by place and id are `0 .. n-1`, by injectivity
  and cardinality rather than by induction.
* `UpdatesAreNotLost`: `NoLostUpdate`, from the same invariant: a target that was
  live and unchanged at the mutation is so at the commit.
* `PlanCommandsAreStrict`: the refinement of `StrictCommand`. `ClaimsExclusive` says
  that in a transaction the replay row is one's own exactly when the key has no
  outcome, and that no two open transactions own one key.
* `NobodyWaitsInACircle`: the safety half of `EveryAttemptAnswers`. Of any non-empty
  set of waiting attempts one waits for none of the set, so there is no deadlock. An
  attempt waits for a key before it holds anything, and for a sibling lock only while
  all it holds has smaller keys (`LocksClimb`, the sort in
  `plan-command-operations.ts:39`); so along a chain of waits the wanted locks climb
  (`WaitsClimb`), and an attempt whose wanted lock is the largest waits for nobody.

`GovernedIntakeProofs` proves, for every set of packets, approvals, resolutions,
calls and client ids (assumption `VerdictsAssumption`: verdicts are among the three
the routes accept), `TypesKept`, `EffectsAreReceipted` (`OneEffectPerReceipt`),
`ContinuedOnce` (`NoDoubleContinue`), `SuccessHasReceipt` (`SuccessIsReceipted`) and
the action property `DecidedForGood` (`DecisionsAreFinal`). The inductive invariant
`Inv` adds `Unclaimed`, only a consumed resolution has a receipt, so that the guarded
claim of the statement lets one execution through; and `Advanced`, a packet is past
the version that a receipted continuation previewed, so that a second one with the
same preview finds a version it does not expect.

`RecommendationsProofs` proves, for any number of events, goals, detections, ticks and
decisions, any `Limit` and any bound on dates and rows (assumptions
`LimitAssumption`, `SourcesAssumption`, `CallsAssumption`), `TypesKept` and, from the
inductive invariant `Inv` (`InvHolds`):

* `CursorLeavesNoneBehind`: `NoEventForgotten`. A tick that has read its events has
  every event dated after the cursor it read examined, passed over, or still in its
  hands, so that moving the cursor to the clock passes over no other.
* `RulesAreDebounced`: `DebounceHolds`. Ticks that never overlapped run one at a time,
  and the debounce looked up is still true at the insert (`OneAtATime`).
* `AcceptedMeansApplied`: `AcceptedWasApplied`, from `Applying`: an acceptance that is
  about to set the status has applied its payload, whoever decided in between.
* `DecisionsSettle`: `SettledIsFinal`. A row is inserted where there is none
  (`NotYetInserted`), an expiry asks for a pending row, and so does every call that
  gets past its check.

`DigestApprovalProofs` also proves, of `OperationsExecutor`, for any number of
overlapping runs, any page size and any faults, and without assumptions on the
constants:

* `ExecutorTypeCorrect` (`ExecutorTypeOK`): a run that works on a command has not come to the
  end of its page (`ExecTypes`), a page has a newest row (`NewestIsThere`), and new rows
  go behind it, so that the event in hand is one of the queue's and stays the same.
* `VerbsRunAtMostOnce` (`VerbRunsAtMostOnce`), `EndsAreExplained`
  (`TerminalIsExplained`) and `CompletedRunsExactlyOnce`, that a completed command's
  verb ran once. In `ClaimInv` a claimed command is running and has one holder, has not
  run its verb when it was just claimed and has run it when its result is appended, and
  has its result or note before its last transition.
* `RunningCommandsAreHeld`: the safety half of `CommandsFinish`. A running command that
  no rejected statement and no death of its own run has stranded has exactly one run on
  its way with it.

`ProjectionOutboxProofs` also proves, of `GraphPersist`, for any number of callers:

* `GraphTypeCorrect`: `GraphTypeOK`, however rebuilds overlap; the facts read never runs
  past the last table, from `GraphBounds`.
* `ConvergedGraphsStay`: `ConvergenceStays`, however rebuilds overlap and fail. Once
  graph and anchor are the projection of the tables and every running rebuild has read
  them as they are, only a writer's commit changes that.
* `UndisturbedRebuildsConverge`: the other safety part of `GraphConverges`. With any
  number of overlapping rebuilds that install in the order they started (`[]InOrder`), a
  rebuild whose reads no commit overtakes (`ReadsAgree`) ends with the graph the
  projection of the tables, also when it skips the write because nothing drifted.

Every inductive invariant was checked by TLC on the instance of the component's run
before it was proved.

Only model-checked: the liveness properties `GovernedRowsSettle`, `AnchorConverges`,
`GraphConverges`, `ReservationEnds`, `CommandsFinish`, `ApprovedIsPosted` and `EveryAttemptAnswers`, because
fairness is out of the prover's reach. For each of them what is proved is the invariant it
rests on: the work is never dropped (`NoGovernedRowLost`, `ReservationsAreHeld`,
`RunningCommandsAreHeld`, `ApprovalsAreOnTheirWay`), is not undone (`ConvergedGraphsStay`) or
is not waiting in a circle (`NobodyWaitsInACircle`). That the next step is then enabled, and
is taken, is TLC's part. What `Below`, a recursive function, computes for every hierarchy
would need induction over data, which the prover does not do; where an argument needs a
least or a largest number (`LeastNumber`, `NewestIsThere`), it uses that `<` on the naturals
is well-founded.

## Not modelled

Project commands (`project-command-store.ts`) use the claim, envelope and assertion
of the plan commands without their locks. The rest of the operational spine
(evidence, tool events, completion contract), goals, roadmaps and rules, synthetic
domains and the template registry are single-statement writes. Chat, model
runtimes, OAuth, connectors and the MCP gateway are I/O and translation around the
stores modelled here; the scripts are release tooling. These make up most of the
repository's lines; nothing here says anything about them.

## Plan

1. The composition of an authority command with its outbox row: an effect of
   `StrictCommand` is an owed row of `Outbox` in the same step.
2. Lemmas on `Below` as far as they need no induction (what one level of the hierarchy
   contains).
