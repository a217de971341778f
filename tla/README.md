# A TLA+ verification of the Kafka plugin for piped

This directory models the Kafka plugin of this repository (`src/` in the paths
below is the repository root): the planner, the four deployment stages, the
drift report, and the two services they talk to. TLC checks the models on small
instances; TLAPS proves, for any topics, keys, revisions, deploy targets and
pipelines, what the plugin promises the people who share the cluster with it.

A reader who wants one thing: `Custody.tla` says in eighty lines what the
plugin may ever do to a cluster; `DeploymentProofs.tla` proves that
`Deployment.tla` — every request, failure, restart and interference — does no
more than that. `StageProofs.tla` and `PipelineProofs.tla` prove what success
means, `PlanProofs.tla` that the planner misses nothing, `TenancyProofs.tla` that
two applications can be at work at once, `LivestateProofs.tla` that a drift
report is true, and `PreparationProofs.tla` what becomes of the files a stage
reads and of the clients it makes.

## 1. The system

piped (external, the caller) runs one deployment of an application at a time.
It checks out the application at the *running* and at the *target* commit,
builds the pipeline, and calls the plugin for each stage. Between deployments,
on a timer, it asks for the live state.

```
   piped ──ExecuteStage──▶ stage ──LoadTopics──▶ topic files of one commit
     │                       ├──ListTopics (2 requests)──▶ Kafka cluster ◀── everybody else
     │                       ├──Build ── LatestSchema, CheckCompatibility ─▶ schema registry
     │                       └──create / alter / grow / delete / register, one by one
     └──GetLivestate──▶ ListTopics, LoadTopics, LatestSchema…, Build ──▶ resources + sync state
```

| Component | State | Operations | What makes it correct |
| --- | --- | --- | --- |
| planner, `plan/plan.go`, `plan/change.go` | none; its result is a plan of changes and blocked changes | `Build`: `planTopic`, `compareExisting`, `diffConfig`, `planSchema`, `planDeletions` | A plan is empty exactly when there is nothing to do; nothing left of it is ever refused; deletions come last; planning again halfway yields the rest; it holds only what the revision declares and the deploy target permits. |
| stage execution, `deployment/{plugin,plan,schema,apply,rollback}.go` | the plan, what was applied and what failed; nothing is persisted | `ExecuteStage` → `executePlan`, `executeRegisterSchema`, `executeApply`, `executeRollback`; stage building | Success means what it says; a blocked plan changes nothing; what is deployed is what was reported; an interrupted stage can be executed again; a stage returns. |
| cluster client, `provider/kafka.go`, `provider/cluster.go` | the cluster (external, shared) | `ListTopics` (list, then describe configs), `CreateTopic`, `AlterTopicConfigs`, `IncreasePartitions`, `DeleteTopic` | A listing may be torn and a request may take effect without an answer; neither may take the plugin out of custody. |
| registry client, `provider/registry.go` | the registry (external, shared) | `LatestSchema`, `CheckCompatibility`, `RegisterSchema`, `SoftDeleteVersion` (no caller) | What is registered is the declared schema of a topic that is not protected. |
| live state, `deployment/livestate.go` | none between reports | `GetLivestate`: list, load, read subjects, plan | The status is true; a report that says synced shows no topic as drifted, and a subject only if it changed during the report; a failing read raises no alarm. |
| topic loading, `provider/topic.go` | the topics loaded so far | `LoadTopics`: files, YAML streams, defaults, validation, duplicates, schema files, ownership check | What is loaded is what the files declare, whatever their order, and nothing else is refused or dropped. |
| config, `config/config.go` | none | `Validate`, `resolveSecret`, stage options, topic defaults | The rails are what the deploy target says; a client is never made without the secret its config names. |
| broker connection, `provider/kafka.go`, `provider/registry.go`, `connect` | the clients that are open | `newKgoClient`, `buildTLSConfig`, `buildSASL`, `NewRegistry`, `Close` | Every client is closed, whichever step fails. |
| fakes, `provider/fake.go` | in-memory cluster and registry | as above | They accept what the real services accept. |
| rendering, `plan/render.go`; `main.go` | none | – | – |

What is hard here is that nothing is transactional. The cluster and the
registry are shared: between any two requests of a stage somebody else may
create, delete, alter or grow a topic or register a schema. Every stage, and
every attempt at one, lists the cluster and plans anew, so what is applied is
not the plan that was shown. A request may fail, or take effect and lose its
answer. `continueOnError` goes on after failures. piped may restart in the
middle of a stage, with another deploy-target config, and executes the stage
from its beginning. A deployment may be cancelled, or run into a deadline, in
the middle of an apply. Another application's stages run at the same time. The
secrets and certificates of a deploy target are read from the host twice, and
may be rotated in between. A rollback works from another revision than the deployment
it follows. `PROJECT.json` lists these hazards one by one with the line where
each bites and the property that would catch it.

## 2. The modules

```
Provider ◀── Plan ◀─┬─ Apply ◀──┬─ Deployment ◀─┐
 ▲  ▲  ▲            │           │       ▲       ├─ DeploymentProperties ◀─┬─ DeploymentHistory
 │  │  │            └─ Conformance ◀────│───────┘     │ INSTANCE          ├─ DeploymentProofs
 │  │  └ Custody ◀────────│──────│──────│─────────────┘                   ├─ Tenancy (and an INSTANCE of
 │  │                     │      │      │                                 │    PipelineProofs, below)
 │  │                     │      │      │                                 └─ MCDeployment
 │  │                     │      └─ Convergence (with Conformance)
 │  │                     └─ Livestate  │
 │  └─ Loading ◀────┐                   │ INSTANCE
 └─── Connecting ◀──┴─ Preparation ─────┘
```

The proofs are in modules of their own:

```
Conformance, Apply ◀─ PlanProofs ◀─┬─ ConvergenceProofs (with Convergence)
                                   ├─ LivestateProofs   (with Livestate)
                                   └─ DeploymentProofs  (with DeploymentProperties)
                                         ◀─ StageProofs ◀─ PipelineProofs (with DeploymentHistory)
PipelineProofs ◀─ TenancyProofs (with Tenancy, which has an INSTANCE of PipelineProofs)
Preparation ◀─ PreparationProofs
```

| Module | Models | Correspondence |
| --- | --- | --- |
| `Provider` | `provider/`: the cluster and registry as the plugin sees them, revisions, rails | `ListedTopics`/`WithConfigs` are the two requests of `ListTopics`; each admin call is a pair "accepted when" / "leaves behind". |
| `Plan` | `plan/`: `Build` and all it calls | One operator per function. `Build` is the whole plan in one step; `Deployment` and `Livestate` use its parts one request at a time. |
| `Apply` | the `switch` of `applyChange` and its schema counterpart | `Accepted`, `ClusterAfter`, `RegistryAfter` per kind of change. |
| `Deployment` | piped's driving of a deployment and `ExecuteStage` | see below |
| `Custody` | abstract: what the plugin promises those who share the cluster | `StaysInCustody` of `DeploymentProperties` refines to it |
| `Conformance` | what "as declared" means, said without a plan | used by the properties only |
| `DeploymentProperties`, `DeploymentHistory` | the properties; two history variables for the ones about a whole deployment | the history follows the other variables and constrains nothing |
| `Convergence` | one plan carried out in its order, alone | the planner over all bounded inputs |
| `Livestate` | `GetLivestate`, read by read | |
| `Loading` | `provider/topic.go` | `StepsOver`, `ApplyDefaults`, `Validate`, `SchemaLoads`, `TakesDocument` are the functions of that file; `Loadable`, `TopicsDeclared`, `AsRevision` say the same without an order of files and documents |
| `Connecting` | `config/config.go`, `newKgoClient`, `NewRegistry` | `ValidConfig`, `ResolveSecret`, `BrokerClient`, `RegistryClient` |
| `Preparation` | a stage from its call to the end of its first listing | see below; implements `Deployment`'s `Begin` |
| `Tenancy` | two applications deploying to one cluster and registry | `DeploymentProperties` for this application, and for its neighbour an `INSTANCE` of the whole up to `PipelineProofs`, so that every lemma about a deployment is a lemma about the neighbour's |
| `*Proofs` | the theorems, section 4 | |
| `MC*` | the constants of the small instances | |

### Deployment

A step is one request, or the computation between two requests.

| Action | Code |
| --- | --- |
| `StartDeployment`, `NextStage`, `Complete`, `StartRollback`, `GiveUp` | piped, with the stage lists `BuildPipelineSyncStages` and `BuildQuickSyncStages` return |
| `Begin` | a stage's early returns, config decoding and `LoadTopics` |
| `List`, `Describe` | `ListTopics` |
| `PlanNextTopic`, `CheckNextSchema` | one iteration of `Build`'s loop, before and after the answer of `LatestSchema` |
| `Decide` | the end of `Build` (`planDeletions`) and what the stage makes of the plan: `PlanVerdict`, `Work`, `Verdict` |
| `Perform`, `Refused` | `applyChange` / `RegisterSchema` when the request is answered |
| `RequestLost`, `AnswerLost`, `ReadFails` | the same, and the reads, when it is not |
| `CutOff` | the stage's context ends during an apply that continues on errors, or a rollback: each change left fails at once |
| `Finish` | the stage's last lines |
| `Restart` | piped restarts, perhaps with another deploy-target config |
| `Others` | everybody else on the cluster and the registry |

`quiet` is a history variable: `quiet.run` says that nobody else changed
anything since this stage began to list, `quiet.deployment` that nobody did, and
the deploy target stayed as it was, since the deployment began. Properties that
cannot hold under interference assume it; the custody properties do not.

### Preparation

| Action | Code |
| --- | --- |
| `Check` | `singleTarget`, `Validate`, stage options, the rollback that has nothing to go back to |
| `ConnectCluster`, `ConnectRegistry`, `ConnectRegistryFails`, `ConnectWithoutRegistry` | `connect`; from then on `Close` is deferred |
| `ReadApplication` | the registration stage without a registry; the application config and the topics directory |
| `ReadEntry`, `TakeDocument`, `CheckOwnership` | the two loops of `LoadTopics`, with `parseTopicFile`: a file is refused whole when a document of it cannot be decoded, and a document of comments is stepped over when its turn comes |
| `DialListing`, `EndListing` | the client `ListTopics` makes for itself, and its deferred `Close` |
| `EndStage` | the rest of the stage, which `Deployment` has in detail |
| `ClientFails` | a library refuses to make a client |
| `Rotate` | somebody replaces, empties or removes a file that the deploy target names |

`BeginsAsDeployment` maps everything before the listing to `Deployment`'s
`begin`: each way out of it is `Begin`, from the revision that `AsRevision`
makes of the files, or a failed read.

### Tenancy

The two applications share `cluster` and `registry` and nothing else. Each has
all of `Deployment`'s steps but `Others`; a step of one leaves the other's variables alone.
What they may touch is kept apart by configuration, as `README.md:124` asks:
`TenancyAssumption` says that ownership patterns and schema subjects do not
overlap. `quiet` knows only of people outside both, so a property that assumes
it for one application holds while the other is at work. `TSpec` is the two of
them alone, which TLC checks; in `CrowdedSpec` third parties (`Others`) may
disturb both, and the proofs are about that one. A neighbour that keeps to its
own custody is not `Others`, and is why more can be promised.

### Abstractions

- Names are numbers, so that `<` is the order `sort.Strings` and the maps' sorted
  keys give; a glob pattern is the set of names it matches.
- A config is a function of every key, with `None` where a key is not set; a
  config change sets some keys and resets others.
- A subject is the body of its latest version and the set of older ones; bodies
  are compared after `strings.TrimSpace`. The registry keeps one version per
  body: registering an older body again changes nothing. Compatibility is a
  relation between the latest body and the new one, per level; transitive levels
  would look at the older ones too. Version numbers and ids are left out.
- A request has room for counts of three bits (`MaxPartitions`, `MaxReplicas`)
  instead of 32 and 16: `Narrowed` is the conversion, and a count of -1 asks the
  cluster for its default.
- `Plan.Changes` is a set with the order `Before`, and `IsNext` is the first of
  the changes left.
- Acceptance is the services' own. `CreateAccepted`, `AlterAccepted` and
  `DeleteAccepted` are what the fake cluster accepts; a partition count has to
  exceed the present one, where the fake takes an equal one too
  (`provider/fake.go:108`). Of clients the model has what they show: the secret, a
  blank one beside a username, or nothing.
- In `Deployment` a deploy target is its four rails, and everything before the
  first request is `Begin`, or `ReadFails`; `Preparation` has those steps.
- A document is the fields it sets; a file on the host is missing, blank or good.
  An inline secret is good. A file the deploy target does not name counts as good,
  and is never rotated, since nobody reads it.
- A rollback's plan is made from the running commit's own application config
  with the deploy target of today, as in the code.

## 3. What TLC checks

| Run | Question | Bounds | States |
| --- | --- | --- | --- |
| `quiet` | Nobody else at work: does success mean what it says, does re-planning continue where the last attempt stopped, do later stages agree with `KAFKA_PLAN`, is what is deployed what it showed, do deletions come last? | seven commits (one that does not load, one in which two topics share a subject, one with narrower ownership, one with counts too large for a request), four targets, the full pipeline and a quick sync, two deployments, one lost request or answer or cancellation, one restart | 2.1 M |
| `contended` | Anybody may change any topic or subject between any two requests: `CustodyInvariant`, `BlockedPlanIsNotApplied`, and the refinement `StaysInCustody`. | three commits, three targets, two deployments, one foreign change, one fault, one restart | 2.6 M |
| `tenancy` | Can two applications deploy at the same time? | two commits each (one deletes), two deployments with a fault beside one without, every start of both services | 1.1 M |
| `liveness` | Does every stage return and every deployment end? | two commits, one deployment, one foreign change, one fault, one restart | 0.3 M |
| `preparation` | Does a stage load what is declared, close what it opens, show the secret it was given, and begin as `Deployment` says? | twelve kinds of document, up to three in two files beside another entry, with and without defaults; twelve deploy targets, five files on the host, two rotations, one fault | 0.12 M |
| `planner` | Is the plan empty exactly when the services are as declared; do the services accept what is left of it; does planning again halfway yield the rest? | one topic: up to three partitions, two factors, two keys with two values, two bodies, every target, ownership and declaration; two topics: every pair of declarations and states with two subjects | 0.25 M |
| `livestate` | Is a report true, and consistent with itself? | four commits, four targets, any state of the services before the first read and two foreign changes after it, one failing read | 4.4 M |

Why the bounds are enough to meet the cases: two deployments, because a
rollback restores the *running* revision and there is none before a first
success; one fault, because a fault's effect is a stage that failed with part of
its changes made, which the next stage or deployment meets; one restart and one
foreign change may fall between any two steps, and a second one finds the stage
in a state the first could have left. Two topics are enough for an order, for a
protected topic beside an ordinary one and for two users of one subject; two
bodies, of which "b2" may replace "b1" and not the reverse, give compatible,
incompatible and unchanged schemas; one key with two values and "not set" gives
every case of `diffConfig`, and `planner` adds a second key. Registrations
that stop after some of several schemas are beyond these instances, which have
one subject in `quiet`; `SuccessfulDeploymentIsSynced` covers them by its proof. Two
rotations, because a stage reads a password twice; three documents, because the first
decides nothing, the second may repeat it and the third may come after a
failure. In `tenancy` this application has two deployments, for a rollback to
the first; both deploy with a pipeline that only applies, so that the apply
stage is met without a registration stage before it. The bounds `MaxDeployments`,
`MaxOthers`, `MaxFaults`, `MaxRestarts`, `MaxRotations`, `TheirDeployments`,
`TheirFaults` are spent from `budget` in the guards. Behaviours stop when they
are used up, hence `CHECK_DEADLOCK FALSE`: a deployment that stands still before its end would be a
violation of `DeploymentEnds`, not of deadlock freedom.

The properties:

- `ApplySuccessMeansConverged`, `RollbackSuccessMeansRestored`,
  `SuccessfulDeploymentIsSynced`: a success, said of the cluster and not of the
  plan. The code never looks at the cluster again after it applied; these hold
  because every difference is in the plan and every failed change makes the
  stage fail.
- `ApplyCanBeResumed`: at each point of an apply a fresh plan holds all that is
  left and otherwise only what failed. This is what makes it right to run an
  interrupted stage from its beginning, and to keep no record.
- `PlannedChangesAreAcceptable`: without interference the cluster refuses
  nothing, whichever of the changes before failed or lost its answer.
- `DeletionsComeLast`: when an apply deletes a topic, every declared topic is as
  declared by then, said of the cluster and over earlier attempts that were cut
  off. It excepts what `doc_deletions_last` shows: an apply that continues on
  errors and has met one.
- `ApplicablePlanStaysApplicable`, `DeploysWhatWasReported`: stages that plan
  separately agree with each other.
- `RegisterSuccessMeansRegistered`: also when topics share a subject, where
  `SuccessfulDeploymentIsSynced` says nothing.
- `BlockedPlanIsNotApplied`, `StaysInCustody`: under all interference.
- `EachConverges`, `DeploymentsStand`, `NoPlanGoesStale`: the promises above for
  both of two applications at once. `OnlyAListingCanFail` bounds what they can do
  to each other: a topic deleted between the two requests of a listing fails the
  stage that listed, for `DescribeTopicConfigs` is asked about every topic on the
  cluster, not only those of the application.
- `LoadsWhatIsDeclared`, `RefusesOnlyTheUnloadable`: together, `LoadTopics` depends
  on what the files say and not on their names and order.
- `NamedSecretIsShown`: a client whose config names a secret is made with one or
  not at all. A registry with a username and no password names none; its client
  is made with a blank one (`provider/registry.go:36-38`), see section 5.
- `ClientsAreClosed`, `BeginsAsDeployment`, `PreparedStageReturns`.
- `EmptyPlanMeansInSync`, `RebuildingYieldsTheRest`, `NothingIsRefused`: the planner by itself.
- `StatusIsTrue`, `SyncedShowsNoDrift`: the drift report. The second holds under
  interference. For topics it does because resources and plan are made from one
  listing; the mutant that lists again breaks it. A subject is read twice
  (`deployment/livestate.go:225`, `plan/plan.go:150`), so one may well be shown as not
  registered beside "synced", but only one that somebody changed between the two:
  `moved` keeps those.
- `StageReturns`, `DeploymentEnds`.

What the properties assume, where the code does not promise more:
`DistinctSubjects` (no two topics name one subject; see section 5),
`NothingReverted` (no declared body is an older version of its subject, for a
registration that changes nothing leaves the topic out of sync) and `CountsFit`
(a request has room for every declared count; without it,
`AppliedCountsAreDeclared` fails). `DeploysWhatWasReported` assumes `PlansFirst`:
a pipeline is whatever `app.pipecd.yaml` says, and a second `KAFKA_PLAN` after an
apply would show less than was done. `OnlyAListingCanFail` assumes that the
revision is `Deployable`: counts that do not fit reach the cluster as others,
which it may refuse, two bodies for one subject may be incompatible with each other, and a
schema without a registry fails `Build`. It speaks of a stage with no third
party at work (`quiet.run`), and says that what the listing missed belongs to
*some* commit of the neighbour, which may be at work on another one by then.
`Deployable`, `PlansFirst`, and `CountsFit` in `RebuildingYieldsTheRest`, were
missing until a proof failed for want of them; no instance that TLC ran has such
a pipeline or such a revision there.

Fairness (`FairSpec`): `WF_vars(Plugin)`, since a stage runs in one goroutine
whose requests have answers or errors and which nothing blocks, and
`WF_vars(EndsStage)`, since piped goes on from a stage that returned. `Plugin`
has only the steps with answers, so that fairness never relies on a fault.
Nobody has to start a deployment, interfere or restart. The requests carry
piped's context, and that a request which is never answered is ended is an
assumption: the client of a registry with a CA of its own sets no timeout
(`provider/registry.go:71`), so that such a request ends with piped's context only,
whenever that is. `Preparation` has `WF_vars(Stage)` for the same
goroutine; nothing makes it fair that a file is rotated.

## 4. What is proved

The theorems hold for every number of topics, keys, subjects, revisions, deploy
targets, pipelines, deployments, faults, restarts and foreign changes. What they
assume of the constants is `ProviderAssumption` and each module's own assumption:
types; that topic names are numbers; that `None` is none of the values, and, in
`DeploymentAssumption`, no verdict. TLC evaluates each of them.

### The planner: `PlanProofs`

| Theorem | States |
| --- | --- |
| `AlterReachesDesired` | carrying out `DiffConfig` yields the declared config |
| `TopicNeedsAreMet` | the cluster accepts each change the topics need, and the needs and refusals afterwards are the rest |
| `SchemaNeedsAreMet` | the same of registrations, when no subject has two topics and nothing is reverted |
| `NoTopicNeeds`, `NoSchemaNeeds`, `BuildParts` | nothing is needed exactly when all is as declared; a plan is the needs of topics and of schemas |
| `EmptyPlanIsSync` | `Build` is empty exactly when both services are as declared |

`Build` is a union over the declared topics, followed by the deletions. The
proofs turn it into a union over *all* topics, of `NeedsOf(r, g, t, found)`: what
topic `t` needs is a function of that topic's state alone (`BuildByTopic`). A
change then moves one topic, and takes away one need of that topic and none of
another's (`NeedMet`, one case per kind of change); everything that later proofs
say about planning again rests on this. The counts need `CountsFit`: a request
narrows a count (`NarrowedFits`), and a topic created with another number
needs a change forever. `PlannedFor` is the plan halfway through the loop, for the two
modules that build it one request at a time.

`ConvergenceProofs` draws the conclusions for the module `Convergence`:
`PlannerTypeCorrect` (`TypeOK`), `EmptyPlansHold` (`EmptyPlanMeansInSync`),
`RebuildingHolds` (`RebuildingYieldsTheRest`) and `NothingRefusedHolds`
(`NothingIsRefused`). The last does not follow from the third, which assumes
`NothingReverted`: `RestIsNeeded` says that the topic changes left are needs of the
topics, `RestIsCompatible` that the registrations left are compatible and of
different subjects, so that one never stands in the way of another.

### Custody: `DeploymentProofs`

| Theorem | States |
| --- | --- |
| `CustodyInvariantHolds` | `Spec => []CustodyInvariant` |
| `TypeCorrect` | `Spec => []TypeOK` |
| `BlockedPlanIsNeverApplied` | `Spec => BlockedPlanIsNotApplied` |
| `PluginStaysInCustody` | `Spec => StaysInCustody`: `Deployment` implements `Custody` |

`TypeOK` alone is not inductive and says nothing of custody. `CustodyInvariant`
adds the four parts that make it so:

- `InDeployment`: outside `idle` there are a revision, a pipeline and a stage of
  it, so that `pipeline.stages[position]` is defined;
- `HasSource`: past its beginning a stage has a revision that loads, and `Build`
  only comes to topics it declares. It is `Begin` that establishes this, by
  ending a rollback with nothing to go back to;
- `ChecksSchema`: between `LatestSchema` and `CheckCompatibility` the topic in
  hand still has a schema to plan;
- `PlanIsWarranted`: every planned change is `Warranted` by the stage's own
  revision and deploy target, and every change still to do is of a kind the
  stage carries out (`StageDoes`). The plan, not the listing, is what keeps the
  plugin in custody: a warranted change stays warranted however stale the
  listing gets.

One lemma per action, then `NextInvariant`. The refinement maps `mandate` to the
stage, its target and its source, and `work` to the plugin's own progress
`<<pc, verdict, run>>`: planning steps are steps that leave both services alone,
piped's steps hand over a new mandate or none, and only `Perform` and
`AnswerLost` (`TryActs`) move a topic or a subject. `WhoChangesTheWorld` is the
lemma that nothing else does.

### What success means: `StageProofs`

| Theorem | States |
| --- | --- |
| `StageInvariantHolds` | `Spec => [](CustodyInvariant /\ StageInvariant)` |
| `ApplySuccessHolds` | `Spec => []ApplySuccessMeansConverged` |
| `RollbackSuccessHolds` | `Spec => []RollbackSuccessMeansRestored` |
| `RegisterSuccessHolds` | `Spec => []RegisterSuccessMeansRegistered` |
| `ApplyResumes` | `Spec => []ApplyCanBeResumed` |
| `PlannedChangesAccepted` | `Spec => []PlannedChangesAreAcceptable` |
| `DeletionsAreLast` | `Spec => DeletionsComeLast` |

A stage that succeeds does not look at the cluster again, so the invariant has to
follow what is true of it from the listing to the last request. While a stage is
undisturbed, `StageInvariant` says: for the topics it owns, the listing is the
cluster (`ListingIsTrue`; between the two requests of `ListTopics`, the cluster
without its configs; of other topics nothing is said or needed); the
plan so far is the one `Build` makes for the topics it has come to
(`PlanIsTrue`); and while changes are carried out, what is left to do is needed,
and what is needed is left to do, failed, or left out by the stage's name
(`WorkIsNeeded`). A change whose answer was lost counts as failed although it
took effect, hence "what is needed is among", and not "is". A registration keeps
every version a subject has, so what
`KAFKA_REGISTER_SCHEMA` owes is said of versions and not of the latest one
(`RegistrationIsLeft`): this is what makes it true of topics that share a subject.

`DeletionsAreLast` reads the same invariant at the step that deletes. Only a
deletion takes a topic away (`OnlyDeletionsDelete`); when it is next, only deletions
are left; nothing has failed (`NoFailureYet`, of a stage that stops at its first
failure), so that what is left is all that is needed; and a declared topic that
needs and is refused nothing is as declared (`OnlyDeletionsAreLeft`).

### A whole deployment: `PipelineProofs`

| Theorem | States |
| --- | --- |
| `PipelineInvariantHolds` | `Spec => []PipelineInvariant` |
| `PlanStaysApplicable` | `Spec => []ApplicablePlanStaysApplicable` |
| `DeploymentIsSynced` | `Spec => []SuccessfulDeploymentIsSynced` |
| `DeploymentDoesWhatWasReported` | `HSpec => []DeploysWhatWasReported` |

These relate stages that never see each other's plans. `PipelineInvariant`
carries what each stage that is past has left behind in an undisturbed
deployment: after `KAFKA_PLAN` nothing is refused; after
`KAFKA_REGISTER_SCHEMA` the registry knows every body; after `KAFKA_APPLY` no topic
needs a change. A later stage may only take needs away, and a rollback is no later
stage. `InPlace` says where in its pipeline a deployment is, and that one that
ended in success had a revision. `HistoryInvariant` does the same for what was reported and what landed:
what is needed now, together with what has landed, is what was reported
(`ReportIsTrue`, `RegistrationsLand`).

### Two applications: `TenancyProofs`

| Theorem | States |
| --- | --- |
| `BothInvariantsHold` | `CrowdedSpec => []BothInvariants` |
| `EachApplicationConverges` | `CrowdedSpec => []EachConverges` |
| `SuccessfulDeploymentsStand` | `CrowdedSpec => []DeploymentsStand` |
| `PlansDoNotGoStale` | `CrowdedSpec => []NoPlanGoesStale` |
| `OnlyTheListingCanFail` | `CrowdedSpec => OnlyAListingCanFail` |
| `WithoutThirdParties` | `TSpec` has these four properties, as `tenancy` checks them |

The argument is one of assumption and guarantee, and neither side is assumed of
the other: both are proved of `Deployment`.

- What a deployment *guarantees*: a step changes no topic and no subject outside
  what some revision of its own owns or names (`ChangesOnlyItsOwn`, from the
  refinement of `Custody`).
- What a deployment *endures*: `Elsewhere` is any step that leaves its variables,
  the topics its revisions own and the subjects they name alone, whatever it does
  to the rest. `ElsewhereKeepsCustody`, `ElsewhereKeepsStage` and
  `ElsewhereKeepsPipeline` say that the three invariants survive it. They rest on
  `OnlyItsOwnCounts` of `PlanProofs`: `Build`, the needs and `Synced` read nothing
  of the cluster outside the ownership patterns and nothing of the registry
  outside the subjects named.
- `TenancyAssumption`, that ownership and subjects do not overlap, turns the
  guarantee of one into what the other endures (`OurStepIsElsewhere`,
  `TheirStepIsElsewhere`). A foreign step is `Others` to both.

So `BothInvariants` is inductive for the two together: `CustodyInvariant`,
`StageInvariant` and `PipelineInvariant` of the one, and the same of the other.
The second half costs no second proof, since `Theirs` instances the proofs with
the neighbour's variables; `TheirAssumptions` discharges the assumptions on the
constants there. `EachConverges`, `DeploymentsStand` and `NoPlanGoesStale` follow
from it state by state.

`OnlyAListingCanFail` says which steps fail a stage, and needs `WorkInvariant`
besides: faults are paid for (`BudgetIsLeft`), so that a full budget means none
happened; the registrations left to do are still needed
(`RegistrationsAreNeeded`); nothing a stage did has failed (`NothingFailed`), for
whatever it has left is accepted (`TodoIsAccepted`); and a topic that disappears
between the two requests of a listing is one of the neighbour's (`GoneIsTheirs`).

### The drift report: `LivestateProofs`

| Theorem | States |
| --- | --- |
| `ReportTypeCorrect` | `Spec => []TypeOK` |
| `StatusHolds` | `Spec => []StatusIsTrue` |
| `ReportAgreesWithItself` | `Spec => []SyncedShowsNoDrift` |

`TypeInv` adds to the types that only declared topics are left to plan and that a
subject is asked about only when there is a registry. `StatusInv` follows an undisturbed report
as `StageInvariant` follows a stage, until `EmptyPlanIsSync` gives the verdict.
`ReportInv` needs no quiet. It joins the two halves of a report through the
one listing both come from: a topic shown is one of the listing or of the
declarations (`ShownFromListing`), and while the plan is empty each declared
topic `Build` has come to is in the listing (`PlannedFromListing`). `Others` may
take any step; it leaves the listing as it was. `SubjectInv` does the same for
subjects, which come from two reads: a subject shown as not registered had no
version then (`ShownSubjects`), one that `Build` has come past without a change had
the declared body (`PlannedSubjects`), and only somebody's change, kept in `moved`,
lies between.

### Files and clients: `PreparationProofs`

| Theorem | States |
| --- | --- |
| `StageClosesItsClients` | `Spec => []ClientsAreClosed` |
| `NamedSecretsAreShown` | `Spec => []NamedSecretIsShown` |
| `WhatIsDeclaredIsLoaded` | `Spec => []LoadsWhatIsDeclared` |
| `OnlyTheUnloadableIsRefused` | `Spec => RefusesOnlyTheUnloadable` |
| `StageBeginsAsDeployment` | `Spec => BeginsAsDeployment`: `Preparation` implements `Begin` |
| `PreparationTypeCorrect` | `Spec => []TypeOK` |

`ClientsAreClosed` speaks of a returned stage only. `OpenWhere` says of every
place in the code which clients are open there and which of them a deferred
`Close` will close; the place that matters is `connectRegistry`, where a client
is open and nothing is deferred yet. `ShownInv` holds because what
`BrokerClient` and `RegistryClient` return, when it is no error, does not depend
on the host: the two lemmas that say so are all that `Rotate` needs.

`LoadInv` is the invariant of the two loops, for any number of files and
documents. What is to come is a suffix of what the application has (`Remaining`):
`entries` of its directory, `documents` of the file in hand. The place of a
document, its file and its number there, has been come to (`Come`) when it lies
before both suffixes, and `LoadedFrom` relates the topics loaded to the *set* of
places come to, so that no order is left in it. One document more is one
place more (`TakenIsLoaded`); a document that cannot be taken makes the whole
unloadable, for whoever took its name is a declared document too
(`RefusedIsUnloadable`); with both suffixes empty the places come to are all of them
(`AllHaveCome`), and the topics loaded are `TopicsDeclared` (`AllIsLoaded`). The
proof has no induction over data: each document of comments is stepped over by
a step of its own. `TypeOK` follows from the same invariant, for it is
`Validate` that makes a document a topic with a name (`FineIsTopic`).

`BeginsAsDeployment` needs `LoadInv`, for `Deployment` goes on from
`AsRevision(request.app)`, which is said of the files without an order, and
`BeginInv`: that a rollback past its first check has a revision to go back to, and
that a registration stage reading files has a registry.

### Only model-checked

Every invariant and every action property of the passing runs is proved. Out of
the prover's reach are the liveness properties (fairness and `ENABLED`):
`StageReturns`, `DeploymentEnds`, `PreparedStageReturns`. What
`LoadTopics` and `Build` compute is proved for any number of files, documents and
topics; what the libraries behind them compute is not modelled (section 6).

## 5. Where the repository's words and its code disagree

Five runs expect a violation; each checks one sentence of the repository.

| Run | Sentence | The code |
| --- | --- | --- |
| `doc_deletions_last` | `plan/plan.go:70` "a topic is only deleted once everything else has landed" | with `continueOnError`, after something else failed too |
| `doc_compatibility_override` | `config/config.go:125-127` "Compatibility overrides the compatibility level checked against" | it reaches `Input.CompatibilityOverride` and is not read there |
| `doc_create_reversible` | `plan/change.go:15-16` "Reversible by deleting it, if the target permits deletion" | a rollback plans a `DeleteTopic`, which it skips as irreversible |
| `doc_desired_state` | `README.md:25` "Creates, updates and deletes topics to match the desired state." | `CreateTopic` narrows the counts to an int32 and an int16 (`provider/kafka.go:186`): a topic declared with too many replicas is created with another number, and the stage succeeds |
| `doc_nameless` | `provider/topic.go:121` "A document that is entirely comments decodes to the zero value.", and `provider/topic_test.go:152-155` refuses a topic with no name | a document that gives only a replication factor or a schema is skipped as if it were a comment |

Met while modelling, without a run:

- "A plan with any blocked change must not be applied." (`plan/plan.go:17-18`): a
  rollback applies the rest of such a plan (`deployment/rollback.go:64`), on
  purpose: 46-47.
- `README.md:58` gives the note "no longer declared" to topics "On the cluster but
  no longer declared."; when the topic files cannot be read, every owned topic has
  it (`deployment/livestate.go:183`).
- The fake registry gives a body it already has a new version
  (`provider/fake.go:222`); the registry the plugin is for answers with the old
  one, so no test meets a re-registration.
- `provider/topic.go:222` takes a malformed glob for one that matches nothing, in
  `protectedTopics` too.
- `ConfigBefore` "so a rollback can restore them" (`plan/change.go:77-78`): a
  rollback plans from the previous revision's declaration and never reads it.
- `RegisterSchema` counts as reversible (`plan/change.go:34-38`), by a soft
  delete that nothing calls; a rollback touches no schema at all.
- A rollback that recreates a deleted topic says that the cluster matches the
  previous revision (`deployment/rollback.go:83`), although the topic is empty.
- "The registry may be unauthenticated, so a missing secret is fine here."
  (`config/config.go:183`): with a username and no secret the registry is not taken for
  unauthenticated; each request shows the username and a blank password
  (`provider/registry.go:36-38`).
- "do not fail the rollback" (`deployment/rollback.go:46-47`) is followed by a
  failure at 78-80.
- "the plugin diffs those two" commits (`README.md:31-32`): it diffs one commit
  with the cluster.
- `schema.compatibility` of a topic file (`provider/topic.go:37-40`) is read and
  not used.
- Two topics may name one subject with different bodies (`plan/plan.go:154`): both
  are registered, in name order, and every later plan wants the first one again,
  which the registry answers with the version it has. The drift report never says
  synced. This is why some properties assume `DistinctSubjects`.

## 6. What is not modelled

Not modelled: the wording of plans, logs and stage metadata (`plan/render.go`,
`Describe`, `String`): no state, and no decision is taken from it. `main.go`
registers the plugin. What libraries do: decoding YAML, matching globs, ciphers
and SASL mechanisms, HTTP. `SoftDeleteVersion` has no caller. The call logs and
failure injection of the fakes are test scaffolding. Version numbers and ids of
schemas, and transitive compatibility levels.

The plan of this development is carried out: every component that keeps state or
decides is modelled, and every safety property has a proof. What could be added
are the version numbers of the registry, once `SoftDeleteVersion` has a caller,
and transitive compatibility, once the `compatibility` option is read.
