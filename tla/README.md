# Retcona, in TLA+

Retcona is a desktop app for authors of serial novels: the author writes
episodes, and the app extracts what each one says about characters and places,
keeps it on setting cards, and flags what contradicts them. A FastAPI backend
and its job runner share one SQLite file; a React front end polls it. The models
that read the text are oracles. What can go wrong in the code around them is
protocol: jobs cut off by closing the app and run again, results stored long
after what they were judged from was read, an author who goes on editing,
dismissing and picking meanwhile. That is what these modules are about.

`src/` paths below are relative to the repository; `backend/` and `frontend/`
abbreviate `src/backend/` and `src/frontend/`.

## 1. Inventory

| Component | Code | State | Operations | Hard because | Correct when |
|---|---|---|---|---|---|
| Job queue | `backend/infra/queue_client.py`, `models/job.py` | `jobs` rows (status, attempts, created_at), runner lock file, the `_job_committed` event | enqueue, dequeue, ack, recover, hold lock, wait, wake, `job_pending` | two processes on one database, crashes between any two steps, wake-ups racing commits | one job at a time, oldest first, at least once and at most MAX_ATTEMPTS starts, no job stranded, no wake-up lost |
| Job runner | `backend/workers/runner.py` | `_ready`, `_stop`, the thread | prepare, `_run`, `run_once`, `_ack`, stop | a lock taken late, a recover that fails, an ack that fails, a job that hangs | as above, and each job leaves the queue in the end |
| Validation runs | `backend/api/episodes.py`, `pipeline/validate_episode.py` | `validation_runs`, `Episode.status`, the episode's claims and flags | request, poll (gives lost runs up), save; claim, read, judge, store, fail | the manuscript is saved during a run; a poll abandons a run its job is about to finish; redelivery | one active run, what is shown is of one run on one content, final stays final, every run ends |
| Novels and trash | `backend/api/novels.py`, `pipeline/empty_trash.py`, `in_trash.py` | `Novel.deleted_at` | delete, restore, hourly purge | trashed, restored or purged between two transactions of a job | a job of a trashed novel changes nothing, only expired novels are purged |
| Flags | `backend/api/episodes.py`, `pipeline/revalidate_flag.py`, `dismissals.py` | `contradiction_flags`, `flag_dismissals`, `flag_revalidations`, the card's values | accept, dismiss, reopen, revalidate, supplement; claim, judge, store | several flags on one value, verdicts that arrive late, runs that replace the flags | a verdict shown is of the setting shown; the author's values and dismissals stay |
| Claims to pick for | `backend/api/episodes.py`, `pipeline/judge_linked_claim.py`, `claim_links.py` | `Claim.link_status`, `.candidates`, `claim_link_choices` | list, pick, pick none; take, judge, store, put back | a card deleted under the job, a second job for one claim, a run replacing the claims | judged once, against the card last picked; the answer is kept; no pick hangs |
| Merging | `backend/pipeline/merge.py` | card values with `attr_sources`, state histories | dedupe flags, fill in, replace own wording, clear, record states | values of several episodes on one card, episodes validated again out of order, the card edited under the run | only adds; an author's value and another episode's value stay; nothing stays that no manuscript says |
| Entity matching | `backend/pipeline/entities.py` | cards' names and aliases, claims' subjects | resolve, match and register | a card made, renamed or deleted between extraction, judgment and store | no card for a name a card goes by, none chosen when ambiguous, a flag on a claim about the card it was judged against |
| Judgments | `backend/pipeline/judges.py`, `context_bundle.py` | none (reads cards and histories) | ask or not, flag | death and revival across episodes, states since changed, own wording | held against what other episodes said, and in the order of the story |
| Extraction | `backend/pipeline/extract_claims.py`, `extraction_rules.py`, `sentences.py`, `statements.py` | none | names, pronouns, attributes, places, conditions | Korean morphology | whom a claim is about is told by the cards, or left to the author |
| Settings | `backend/api/settings.py`, `models/character.py`, `location.py` | cards | create, update, delete | a sequence of renames; namesakes that nothing tells apart | two characters of one name have distinct aliases |
| Relations and events | `backend/api/relations.py`, `events.py` | `relations`, `story_events` with their members, `event_links` | create, update, delete | two requests at once, no constraint in the tables; relations without foreign keys | no edge twice, none without its ends |
| Database | `backend/models/db.py`, `db/migrations` | the file, its revision, its backup, lock files | transactions, upgrade, check | several processes of several versions, death in the middle | upgraded once and under nobody, the backup is of before, who serves has the schema it needs |
| Inference clients | `backend/infra/inference_client.py`, `span_inference.py` | session, device | run with fallback | a GPU that fails under one caller while others wait | the failed session is never used again; all calls answered |
| Editor and drafts | `frontend/src/pages/EditorPage.tsx`, `utils/draft.ts`, `safeStorage.ts` | text, save chain, drafts in localStorage | type, save, load, back up, restore | overlapping saves and loads, several tabs, a cap on drafts | nothing typed is lost; no older save lands over a newer one |
| Result screen | `frontend/src/pages/ValidationResultPage.tsx`, `utils/validationRun.ts` | run, flags and picks shown | poll, act | answers late or for another episode | what is shown belongs to the episode shown |
| API process | `backend/api/main.py` | its tasks | lifespan, hourly emptying of the trash | order of startup | nothing is served before prepare() |
| Other screens, clients, ML scripts | `frontend/src/pages/*`, `backend/infra/llm_client.py`, `ml/` | forms | | | no protocol of their own |

How they interact: a request changes rows and enqueues jobs in one transaction;
after the commit an event wakes the runner; the runner's handler opens short
transactions around long inference without one; API reads decide that a row
marked active was lost by looking for its job in the `jobs` table (`job_pending`).
Every transaction begins with `BEGIN IMMEDIATE` (`backend/models/db.py`), so **one
transaction is one action** of these modules, and what happens between two
transactions of a job is exactly what the interleaving lets happen.

`PROJECT.json` lists the hazards, each at its line, with the properties that
would catch it; some have none, each with the reason.

## 2. Modules

| Module | What it is |
|---|---|
| `JobDelivery` | abstract specification of the queue: what its users may rely on |
| `JobRunner` | processes, lock file, jobs table, runner thread; **implements** `JobDelivery` |
| `JobRunnerProofs` | proofs for every set of processes and jobs, refinement included |
| `WakeUp` | commit hooks, event, wait and clear, stop, inside one process |
| `ValidationRun` | runs, saves, polls and the trash, over `JobDelivery` |
| `ValidationRunProofs` | proofs for every set of episodes and runs |
| `FlagReview` | flags, dismissals, revalidations, the card, over `JobDelivery` |
| `FlagReviewProofs` | proofs for every set of flags, values, revalidations and runs |
| `PendingLinks` | picks, their jobs and the answers kept, over `JobDelivery` |
| `PendingLinksProofs` | proofs for every set of claims, sentences, cards and jobs |
| `EditorDrafts` | the manuscript editor in several tabs, its saves, loads and drafts |
| `EditorDraftsProofs` | proofs for every number of tabs, texts and slots |
| `StoryHistory` | what runs of several episodes keep on cards and in the histories, and hold later ones against |
| `StoryHistoryProofs` | proofs for every set of stories, sentences and what is read from them |
| `Cast` | characters made, renamed and deleted under a run that ties names to cards |
| `StoryGraph` | relations, events and links written by requests at once |
| `CastProofs` | proofs for every set of names and any number of cards |
| `Startup` | database upgrade, schema check and locks of several processes |
| `BackendProofs` | proofs about `Startup`, for every set of processes and codes, `WakeUp`, for every set of writers and jobs, and `StoryGraph`, for every set of requests and rows |
| `MCValidationRun`, `MCFlagReview`, `MCPendingLinks`, `MCEditorDrafts`, `MCStoryHistory`, `MCCast`, `MCStoryGraph`, `MCStartup` | constants and symmetry for TLC |

Most modules have an `Inv` (`GraphIsWhole` in `StoryGraph`): the type invariant `TypeOK` with the structural invariants of
the rows (one active run; a claim judged once; no edge without its ends), named
one by one in the module. What could go wrong over several steps has a property of
its own.

The composition is by levels. `JobRunner` is shown to implement `JobDelivery`;
the three modules about rows extend `JobDelivery` and conjoin its actions
(`Submit`, `Start`, `Finish`, `Remove`, `GiveUp`, `Interrupt`) with their own, so a
cut-off, a redelivery and a job given up on reach them without the lock, the
threads and the processes. `StoryHistory` and `Cast` look inside the one run that is at
work, so there the job is `Idle`, judging or storing, and any of its failures is `Fail`.
What they share is cut by data: `FlagReview` has one attribute and the author's
answers to its flags, `StoryHistory` one attribute per card and several episodes, `Cast`
the names, `PendingLinks` the claims that fit several cards. `StoryGraph` and `Startup`
stand alone; `Startup`'s `Prepare` and `TakeOver` are `JobRunner`'s `prepare()` and `TakeLock`
seen from outside.

### JobRunner
`status`, `attempts`, `ahead` are the table: `ahead[j]` is the rows with an earlier
`created_at` (several rows of one transaction are not ordered among themselves;
commits are assumed to get increasing times, a clock set back is not modelled).
`lock`, `ready`, `stop`, `cur`, `pc` are the processes: `pc` goes through
`prepare()`, `_get_ready()`, the loop, and `run_once`. `Die` is a kill, a crash or the
end of `stop()`'s join, and the OS frees the lock. A call that raises is either an
action of its own where the code goes another way (`PrepareWithoutLock`,
`PrepareRecoverFails`, `DequeueFails`, `LeaveRunning`) or a retry, that is, an
action not taken yet. `attempts` is only compared with `MAX_ATTEMPTS`, so `Counted`
saturates one above it.

### WakeUp
The three steps that race are separate: a session's commit, its `after_commit`
hook, and the runner's look, wait and clear. An open transaction keeps `dequeue`
out. Jobs of another process set no event: `OtherCommit`.

### ValidationRun
A run is `[status, error, episode, at]`. A content is the number of its saves, so
`stored[e] = [by, at]` says whose findings an episode has and of which content.
Cascades of a purge, the re-check inside it, `_abandon_if_lost` on every look at
the latest run (`LookedAt`) and the conditional updates of the job (`ClaimRun`,
`Store`, `FinishFailed`) are as in the code. Every step of the job may be the last
(`CutOff`), fail as the code expects (`FailWith`), fail as it does not
(`Unexpected`), or fail to record its failure (`LeaveRow`).

### FlagReview
One attribute of one character card and one episode with sentences about it. A
flag is named by its sentence, so that a dismissal, kept under card, attribute,
sentence and setting (`dismissal_key`), is a pair `<<sentence, setting>>`; `about` is the
setting its confidence is of, `Unset` for none. `source` is what
`attr_sources` tells of the card's value: the author's, this episode's, another's.
The runs of the episode judge from the card as read (`JudgeRun`) and store later;
`FillIn` is what `match_and_register` and `apply_new_information` may do to this
one attribute. The guards of `Accept` and `Supplement` are the code's 404 and 409
answers. `edited` is a history variable and `fresh` stands for the comparison of
`content_updated_at` with `Episode.updated_at`.

Worth knowing: a supplement holds the *open* flags against the new setting and
leaves dismissed ones at the old, so one reopened later shows a setting the card
no longer has; `OutdatedFromOutside` names that as one of three ways to get there.

### PendingLinks
A claim is `[status, sentence, fits, card, byName, judged]`; the code's null `link_status`
is `"linked"`, `fits` its candidates, and `byName` says a run tied it to its card by a name
and not because the author picked it. Which cards a sentence fits may differ from run to
run: `Fits` is the sets there may be. A run reads them (`ReadRun`), has the picks applied
(`Applied`: `apply_choices`, then `resolve_subjects`) and stores (`RowsFor`:
`match_and_register` for cards deleted since). A pick whose card is not among the cards the
sentence fits any more leaves the claim pending. Cards have no names here: what looking one
up by its name may give is left open, and `Cast` has the names. Claim rows are new with each run, jobs are rows of their own, since one
claim can have two jobs in the queue at once (see Findings). `judged` counts how
often flags were added for the claim.

### EditorDrafts
One episode; `tab[t]` is a page with its refs and state, `draft` the browser's storage,
`chain[t]` the save in flight (a page can press no second one: the button waits, and
so does the load after the author left and returned), `get[t]` a load's answer on
its way, so that others' saves come between the server's read and what is shown.
`own` is `ownDraftRef`, `others` the drafts listed as last read, `removed` the
storage events not heard yet. Steps of one tab's event loop are actions; only
`saveDraft` is split at its accesses to the storage (`StartWrite`, then `Rewrite`, or
`Create` and `Count`), as the code's own comment takes other tabs' accesses to come
between them, and to be seen at once. A slot is `stale` an hour after its last write;
which of the stale are a month old is open, `Prune` removing any of them. Whether a
write goes through, a save is answered or a page crashes is open too. `took`, `acked`
and `uncounted` are history.

`EditorDrafts` stands alone: what it shares with `ValidationRun` is `save_episode`, which
here keeps the text, there its number.

### StoryHistory
`manuscript[e]` is a sequence of sentences; `Reads[s]` is what the extraction's rules may
make of a sentence, by key: an attribute's value (`Answers`), a place's feature or change
of state, a character's death or return, or its just being there, which is looked for
of the dead only (`Presences`). Models miss things, so a sentence may give no claim.
`attrs` and `source` are a card's value and its entry of `attr_sources`, `history[e]` the rows an
episode keeps in the state histories. `Read`, `Judge` and `Store` are the three
transactions of a run; the author writes, edits a card or exempts a character
between any two. `seen` is history: the text each episode was last validated on.
`FilledIn` and `LeftIn` are `apply_new_information` for one card, with the code's order:
first mention, last state, a death outweighing a wound. A claim is known by the place
of its sentence in the text, since a manuscript may say a sentence twice; what the model
is asked of two such claims is the same (`Question`), and `merge_and_dedupe` keeps one flag
for both (`Deduped`). `deaths_before` goes through the episodes and remembers the last that
tells of a death or a return, which is how `DiedBefore` defines it; `DeadBefore` says
when a character is dead without naming that episode.

### Cast
Cards are numbered by age and kept when deleted, as claims once named them. A run
reads the cards three times: to find names in the text (`Reading`, `Owner`: a claim's
name, and a `ref` where a name or a pronoun stands for one known character), before
the judgment (`Find`, `Named`), and when it stores (`MatchNow`), where claims left without
a card make one per name, in some order (`NewCards`). `edited` is history: the author changed the characters
since the judgment. A run's claims are of one name, or of several characters one
name may mean: claims of different names are tied to cards independently.

### StoryGraph
A request is `Begin` (its first statement takes the write lock), `Check` (accepted, or a
404 or 409) and the write with its commit. Nothing else keeps two requests from
passing their checks together: `BeginUnlocked` is the engine without its "begin" hook
(`backend/models/db.py:144-146`), `for_update` doing nothing on SQLite. Relations name
their ends without a foreign key, so `DeleteCharacter` removes them itself; members of
events and links go by cascade.

### Startup
A code is the sequence of revisions it ships; a database has been through those of some
code. A revision adds one thing and may drop another's, so `Has` is what
`_missing_schema` compares. Processes upgrade (`ReadRevision` to `UnlockRunner`, one
transaction, the write lock held), check and serve, and may die at each step: the
transaction is rolled back, the lock file's lock freed. `Bare` codes ship no migrations
and can only compare schemas. `overtaken` is history.

## 3. Runs

| Run | Bounds | Distinct states | Shows |
|---|---|---|---|
| `job_runner` | 2 processes, 3 jobs, one always hanging, 2 attempts | 84 000 | `WorkIsOwned`, `NothingStranded`, `KeepsDelivery` (refinement), `EveryJobLeaves` |
| `wake_up` | 2 writers, 2 own jobs, 1 other | 2 100 | `NoLostWakeUp`, `StopIsHeard`, `JobIsLookedFor` |
| `validation_run` | 2 episodes, 2 runs, 2 saves each, 2 attempts, 1 novel | 258 000 | `Inv`, `SubmittedIsValidated`, `AbandonedIsOver`, `FindingsGoForward`, `RunEnds` |
| `flag_review_siblings` | 2 sentences, 3 values, 2 revalidations, 1 run, 1 attempt, symmetry | 1 500 000 | `Inv`, `ConfidenceIsOfReference`, `ResolvedWasJudged` |
| `flag_review_runs` | 1 sentence, 2 values, 1 revalidation, 2 runs, 2 attempts | 311 000 | `DismissedIsRemembered`, `OutdatedFromOutside`, `RevalidationEnds` |
| `pending_links` | 2 claim rows, 1 sentence that fits one pair or another of 3 cards, 2 pick jobs, 2 runs, 2 attempts | 415 000 | `Inv`, `LinkedAsPicked`, `AnswerIsKept`, `PickEnds` |
| `editor_drafts` | 2 tabs, 2 texts and the first, cap 1, typed twice, a draft loaded once, opened twice, 1 change of the server's text, symmetry | 1 800 000 | `Inv`, `DraftIsShown`, `SavesAreSeen`, `CapHolds`, `DraftsStay` |
| `editor_drafts_ask` | the same | | **violation**: see Findings |
| `story_history` | 3 episodes of a character who dies and returns; 2 of a character's attribute; 2 of a place described, perhaps twice in the same words, and changed; 2 sentences each | 1 630 000 | `Inv`, `HeldAgainstOthers`, `DeadAreNoticed`, `OnlyAdds` |
| `cast` | 3 names, 3 cards, 1 alias each, 2 claims, symmetry | 1 760 000 | `Inv`, `NamesakesToldApart`, `NewIsUnknown`, `ClaimsShowTheName` |
| `story_graph` | 2 requests, 3 characters, 2 types, 2 relations, events and links each, symmetry | 710 000 | `GraphIsWhole`, `EdgesDiffer` |
| `startup` | 3 processes, 5 codes, 2 writes, symmetry | 102 000 | `Inv`, `ServedHasItsSchema`, `UpgradeIsCopied` |

Why the bounds are enough for the cases that matter: with two processes, one
takes over from the other, is refused the lock or recovers late; with three jobs
there is one before and one after the job at work, and with two attempts a job is
delivered, delivered *again* and then given up on. Two episodes share the queue, so
one's run waits behind another's; two runs of an episode are a lost run and its
successor; two saves, a content validated and a content saved over it. Two
sentences are a flag and its sibling, and three values let the card agree with one,
with the other, or with neither. In `flag_review_siblings` a job is started once
only (a second start is `GiveUp`): redelivery is the other run's, whose second run
is also what finds a dismissed sentence again. Symmetry is used in the runs
without liveness only; swapping the two sentences of `FlagReview` swaps what they
say too.
Three episodes are a death, what comes between, and what is held against it; two are an
earlier one validated again after a later one. Three cards are a card deleted, the
namesake it leaves and the one a run makes. Two pairs of three cards are a pick the
sentence still fits in the next run, and one it does not; two claim rows, a claim and the one
that replaces it. Two requests are a check and the write it
races; two relations, the same edge given both ways. Five codes are a version, its
successor, that one without its migrations, one that drops what the first added, and
a branch; three processes, one upgrading, one that runs the jobs and one serving without.
A cap of one draft makes the second tab find none left, with the first tab's slot
recent (refused) or stale (removed); opened twice is two tabs, or one that leaves
and returns or crashes and is opened again; typed twice and loaded once lets a
listed draft be typed on by its owner while another tab saves what it listed.

Deadlock is checked everywhere but in `wake_up`, where the runner ends once
stopped and the environment has a finite number of jobs, and `editor_drafts`, where
every tab may be closed for good. Elsewhere something can
always happen (a poll, the trash, a launch).

Each property of each run has a *variant*: an operator in the module, commented
as such, that differs from a modelled definition as a plausible bug would (a
dropped guard, a missing reset, an unconditional update). With the variant in
place of the definition the property fails; `PROJECT.json` pairs them. Variants are
used by no specification.

### Fairness and why the code justifies it

- Threads go on: weak fairness of each step of a handler, of `prepare`'s and the
  runner's. The API and SQLite retry a locked database, so a step that fails is
  tried again; where another step may disable it again and again (`dequeue` while
  writers hold the lock, an ack failing while the app is restarted), strong fairness.
- The app that hangs is closed and an app closed is opened again: without it no
  job is handled. `EveryJobLeaves` excludes, in its statement, an author who
  closes the app again and again for ever (`KeepsBeingClosed`): each start spends an
  attempt only if a job is dequeued. Dying with the hanging job in hand is no such closing.
- Polls: the editor polls the latest run every few seconds while it is active, the
  result screen its flags and links (`frontend/src/utils/validationRun.ts`,
  `pages/ValidationResultPage.tsx`). A row whose job was lost is failed or put back
  by them, so strong fairness of `Poll`, `ListFlags`, `ListLinks` is what "the author looks" means;
  the liveness properties allow a row to stay as it is while the novel is in the
  trash, where nobody looks.
- `PickEnds` excludes an author picking for ever for a claim whose job was lost:
  the request puts the claim back and queues it again in one transaction, so the
  row never shows it put back (TLC found this).
- No fairness for the poll of an idle runner: `JobIsLookedFor` shows a job of this
  process is found without it, and any other process's where it is assumed (`Polls`).

## 4. Proofs

TLAPS checks these for every value of the constants satisfying the modules' `ASSUME`s.
Every safety property that a passing run checks is among them. A module `M` has its proofs in
`MProofs`, but for the three short ones about what a backend process does besides its jobs,
which `BackendProofs` has (their specifications are named `WakeUpSpec` and `GraphSpec` for that).

| Theorem | States | Of |
|---|---|---|
| `OneRunner`, `NoneStranded`, `RunnerDelivers`, `TypeCorrect` | `[]WorkIsOwned`, `[]NothingStranded`, `KeepsDelivery` (refinement), types | `JobRunner` |
| `WakeUpNotLost`, `StopHeard` | `[]NoLostWakeUp`, `[]StopIsHeard` | `WakeUp` |
| `OneRunAtATime`, `SubmittedWasValidated`, `AbandonedStaysOver`, `FindingsOnlyGoForward` | `[]Inv`, `[]SubmittedIsValidated`, `[]AbandonedIsOver`, `FindingsGoForward` | `ValidationRun` |
| `ChecksOneAtATime`, `ConfidenceFits`, `ResolvedByJudgment`, `DismissalsKept`, `OutdatedOnlyFromOutside` | `[]Inv`, `[]ConfidenceIsOfReference`, `[]ResolvedWasJudged`, `[]DismissedIsRemembered`, `OutdatedFromOutside` | `FlagReview` |
| `PicksJudgedOnce`, `PicksAreFollowed`, `AnswersAreKept` | `[]Inv`, `[]LinkedAsPicked`, `AnswerIsKept` | `PendingLinks` |
| `OwnDraftTracked`, `DraftsAreCurrent`, `OwnSavesSeen`, `DraftsFit`, `DraftsKept` | `[]Inv`, `[]DraftIsShown`, `[]SavesAreSeen`, `[]CapHolds`, `DraftsStay` | `EditorDrafts` |
| `KeptIsOfTheText`, `HeldAgainstOtherEpisodes`, `DeathsAreNoticed`, `RunsOnlyAdd` | `[]Inv`, `[]HeldAgainstOthers`, `[]DeadAreNoticed`, `OnlyAdds` | `StoryHistory` |
| `CardsAreAsSaid`, `NamesakesDiffer`, `RegistersTheUnknown`, `NamesAreShown` | `[]Inv`, `[]NamesakesToldApart`, `NewIsUnknown`, `ClaimsShowTheName` | `Cast` |
| `GraphHolds`, `EdgesNeverTwice` | `[]GraphIsWhole`, `[]EdgesDiffer` | `StoryGraph` |
| `NeverUpgradedUnderJobs`, `ServedOnItsSchema`, `UpgradeHasItsCopy` | `[]Inv`, `[]ServedHasItsSchema`, `UpgradeIsCopied` | `Startup` |

Each `Inv` includes the module's type invariant. The assumptions say that values that
stand for nothing (`NoProc`, `NoJob`, `NoRow`, `NoText`...) are none of the set they are
compared with, that jobs of different kinds differ, that no value is both a death and a
return, and that bounds are natural numbers. Beyond
those: `MaxAttempts` is positive; runs and slots are numbers (new ids come later than old
ones; a fresh slot is any not in use, and the least is taken); there are finitely many
tabs and slots (what is counted against the cap must have a count); a code ships at
least one revision, and a head determines the revisions before it, as each names
its `down_revision`.

### The inductive invariants

Hardly any of these survives a step on its own strength, so each module has an `IInv`,
which TLC checked on the module's run before it was proved. In each proof a lemma or a
step for every action says that it keeps `IInv`.

- **JobRunner.** `WorkIsOwned` alone is not inductive: a process at "handle" must be known
  to hold the lock since before its recovery. So `LockInv` says the lock is held in
  every phase from its taking on and while `ready`; `ReadyInv` ties `ready` to the phases
  after recovery; `CurInv` ties the thread's job to a running row; `StrandedInv` says that
  after a recovery the only running row is the one in hand, *also* after a stop not
  yet seen (the property itself exempts any stop, and would not survive the step that
  dequeues after one); `AheadInv` says no row waits behind a row that is gone, which
  the refinement needs for `Remove`. The refinement maps `pending` to the rows in the
  table, `handling` to the jobs of processes at "handle" and `settled` to those at "ack";
  `MapsStep` shows each step is a step of `JobDelivery` or a stutter (a recovery is a
  stutter: a job running in nobody's hands is pending before and after, its
  interruption having been the death).
- **WakeUp.** `NoLostWakeUp` is strengthened with what holds while the runner has not yet
  looked; `StopInv` relates the flag, the waking and the event.
- **The modules over `JobDelivery`** share `OneAtATime` (the job at work or to be acked is
  alone, and in the queue), which is what the abstract queue promises, and `StepInv`,
  which says which job is at which step.
  - `ValidationRun`: a run past its claim is "running" (`ClaimedInv`): a poll gives a run up
    only when its job is gone, and this one's is there. What it read was saved and not
    blank, and nothing of a later content is stored (`ReadInv`), since the run
    that stores is the only one at work; what is stored is of a run that succeeded
    (`StoredInv`), and of the saved content if submitted (`SubmittedInv`). `OrderInv` makes
    the run given the next id the latest, which `OneActiveRun` is about.
  - `FlagReview`: the verdict waiting to be stored was asked of the value it names
    (`CheckJudgedInv`), and no accept comes under a run past its claim (`ClaimedInv`), so
    that what it found is against the card's value unless that was edited elsewhere
    (`FoundInv`); `FlagsHold` and `ChecksHold` say it of the rows, whatever order verdicts,
    accepts and runs come in.
  - `PendingLinks`: the claim a job took stays "judging", about the card held or about
    none once that is deleted (`TakenInv`), and what a run past its judgment made of a sentence
    follows the author's answer (`ClaimedInv`, `Answered`): no pick comes under an active run,
    and a card deleted meanwhile only takes its picks along. `RowsHold` ties every claim's
    card, unless `byName`, to the choice kept for its sentence, and says it was judged once
    exactly if linked.
- **EditorDrafts.** A page writes to one slot at most, its own or that of the save it left in flight
  (`Key`), and no two pages' keys are the same (`KeysInv`); from there, what holds of one tab
  (`TabInv`) changes only by its own steps and by removals, which it hears of. `DraftInv`
  says what is in the slot in the *middle* of a write, when `ownDraftRef` is behind:
  `Tracked` is the text just created until it has been counted. `PageInv`, `LoadInv` and `SaveInv` order
  a page's loads after its confirmed saves. `CapHolds` is not inductive, since a draft
  being counted may turn into one that is not: `CountedInv` bounds the drafts that nobody
  is counting, and `CapHolds` follows by adding one for each page that counts. Every
  step adds to that set a slot that was in it at most (`CountedAfter`), but for a page's
  count that finds *all* drafts to fit, those being counted included.
- **StoryHistory.** Between a run's read and its store the author may edit cards but no other
  run comes, so what it claims is of the text it read (`ClaimsInv`) and what it flags is of
  three kinds only (`FlagsInv`): held against a card's value of another source than its
  episode, against a place's last state before it, or a death; dedupe drops no flag of the
  last kind, each being the only one on its card, `presence` and sentence. `FilledFromTheText`
  and `RecordIsOfTheText` are inductive with these: a store renews `seen` for its own episode,
  and clears or keeps what an earlier run of it filled in as its sentence is gone or
  not. `DiedBefore` and `LatestStateBefore` are greatest members of finite sets of episodes,
  and the proof goes by that: an episode after the last turn turns nothing.
- **Cast.** A match kept over the judgment is a card of the claim's kind or one deleted
  since (`MatchesInv`), rows being never reused; while the author leaves the characters
  alone it is still by the card's name, or nobody's (`UneditedInv`). What a store registers is
  known to no card: two of its claims with one name have one first (`FirstOf`), and new
  cards have no alias, so that only a namesake among the old ones could be
  confused with one, which the name's being unknown excludes. Places never have aliases
  (`PlacesHaveNoAliases`), so the same holds of them. `SetAsSeq` says what the sequence of new
  cards is, each of a finite set once.
- **StoryGraph.** A request past its `Begin` holds the lock (`LockInv`), so what its check
  accepted is still acceptable when it writes (`CheckedInv`).
- **Startup.** Who found migrations to apply is in the write transaction, and the
  database stays at the revision it read (`WriterInv`); from the copy on it holds the
  runner's lock (`LockInv`); it migrates only when the copy is of all there is (`CopyInv`).

### Only model-checked

- Liveness (`EveryJobLeaves`, `JobIsLookedFor`, `RunEnds`, `RevalidationEnds`, `PickEnds`) and what
  it needs of `ENABLED`, which are beyond the prover.
- That the modules over it find the queue they assume: `OneAtATime` is proved in each of
  them of `JobDelivery`'s actions; that `JobRunner` implements those is `RunnerDelivers`.

## 5. Findings

`editor_drafts_ask`: `frontend/src/pages/EditorPage.tsx:252-253` says "without a draft, leaving
loses it, so the browser asks first". A tab's draft can be removed by another: evicted
for room once it is an hour old, pruned, or discarded from the list. `onStorage` (line
225) then forgets `ownDraftRef` only; `draftBackupOk` stays true, so the status line
still says the text is kept in this browser, `atRisk` is false, and leaving loses it
without a question, since nothing is pending for the last flush. Setting
`draftBackupOk` there would do.

What the properties except, and the code does not prevent:

- `CapHolds`: two ways to one draft too many that the code's second count does not
  reach (`uncounted`): a stale slot removed between its owner's look and its rewrite,
  and a crash between the write and the count.
- `ClaimsShowTheName`: a character renamed between a run's judgment and its store. The
  run then stores its claims under the name it judged by, linked to the card that has
  another one (`backend/models/claim.py:8`: "renaming the card renames it too");
  only the next rename, or run, puts it right.
- `ServedHasItsSchema`: a process serving without the runner's lock. The upgrade knows
  of others by that lock only, so such a one is upgraded under
  (`backend/models/db.py:278-281` says "not while another backend process runs").
- `OnlyAdds`: a sentence that a manuscript says twice. Both of its claims are flagged, and
  `merge_and_dedupe` keeps one flag for the sentence (`backend/pipeline/merge.py:46-55`);
  `apply_new_information` takes the flagged claims from what was kept, by their index, so
  the other claim counts as unflagged. Where a place's state contradicts the sentence, and
  nothing is on its card, it is filled in there all the same (line 89: "A feature held
  against the place's state is no setting to add either"); `OnlyAdds` is about claims, not
  sentences. Taking the flagged pairs before the duplicates are dropped would do.
- `LinkedAsPicked`: a character renamed between a run's read and its judgment. The pick is
  applied by the name the run read (`backend/pipeline/claim_links.py:75`), but
  `resolve_subjects` takes a claim's `ref` only while the card goes by that name
  (`backend/pipeline/entities.py:113`), so the claim is tied to whatever card the old name
  finds, a namesake if there is one, or makes a new card. The next run applies the pick
  again (lines 7-9).
- `AnswerIsKept`: a pick whose card is not among those the sentence fits any more is asked
  again, as `claim_links.py:61-62` says it is.
- `HeldAgainstOthers`: an episode validated after a later one is held against the value the
  later one filled in on the card (`backend/pipeline/judges.py:161-167` asks only that it
  is another's); only states and deaths go by the order of the story.
- `OutdatedFromOutside`: the three ways to a setting the card no longer has, above.

And a comment that is not so, without consequence: `backend/pipeline/judge_linked_claim.py:140-142`
says a pick "is put back (and can be made again) only once no job is left for it".
`_put_back` (line 77) is called by the job itself, before the runner acks it, so a claim
may have two jobs in the queue; `JudgedOnce`, `LinkedAsPicked` and `NoPickUnderJob` hold with
both, the first taking the claim from "queued" and the second finding nothing to do.

## 6. Plan

What is left to prove is `OneAtATime` of `JobDelivery` once, for the three modules over it.

To model, if it proves worth it: a second novel in `ValidationRun`, for the purge of a
novel restored meanwhile.

## 7. Not modelled

- What models compute, and text: the regular expressions and morphology of the
  extraction, prompts, NLI scores. Outcomes are nondeterministic among those the callers
  distinguish.
- The inference session's replacement (`infra/inference_client.py`): its lock is against
  calls from several threads, and only the runner's one thread calls it.
- The result screen: it shows what polls answer and keeps nothing.
- What a migration's SQL does to rows; world settings, gender and pronoun of a card, texts
  and times of events.
- Storage failing halfway through a transaction: SQLite's atomicity is assumed.
- Wall clocks beyond their order; the trash's 30 days are the action `Expire`.
- Flags held against the story's history instead of a card (they can be dismissed
  and reopened only), two attributes of one card at once, two claims of one
  sentence and name.
- The HTTP layer (hosts, clients, validation of bodies), logging, layout, ML training.
