# DeepTrace in TLA+

A verification project for DeepTrace (Go): TLA+ models of the agent and of its
client, the TLC runs that check them on small instances, and theorems about
them that TLAPS proves for every instance.

DeepTrace diagnoses distributed training jobs.  An *agent* runs on every node:
it stores the alerts a monitoring webhook posts, serves the tails of the ranks'
logs, and attaches `pystack` to the training processes.  A command-line
*client* fans out over the agents: it polls alerts, looks for hung ranks,
fetches logs and stacks, restarts agents.

## 1. The system

| part | state | operations | interacts with |
|---|---|---|---|
| event storage (`pkg/agent/util/storage`) | JSON event files; current file; index of files; pending marks; a mutex for the current file, one for the pending marks, one per file | `StoreEvent`, `LoadEvents`, `ApplyPendingUpdates`, rotation, start on an existing directory | called by the webhook handler and by `GetAlerts`, each request in a goroutine of its own |
| alert endpoints (`httpserver`, `grpcserver/alert_service.go`) | none | `handleWebhook`, `GetAlerts` | event storage |
| agent process (`cmd/agent`, `grpcserver/trace_service.go`) | `restartChan`, the two servers, signal and restart goroutines | `RestartServer`, `GracefulStop`, exit | process manager (external), all handlers |
| process stacks (`pkg/agent/stacktrace`) | per request: semaphore, mutex, result and error lists | `GetProcessStacks` | shell script and `pystack` (external) |
| log tail (`pkg/agent/logtail`) and log parser | per request: ring buffer, file time | `GetRecentLogs` | log files the ranks go on writing |
| stack parser (`textparser/stack_parser.go`) | per call: the threads so far, the thread being read | text to threads | process stacks |
| node scripts (`util/scripts`) | none | rank range, process list | log tail, process stacks |
| metrics (`pkg/prom/metrics`) | two counters, a push loop | | interceptor of the gRPC server |
| `client alerts` | window (`lastEndTime`), timer, signal goroutine | one round, Ctrl-C | `GetAlerts` of all agents, Feishu |
| `client check-hang` with `pkg/rules` | per round: result channel, suspicious nodes, samples | one round, sampling, comparing | `GetRecentLogs`, `GetProcessStacks` of all agents |
| `client logs`, `stacks`, `restart`, `version` | per command: result channel, what is kept of the answers; the appended files outlive it | one fan-out, one saved document | `GetRecentLogs`, `GetProcessStacks`, `RestartServer`, `GetVersion` of all agents |
| worker lists (`pkg/client/utils`) | none | list from clusterx or from a file | every client command |
| Feishu notifier | none | one post per node | external |
| configuration, logger, version, generated code | none of interest | | |

What is hard in it, and what makes each part correct:

* **Event storage.** Storers, queries and appliers meet on the same files.
  `StoreEvent` works under the mutex of the current file, appliers under a
  per-file mutex, readers under none, `os.WriteFile` truncates before it
  writes, and the process may stop anywhere.  Correct means: an acknowledged
  alert stays, only alerts that were read are flagged processed, an alert that
  was answered is not answered again, the index never hides an alert a query
  asks for, every request is answered.
* **Alert polling.** The window moves by time stamps while alerts become
  visible later, agents' clocks differ, and a call's deadline can expire while
  its handler goes on marking.  Nothing removes a host the address list names twice.  Correct
  means: no alert is skipped or printed twice without a known cause, a round
  ends, Ctrl-C works.
* **Agent process.** Restart requests, signals, `GracefulStop` and long
  handlers race; one goroutine per process shares a semaphore and a mutex.
  Correct means: the semaphore bounds the tracers, answers are complete, an
  answered restart happens.
* **check-hang.** A fan-in nobody reads before the last goroutine is done;
  samples listed in no particular order; failing samples between good ones.
  Correct means: rounds end complete, and the names of saved files tell the
  truth.
* **Log tail.** A ring buffer at its limits, a file that grows while it is
  read, times with no zone.  Correct means: the tail is the end of the file, a
  hang is not under-reported, each rank is reported.
* **One-shot commands.**  Four ways of filling, closing and draining one
  channel, lists with a host twice, deadlines that expire after the agent has
  acted, files that a killed command leaves half written.  Correct means: the
  channel is closed behind the last send, the report is complete, the last word
  is true of what the agents did, a document never continues a torn one's line.
* **Stack parser.**  One pass that must put frames and source lines under the
  right header, with odd headers, stray lines and a scanner that gives up on a
  long line without saying so.  Correct means: what was scanned is reported as
  it was printed.

## 2. Modules

| module | models | proofs |
|---|---|---|
| `AlertLog` | abstract: what the store promises webhooks and queries | |
| `EventStorage` (`MCEventStorage`) | the store with its two kinds of callers; implements `AlertLog` | `EventStorageProofs`, `EventAnswerProofs` |
| `AgentService` | agent process, `GetProcessStacks`, `RestartServer` | `AgentServiceProofs` |
| `LogTail` (`MCLogTail`) | `GetRecentLogs` against ranks that write | `LogTailProofs` |
| `StackParser` | the pass over a text of stacks | `StackParserProofs` |
| `Gather` | abstract: what every client command promises its user | |
| `AlertPolling` (`MCAlertPolling`) | `client alerts` against agents; implements `Gather` | `AlertPollingProofs` |
| `StackDiff` | `pkg/rules` as operators | |
| `HangCheck` (`MCHangCheck`) | `client check-hang`; uses `StackDiff`; implements `Gather` | `HangCheckProofs` |
| `FanOut` (`MCFanOut`) | `client logs`, `stacks`, `restart`, `version`; implements `Gather` | `FanOutProofs` |

`PROJECT.json` maps every definition to the lines it models.  In general:

* **EventStorage.**  A webhook request is named by the event `e` it carries, a
  `GetAlerts` request by `l`.  `spc`/`lpc` say where the goroutine stands.  A
  step is one file-system call or one critical section; `StoreOpen` and
  `StoreWrite` are the two halves of `os.WriteFile`, so that a reader or a
  second writer may come between.  A file is a document or something
  `json.Unmarshal` rejects, with its size: a short document written over the
  tail of a longer one is rejected (`Overwrite`).  Either half of a write may
  fail: the open leaves the file as it was, the write leaves it empty.
  `currentMutex` and `pendingMutex` hold their owner.  `ts` is taken before the
  mutex (`event_storage.go:111`).  `full` is the goroutine that calls
  `rotateIfNeeded` with the mutex it locks first; it has no way out but the end
  of the process.  `Reboot` is that end together with the next start:
  memory is gone, readable files are indexed, a fresh file is current.
  Three history variables: `overlapped`, the files on which a storer's and an
  applier's read-modify-write met; `unmarked`, the files that could not be
  opened for the marks they were to get (`event_storage.go:334`); and `due[l]`,
  the alerts that were acknowledged when query `l` began, less those of a file
  it then read while the file was unreadable (`loadFile` reads without a lock,
  `event_storage.go:377`).  Every alert is stored with severity 0
  (`default_service.go:30`, `Info`), so that the severity checks of the index
  and of the filter pass for a query that asks for INFO and for no other.  Left
  out: the type of events (always "alert", also in the queries), identifiers.
* **AlertLog** is the store without files, index, marks and mutexes: a log of
  acknowledged alerts and queries that are answered out of it, completely
  (`owed` against `answer`) and each alert once (`Given`), but for alerts that
  are `spoilt` and those a query missed.  The mapping is at the end of
  `EventStorage`: the log is the acknowledged alerts, those of overlapped and
  unmarked files are spoilt, a query owes the due alerts its window covers and
  that are as severe as it asks, and has what it collected together with what is
  left of its scan that the filter admits (`HasRead`), so that it reads in the
  log's sense when `loadFile` returns, not when the loop gets to the event.  A
  query misses alerts only when it reads an unreadable file, and fails with its
  process.
* **AlertPolling.**  The store as a client sees it: `Stamp` and `Store` for an
  alert, `AgentRead` and `AgentMark` for a call.  A file is empty while it is
  rewritten, for another alert or for another handler's marks, and a handler
  that reads it then finds nothing: `AgentRead` misses any part of what it would
  have found.  A handler applies all the marks that are pending on its agent,
  those other handlers have left included (`Pending`).  Lost updates and failed
  writes are `EventStorage`'s subject: the properties hold for agents on which
  no two read-modify-writes met and no write failed.  `CallFails` may come at
  any point of the agent's side, which goes on: the handler ignores its
  context.  A call is named by its round and its place `i` on the address list,
  and `command.addressList[i]` is the host: `At(n)` has more than one element
  for a host named twice.  `command` is the command line, drawn from
  `CommandLines`: the interval after defaulting, the times given, which count
  only without an interval (a negative setting) and may not parse (`Refuse`),
  and the minimum severity.  `Begin`, `Close` (the goroutine behind
  `wg.Wait`), `Receive`, `PrintAll`, `Post`, `EndRound` are the steps of
  `checkAlerts`; `Interrupt`/`Stop` are the two ends of the unbuffered `done`
  channel.  `unseen` is a history variable.
* **AgentService.**  `fetch[c][p]` is the goroutine of request `c` for process
  `p`; `sem`, `infos`, `errs` its shared state.  `Lock` and `Collect` are the two
  halves of an append under `mu`: `read` is the list as the goroutine found it,
  so that without the mutex one entry would overwrite another.  `token` is the
  channel of capacity one `RestartServer` sends to without blocking.  `Exit` is
  the end of `GracefulStop`, `Killed` any other end, `Boot` the process manager.
* **StackDiff / HangCheck.**  `PstreeEqual` sorts, refuses or compares; `Verdict`
  is what the file name of a sample says.  `SortedBy` is the increasing
  rearrangement of a sequence: `sort.Slice` with a comparison under which no
  two elements are equal has only that one result.  `taken[n]` are the samples of
  node `n`, each listed in any order (`SetToSeqs`), an empty list for a failed one,
  as in the code.  `results` is the buffered channel; a goroutine sends its
  result (`AskAnswered`) before it looks at the ranks (`Look`).  `asked` is the
  interval asked for by flag or configuration file, `Interval` what becomes of
  it.
* **LogTail.**  A line is stamped, plain, garbled (a time the parser cannot
  read) or long (more than the scanner's buffer).  The ring buffer is modelled
  slot by slot (`ring`, `index`, `count`); `scanned` is a history variable.
  `Create`, `Write` and `Finish` are the job, at any time: a line may be written
  in two pieces (`half`), and the scanner returns one without its newline if it
  is the last (`eof`).  A log may be missing or fail to open, a read and
  `file.Stat` may fail.  `zone` is how far the job's clock is ahead of UTC, which
  the parser assumes.
* **Gather** is the abstract client: it asks a set of addresses, hears one word
  from each, and tells what it heard only when none is waiting; it may leave
  without telling.  The three clients map their program counters to its
  `phase` and their results to `heard` (`INSTANCE Gather WITH` at the end of
  each).  An address is heard when main has received its result (for
  `restart`, whose successes send none, when its goroutine prints them); that nothing
  is left to receive when a command tells comes from its counting, its wait or
  the closing of its channel, never from the mapping.  In `AlertPolling` a
  client that dies is `Leave`.
* **FanOut.**  One module for the four commands, `cmd` saying which: they share
  the goroutine (`Call`, `CallAnswered`, `CallFails`) and differ in how the
  channel is filled, closed and drained (`LogsReceive`, `StacksReceive`,
  `RestartWait`, `VersionCloser`, ...).  `call[i]` is the goroutine of the i-th
  entry of the list, `results` the buffered channel.  The agent's `Handle` may
  come after the deadline.  `Start` is everything before the goroutines: the
  worker source (clusterx output, a file, none), the process type of flag and
  configuration, the exits.  Rank flags are compared by their spelling:
  `RANK0`, `rank0` and `0` are a label, its lower form and a number.  `file`
  is the sequence of pieces appended; it survives the command.
* **StackParser.**  The lines of a text, each by what the parser takes it for: a
  header it can parse, one whose number is no int (`huge`: it keeps its name
  and gets number -1), one that only looks like one (`odd`), a frame, a source
  line, anything else.  `ScanEnd` may come after any line, for a scanner that
  meets a line above its buffer.  Threads and frames carry the number of the
  line they came from, so that a property can say where each ended up.

## 3. Runs

| run | checks | shows |
|---|---|---|
| `es_store` | `TypeOK`, `ProcessedWasRead`, `KeptUnlessOverlapped`, `AnsweredIsProcessed`, `NothingMissed`, `AnsweredOnce`, `ImplementsAlertLog` | what flags and files promise, that answers are complete and alerts answered once, that the store is a log to its callers, through races, failed writes and restarts |
| `es_full` | `LoadsReturn` | queries are answered although storers are wedged in rotation |
| `ap_poll` | `TypeOK`, `BehindHasCause`, `ProcessedIsPrinted`, `PrintedOnce`, `RoundsEnd`, `InterruptStops`, `ImplementsGather` | which alerts the window leaves behind and why; nothing is printed in two rounds; the client ends its rounds and stops; a round tells what it received of every entry of the list |
| `ag_service` | `TypeOK`, `TracersBounded`, `AnswerIsComplete`, `CallsEnd`, `RestartTakesEffect` | the semaphore, the mutex and the joined answer, restarts against signals and kills |
| `hc_check` | `TypeOK`, `NoDiffMeansSame`, `HaveDiffHasCause`, `RoundIsComplete`, `RoundsGoOn`, `ImplementsGather` | what the saved names mean; rounds end complete, nobody stuck on the channel, and the ticker gets its next one (a negative interval panics; of 0 nothing is said after the round) |
| `lt_read` | `TypeOK`, `TailIsLast`, `HangNotMissed`, `RanksInOrder`, `Answers` | the tail, the silence, the order of the ranks, that the handler ends |
| `fo_commands` | `TypeOK`, `ReportIsComplete`, `NoSendOnClosed`, `VerdictIsTrue`, `DocumentsStartLines`, `CommandEnds`, `ImplementsGather` | two commands in a row: reports, verdicts, the four channels, the files they leave |
| `sp_parse` | `TypeOK`, `ThreadsAsPrinted` | the pass against a definition of the text's threads without a pass |
| `es_lost_alert` | `AckedAlertKept` (violated) | an applier overwrites an alert whose webhook got its 200 |
| `es_rotation` | `StoresReturn` (violated) | rotation locks the mutex its caller holds |
| `lt_last_rank` | `AllRanksReported` (violated) | the loop stops before the highest rank |
| `fo_rank_number` | `RankExampleSelects` (violated) | the rank number of the command's own example selects no process |

The violated properties say what a comment or document of the repository says;
`findings` in `PROJECT.json` quotes it.  Each has a passing counterpart that
says what does hold: `KeptUnlessOverlapped` for `AckedAlertKept`, `LoadsReturn`
for `StoresReturn`, `RanksInOrder` for `AllRanksReported`, `ReportIsComplete`
for `RankExampleSelects`.

### Bounds

* `es_store`: two events and two queries: a storer meets an applier on a file
  that already holds an alert, while a second applier waits.  A third event
  adds a reader's view of a file with a marked and an unmarked alert at once,
  which the second gives as well (one stored and marked, one stored later).
  Three files: two restarts.  Two failing opens or writes.  Two instants of the
  clock and queries for all, for recent and for severe alerts, so that a query
  can miss an alert by its time or its severity.  `MaxFileSize` is out of reach
  here; `es_full` and `es_rotation` start above it.  1.7 million states, about
  one minute; `es_full` has 46,000.
* `ap_poll`: one agent that the list names twice, one alert, two rounds, two
  instants, an agent one tick behind, one client restart, every call may fail.
  An alert falls behind in the first round and is missed by the second.  Agents
  do not influence each other, and alerts only through the files they share,
  which the choice in `AgentRead` covers, so that a second agent or alert adds
  no behaviour.  Four command lines: the defaults, and three that run once (for
  WARNING and above, from a given time, with a time that does not parse).
  944,000 states, about two minutes.
* `ag_service`: two requests, two processes, one slot per request (so that
  goroutines queue), one failing script or pystack, one restart request, two
  starts.  377,000 states, a minute and a half.
* `hc_check`: two nodes (a goroutine done, another still sampling), three
  samples (so that a verdict can be against the wrong one), two processes with
  one of them in one of two stacks, one change, one failure, one round, and
  intervals asked for that are negative, 0 and positive.  1.2 million states,
  a little over two minutes.
* `fo_commands`: lists of up to two addresses (a host twice, a blank line, a
  `name:host` pair, two hosts, an empty or missing list), so that one
  goroutine may be done while the other has not sent, and a repeated entry has
  two results; two commands in a row, so that the second one appends to what a
  killed or failed one left.  About 530,000 states, one minute.
* `sp_parse`: six lines: two threads of two frames, or one thread with two
  frames of two source lines, with a stray line anywhere.  112,000 states.
* `lt_read`: up to three lines against `max_lines` -1, 0, 1, 2: fewer lines,
  as many, more, and the two values that panic; one rank that logs, two that
  never create their file, the last of which the loop does not reach.  1.2
  million states, a minute.  `MaxLines` also makes the rank stop writing, which
  `Answers` has for a premise.

### Fairness

Weak fairness of a goroutine's steps stands for the Go scheduler, which runs
whatever can run.  Requests need not arrive, the job need not write, nothing
need fail, the clock need not advance, the process need not die.  Beyond it:

* `AlertPolling`: `CallFails` is fair, because the call has a deadline of 10
  seconds; agents are not fair at all.  `Post` is fair, which assumes that the
  Feishu endpoint answers or refuses (`http.Post` has no timeout).  `Stop` is
  strongly fair: `select` chooses at random among ready cases.
* `AgentService`: `TracerStep` is fair, which assumes that every pystack
  returns.  The code sees to neither: pystack runs without context or timeout
  (`python.go:111`).  Without that fairness one hung pystack keeps
  `GracefulStop`, and with it an answered restart, waiting for ever.
* `HangCheck`: calls end by answer or deadline; the ticker fires.
* `LogTail`: the handler runs.  `Answers` is under the condition that the ranks
  come to stop writing: nothing but the end of the file ends a scan.
* `FanOut`: main and the goroutines run, and every call ends by its answer or
  its deadline (`CallFails`); nothing is asked of the agents.  All calls have a
  deadline of 10 seconds (for example `logs.go:160`).
* Deadlock is checked except in `es_full`, `es_rotation` (a storer in rotation
  really is stuck), `ap_poll` (the client stops; nobody need restart it),
  `hc_check` (the bound ends the rounds; a client that panicked is gone) and
  `sp_parse` (the parser returns).

## 4. Proofs

`EventStorageProofs` proves, for any numbers of events, queries, files, faults
and restarts and from the assumptions on the constants only:

* `TypeCorrect`: `Spec => []TypeOK`.
* `StorersTakeTurns`, `AppliersTakeTurns` and, of both, `TurnsAreTaken`:
  `Spec => []MutexesHold`, which no run lists because every theorem below rests
  on it.  The formulas are equivalences between the owner of
  a mutex and a goroutine's place; with `TypeOK` they are inductive, one step
  per action.
* `FlagsWereRead`: `Spec => []ProcessedWasRead`.  Not inductive as it stands:
  an applier carries flags in memory between its read and its write, and takes
  them from the pending marks.  The strengthening says of all three places
  (disk, buffers, pending) that what is flagged or marked is in some query's
  answer; `got` only grows, which makes it inductive.
* `KeptWithoutOverlap`: `Spec => []KeptUnlessOverlapped`.  The property looks at
  the disk, or at the buffers of those who have truncated the file.  The
  invariant `KeptInv` follows one alert through a file nobody overlapped on:
  a file that is not ruined holds every alert acknowledged there (`Needed`),
  and so does every buffer that was read from it, a storer's own alert
  included as soon as it is prepared.  It rests on both mutex invariants: it is
  because there is one storer and one applier at a time that a read-modify-write
  can only meet one of the other kind, which `overlapped` records.
* `IndexHonest`: `Spec => []IndexHonestUnlessOverlapped`, which no run lists
  because `NothingMissed` is what it is for.  The invariant
  `IndexInv` says the index entry of such a file admits (`Admits`) the
  acknowledged alerts' times and is not `allProcessed` while one of them is
  not, also for the entry an applier has computed and not yet published.  A
  restart needs one fact more, that an unreadable file has no events.

`EventAnswerProofs` goes on, from those invariants, with what queries answer:

* `AnswersRecorded`: `Spec => []AnsweredIsProcessed`.  The longest argument, for
  files that are neither overlapped on nor `unmarked`.  `PlaceInv` says where
  alerts can be: in the documents, scans and buffers of one file only, and in
  answers only once written.  `RangeInv` says the loop over the marks still has
  every file with marks before it.  `AnswerInv` says an alert of an answer under way is marked or `Recorded`
  (flagged on disk and in every buffer about to be written), one of a given
  answer is recorded, and an applier carries the mark of what it will drop.
  `Recorded` is stable under every step but a restart's fresh file; that a mark
  is dropped only when recorded needs `KeptInv` (the marked alert is in the
  file) and the absence of overlaps.
* `AnswersComplete`: `Spec => []NothingMissed`, for every window and minimum
  severity: an alert the query covers passes the severity checks of the index
  and of the filter, one it does not cover is not owed.  `DueInv` follows an
  alert that is due to a query through the query's loop: its file is still to
  be read (`ToCome`: among the candidates, which is where `IndexInv` comes in,
  or in the scan), or the query has it, or, for a query for unprocessed alerts,
  the alert's flag in the document read shows that another one has it (by
  `ProcessedWasRead`'s invariant).  That it is still in the document when the
  file is read is `KeptInv`.
* `NeverAnsweredAgain`: `Spec => AnsweredOnce`, an action property: what an
  answer gave is recorded as processed in the document (`AnswerInv`), so a
  later read finds its flag.  It needs one invariant more, `OnceInv`: no
  document, scan or buffer has an event twice, or the second copy would go out
  unflagged.
* `StoreImplementsAlertLog`: `Spec => ImplementsAlertLog`.  Each action of the
  store maps to one of the log or to none: `StoreIndex` accepts, `LoadBegin`
  asks, `LoadRead` reads or misses (`ReadReads`, by the argument of
  `NeverAnsweredAgain`), `LoadReturn` answers (by `NothingMissed`), `Reboot`
  crashes, and every other step is unseen but for a file it may spoil.  Two
  facts make the mapping hold still: a written alert keeps its time
  (`WrittenKeepsTime`), so the filters do not change their mind about it, and a
  turn of the filter loop only moves an alert from the scan to the answer
  (`ScanKeepsRead`).

`AgentServiceProofs` proves `TypeCorrect`, `SemaphoreBounds`
(`Spec => []TracersBounded`) and `AnswersComplete` (`Spec => []AnswerIsComplete`)
for any numbers of requests, processes, slots, failures and starts, with one
invariant `Inv`: the semaphore counts the goroutines attached to a process
(`SemCounts`), a goroutine that is not done belongs to a request that waits for
it (`Awaited`), one that is done has left its process in one of the two lists
(`Recorded`), and the one that holds the mutex stores the list it has just read
with its process added (`Guarded`).  `TracersBounded` alone is not inductive,
because giving a slot back says nothing about who held it.  The assumptions used are that the
processes are finitely many and the capacity is positive.

`LogTailProofs` proves, for every rank range, every `max_lines` and logs of any
length:

* `RingKeepsTail`: `Spec => []TailIsLast`.  The invariant says of each slot
  which scanned line it holds, counted backwards from `index` (`RingHolds`);
  the lemmas `RingStep` (one line more) and `ReadOut` (reading from `Start`)
  are the two halves of the ring buffer's argument.
* `RepliesInOrder`: `Spec => []RanksInOrder`.
* `ReadTypeCorrect`: `Spec => []TypeOK`, the entries of a reply included.
  `Entries` is a recursive function over the tail; that its values are
  sequences of stamped lines is shown from the least length at which it would
  fail.
* `NoHangIsMissed`: `Spec => []HangNotMissed`.  The invariant relates three
  times: every line of a log was stamped no later than the file was last
  written, a line scanned was in the log, and the suspension of a reply was
  computed at a time from which the clock has only gone on.  The last stamped
  line of the tail is the latest of it, and the file's time is used when there
  is none.  A line that is finished later keeps the time of its beginning.

`AlertPollingProofs` proves, for any number of agents, alerts, rounds, failures
and restarts:

* `TypeCorrect`, with the round invariants that keep windows from running
  backwards.
* `MarkedIsPrinted`: `Spec => []ProcessedIsPrinted`.  The strengthening `CallOK`
  says of every call of every round what its handler's place allows its outcome
  to be; a handler that goes on after its deadline only marks what it picked.
* `NeverPrintedTwice`: `Spec => []PrintedOnce`: an alert is printed in one round
  only, and there once unless its host is on the list twice.  An alert that is
  shown is processed, and what an answer under way holds was not shown when it
  was picked (`ShownOK`).
* `BehindForAReason`: `Spec => []BehindHasCause`, for every command line.
  `WindowsOK` says every second up to `lastEnd` was last covered by some round;
  the rest follows a stamped alert that is severe enough through every call to
  its agent in that round: the call failed, or the alert was not visible yet,
  or its file was being rewritten (`unseen`), or it was picked and then marked
  (`SeenOK`).
* `PollingImplementsGather`: `Spec => ImplementsGather`; initial states map to
  initial states and every step to a step of `Gather` or a stutter.  That no
  result is missing when the client prints is an invariant about the wait
  group, the closing of the channel and what is left in it.

`HangCheckProofs` proves `TypeCorrect`, `RoundsAreComplete`
(`Spec => []RoundIsComplete`) and `CheckImplementsGather`
(`Spec => ImplementsGather`) for finite nonempty sets of nodes and any numbers
of processes and samples.  The invariant says node by node what a goroutine's
place means for the channel, the suspicious nodes and the samples (`NodeOK`),
and what main's place means for all of them (`MainOK`).

`NoDiffIsSame` (`Spec => []NoDiffMeansSame`) and `HaveDiffIsCaused`
(`Spec => []HaveDiffHasCause`) are about what the names of the saved samples
stand for.  They rest on `ListsCompared`: two listings of processes, in whatever
order, compare as equal exactly when they list the same processes with the same
ranks and stacks.  One direction needs that a sorted rearrangement exists and
is a rearrangement, the other that there is only one, which is shown position
by position from the least place where two would differ; the threads of each
process are compared the same way.  The assumption used beyond the types is
that a process's threads have distinct numbers (`HangAssumption`): with a
repeated one the code's sort may leave the two in either order.  The parser
gives -1 to a thread whose header it cannot read, so two such threads in one
process are outside the theorem.

`FanOutProofs` proves `TypeCorrect`, `ReportsAreComplete`,
`ClosedBehindLastSend`, `LastWordIsTrue`, `DocumentsOnLines` and
`CommandsGather` for lists of any length and any number of commands, from
`FanOutAssumption`.  `SlotOK` ties a goroutine's place to its result, being
heard and its request; `FinalOK` says the report is the union of what was kept
of the addresses heard; `MainOK` says when the channel is closed.
`LastWordIsTrue` adds that nobody's outcome changes once the verdict is spoken;
`DocumentsOnLines` that the file of the running command ends with a newline
between its two appends.

`StackParserProofs` proves `TypeCorrect` and `ParsedAsPrinted`
(`Spec => []ThreadsAsPrinted`) for texts of any length, of what was scanned of them.  The invariant is the
property itself for the threads found so far, with `current` the last of them
and its last frame the one source lines go to; the lemmas say what one more
line of each kind does to `Heads`, `FrameLines` and `CodeLines`.

What stays with TLC is liveness (`LoadsReturn`, `RoundsEnd`, `InterruptStops`,
`CallsEnd`, `RestartTakesEffect`, `RoundsGoOn`, `Answers`, `CommandEnds`): the
prover handles neither fairness nor `ENABLED`.  Every invariant, action property
and refinement a passing run checks is also a theorem.

## 5. Disagreements seen while modelling, without a run

No run asserts what is listed here as if it were right: a property that would be
false on its account excepts the case, by name, or says nothing of it.

* `--interval-alert` and `--interval-hang` have "0 means execute once only" and
  "0 means execute only once" for help (`alerts.go:243`, `check_hang.go:170`),
  but 0 falls through to the configuration file, and 0 there to one minute: the
  branch for it (`check_hang.go:144`) is never reached.  The models go on as the
  code does (`Interval`); `RoundsGoOn` says nothing of what follows a round for
  a client asked for 0, and `RoundsEnd` nothing of what follows a round at all.
* `alerts --min-severity WARNING`, the command's own example (`alerts.go:42`),
  can show no stored alert: all are stored with severity 0
  (`default_service.go:30`), and the filter drops what is less severe than asked
  (`event_storage.go:396`).  `NothingMissed` and the log owe such a query
  nothing, and `BehindHasCause` names it as the first of its causes.
* An address list that names a host twice makes two calls to it in every round
  (`alerts.go:264`; `utils.go:182` removes nothing): both may read an alert before
  either marks it, which is then printed and posted twice.  `PrintedOnce` allows
  that and no other repetition.
* `time.Parse` reads a log time as UTC (`log_parser.go:34`): east of UTC a
  job's silence comes out too short.  `HangNotMissed` is stated for zones at or
  west of UTC; it fails without that condition.
* A hung pystack delays an answered restart for ever (see Fairness).
* Marks whose file could not be read, opened or written are dropped with the
  others (`event_storage.go:288`): the alerts of a file that could not be opened
  (`:334`) are whole and are answered again later.  The properties except such
  files (`unmarked`), and ruined ones.
* An applier publishes an index entry it computed before a storer's update
  (`event_storage.go:232`): a query can then miss the storer's alert.
  `NothingMissed` excepts overlapped files for that reason.
* `loadFile` reads without a lock (`event_storage.go:377`), and `os.WriteFile`
  empties the file before it writes: a query that reads while an alert is being
  stored, or while another query's marks are being applied, logs the error and
  answers without the file's alerts.  `NothingMissed` excepts those (`due`).
  The polling client then moves its window past them: one of the causes of
  `BehindHasCause`.
* A negative interval in the configuration file passes the flag's check and
  makes `check-hang` panic in `time.NewTicker` after its first round, which is
  what `RoundsGoOn` expects of it.
* `max_lines` 0 panics on the first line of a log and a negative one at once
  (`file_reader.go:156`, `:160`); nothing recovers the handler, so the agent goes
  down.  `Answers` is stated for requests that ask for lines.
* Only the end of the file ends a scan of a log (`file_reader.go:159`): a rank that
  writes as fast as it is read keeps the handler reading.  `Answers` is stated
  for ranks that come to stop.  A last line without its newline is returned as a
  line, whatever it will be; `TailIsLast` excepts that line.
* `deeptrace.proto:81` calls `stack_frames` a "Stack frame list (most recent
  first)", while the parser keeps the order pystack prints, "most recent call
  last", as its test expects (`stack_parser_test.go:16`).  `ThreadsAsPrinted` is
  about the printed order, and so shows the opposite of the comment.
* A line above 64 KB ends the parser's scan, and `scanner.Err` is never asked
  (`stack_parser.go:25`): the answer is short without an error.
  `ThreadsAsPrinted` says nothing of the threads after it.  A source line with
  the word `File` in it is dropped (`isCodeLine`); a header whose number is no
  int keeps its name with number -1 (`stack_parser.go:85`).
* A failed sample is an empty list, and the next good one is called "haveDiff"
  against it (`check_hang.go:405`).  `HaveDiffHasCause` names that cause.
* A last line without a time is not counted in the suspension, which is measured
  from the last line with one (`file_reader.go:94`), while `deeptrace.proto:47`
  calls it an interval.  `HangNotMissed` is the half that holds.
* `restart` on a clusterx text without nodes prints the parse error, then goes on
  with an empty list and reports that the request was sent to all nodes
  (`utils.go:24`, `restart.go:142`).  `VerdictIsTrue` holds vacuously there.
* `logs --rank` is compared to the letter with `RANK0` (`logs.go:191`), `stacks
  --rank` by the agent without regard to case (`python.go:54`).

## 6. Not modelled, and why

* Metrics: counters nothing reads.  Configuration reading, logger, version,
  UTF-8 cleaning, tables and colours: parsing and formatting.
* `CompareRank` (`utils.go`) is only called by `logs`, on a list nothing is ever
  added to (`logs.go:179`): the check of the rank it is for never fires.
* The latest log directory's choice, the shell scripts' text, the contents of
  `check-hang`'s files, Feishu's card layout.
* Generated protocol code: messages are records of the models.

## 7. What is left

* `AlertPolling`'s agents over `AlertLog`: it models the store by what
  `GetAlerts` shows of it, files that are being rewritten included, which is
  finer than the log.
* Which log directory is the latest, under a job that starts a new one while
  the log tail reads.
