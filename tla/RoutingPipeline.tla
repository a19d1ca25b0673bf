-------------------------- MODULE RoutingPipeline --------------------------
(***************************************************************************)
(* RoutingService (src/aviation/routing.service.ts) and the C++ daemon it  *)
(* spawns (analyzer/drivers/daemon.cpp).                                   *)
(*                                                                         *)
(* A call of route() writes a directory processing/<opid>, sends the opid  *)
(* down the daemon's stdin and registers a resolver.  The daemon starts a  *)
(* detached thread per opid, which computes, writes its result files into  *)
(* the directory and prints the opid on stdout.  The 'data' listener of    *)
(* that stdout parses the opids and resumes the waiting calls, which read  *)
(* the files back.  Everything in Node runs on one thread; the daemon's    *)
(* threads interleave with it and with each other.                         *)
(***************************************************************************)
EXTENDS Naturals, Sequences

CONSTANTS Ops,       \* opids, one per call of route(); createId() never repeats one
          NL,        \* the newline that endl prints
          None,      \* no thread, no verdict
          Verdicts,  \* what a routing thread may conclude and report
          MayAbort   \* whether findRoute() may throw what processRouting does not catch

AllVerdicts == {"ok", "badreq", "unroutable", "runtime"}

ASSUME TokensDistinct == NL \notin Ops /\ None \notin Ops
ASSUME VerdictsKnown  == Verdicts \subseteq AllVerdicts /\ None \notin AllVerdicts
ASSUME MayAbortIsFlag == MayAbort \in BOOLEAN

VARIABLES
  handler,    \* how far each call of route() has got, or how it ended
  resolvers,  \* keys of RoutingService.resolvers
  stdin,      \* lines in the pipe to the daemon
  daemon,     \* "up" or "dead"
  worker,     \* control state of the thread of each opid
  verdict,    \* what findRoute concluded for it
  mutex,      \* holder of streamMutex
  stdioBuf,   \* the daemon's stdout buffer, not flushed yet
  pipe,       \* what was flushed and Node has not read
  stdout,     \* the listener's string of the same name
  disk        \* the files of processing/<opid>

vars == <<handler, resolvers, stdin, daemon, worker, verdict, mutex, stdioBuf,
          pipe, stdout, disk>>

nodeVars   == <<handler, resolvers, stdout>>
threadVars == <<worker, verdict, mutex, stdioBuf>>

Token       == Ops \cup {NL}
ResultFiles == {"baseline", "routing", "errors"}
File        == {"input"} \cup ResultFiles   \* "input": the four request files
FileState   == {"absent", "partial", "whole"}

TypeOK ==
  /\ handler \in [Ops -> {"new", "prepared", "sent", "waiting", "ok", "bad", "crash"}]
  /\ resolvers \in SUBSET Ops
  /\ stdin \in Seq(Ops)
  /\ daemon \in {"up", "dead"}
  /\ worker \in [Ops -> {"none", "running", "writing", "locked", "printed", "done"}]
  /\ verdict \in [Ops -> Verdicts \cup {None}]
  /\ mutex \in Ops \cup {None}
  /\ stdioBuf \in Seq(Token)
  /\ pipe \in Seq(Token)
  /\ stdout \in Seq(Token)
  /\ disk \in [Ops -> [File -> FileState]]

Init ==
  /\ handler = [op \in Ops |-> "new"]
  /\ resolvers = {}
  /\ stdin = <<>>
  /\ daemon = "up"
  /\ worker = [op \in Ops |-> "none"]
  /\ verdict = [op \in Ops |-> None]
  /\ mutex = None
  /\ stdioBuf = <<>>
  /\ pipe = <<>>
  /\ stdout = <<>>
  /\ disk = [op \in Ops |-> [f \in File |-> "absent"]]

-----------------------------------------------------------------------------
(* Node.  route() runs without yielding from mkdirSync to resolvers.set:   *)
(* no other Node action happens in between, but the daemon's may.          *)

NodeIdle == \A op \in Ops : handler[op] \notin {"prepared", "sent"}

(* mkdirSync and the four writeFileSync calls. *)
Prepare(op) ==
  /\ NodeIdle
  /\ handler[op] = "new"
  /\ handler' = [handler EXCEPT ![op] = "prepared"]
  /\ disk' = [disk EXCEPT ![op]["input"] = "whole"]
  /\ UNCHANGED <<resolvers, stdin, daemon, threadVars, pipe, stdout>>

(* proc.stdin.write; an EPIPE from a dead daemon is logged and forgotten. *)
Send(op) ==
  /\ handler[op] = "prepared"
  /\ handler' = [handler EXCEPT ![op] = "sent"]
  /\ stdin' = IF daemon = "up" THEN Append(stdin, op) ELSE stdin
  /\ UNCHANGED <<resolvers, daemon, threadVars, pipe, stdout, disk>>

(* resolvers.set; the call then waits for its promise. *)
Register(op) ==
  /\ handler[op] = "sent"
  /\ handler' = [handler EXCEPT ![op] = "waiting"]
  /\ resolvers' = resolvers \cup {op}
  /\ UNCHANGED <<stdin, daemon, threadVars, pipe, stdout, disk>>

(* The listener's regular expression wants an opid, a newline and then     *)
(* anything up to the end of the string: without the s and m flags that    *)
(* "anything" stops at a newline, so there must not be another one.        *)
Matches(s) ==
  /\ Len(s) >= 2
  /\ s[1] \in Ops
  /\ s[2] = NL
  /\ \A i \in 3..Len(s) : s[i] # NL

(* Mutant: files that cannot be read do not stop the continuation. *)
ReplyUnchecked(op) == "ok"

(* How the continuation of route() ends.  A missing or truncated file      *)
(* sends it to the catch block; a missing errors.json throws out of that.  *)
Reply(op) ==
  IF \A f \in {"baseline", "routing"} : disk[op][f] = "whole"
    THEN "ok"
    ELSE IF disk[op]["errors"] = "whole" THEN "bad" ELSE "crash"

(* Mutant: success removes the whole "processing" directory. *)
ResumeAndRemoveAll(op) ==
  /\ resolvers' = resolvers \ {op}
  /\ handler' = [handler EXCEPT ![op] = IF op \in resolvers THEN Reply(op) ELSE @]
  /\ disk' = IF op \in resolvers /\ Reply(op) = "ok"
               THEN [o \in Ops |-> [f \in File |-> "absent"]]
               ELSE disk

(* Calling the resolver of op, if there is one, and before any other event *)
(* is handled the continuation behind it; a directory is only removed      *)
(* after a success.                                                        *)
Resume(op) ==
  /\ resolvers' = resolvers \ {op}
  /\ handler' = [handler EXCEPT ![op] = IF op \in resolvers THEN Reply(op) ELSE @]
  /\ disk' = IF op \in resolvers /\ Reply(op) = "ok"
               THEN [disk EXCEPT ![op] = [f \in File |-> "absent"]]
               ELSE disk

(* The 'data' listener: one chunk holds all that was flushed since the     *)
(* last one.  Its loop runs at most once: what Matches leaves behind the   *)
(* newline has no newline of its own.                                      *)
StdoutData ==
  /\ NodeIdle
  /\ pipe # <<>>
  /\ pipe' = <<>>
  /\ LET text == stdout \o pipe IN
       \/ /\ Matches(text)
          /\ stdout' = SubSeq(text, 3, Len(text))
          /\ Resume(text[1])
       \/ /\ ~ Matches(text)
          /\ stdout' = text
          /\ UNCHANGED <<handler, resolvers, disk>>
  /\ UNCHANGED <<stdin, daemon, threadVars>>

-----------------------------------------------------------------------------
(* The daemon. *)

(* Mutant: what is read behind the first line is thrown away. *)
StartWorkerAndIgnoreRest ==
  /\ daemon = "up"
  /\ stdin # <<>>
  /\ worker' = [worker EXCEPT ![Head(stdin)] = "running"]
  /\ stdin' = <<>>
  /\ UNCHANGED <<nodeVars, daemon, verdict, mutex, stdioBuf, pipe, disk>>

(* main(): getline and a detached thread. *)
StartWorker ==
  /\ daemon = "up"
  /\ stdin # <<>>
  /\ worker' = [worker EXCEPT ![Head(stdin)] = "running"]
  /\ stdin' = Tail(stdin)
  /\ UNCHANGED <<nodeVars, daemon, verdict, mutex, stdioBuf, pipe, disk>>

(* processRouting up to the first output file. *)
Route(op) ==
  /\ daemon = "up"
  /\ worker[op] = "running"
  /\ disk[op]["input"] = "whole"
  /\ worker' = [worker EXCEPT ![op] = "writing"]
  /\ \E v \in Verdicts : verdict' = [verdict EXCEPT ![op] = v]
  /\ UNCHANGED <<nodeVars, stdin, daemon, mutex, stdioBuf, pipe, disk>>

(* An exception no handler of processRouting takes -- an unreadable input  *)
(* or a logic_error of findRoute -- terminates the process, all threads.   *)
Abort(op) ==
  /\ daemon = "up"
  /\ worker[op] = "running"
  /\ disk[op]["input"] = "whole" => MayAbort
  /\ daemon' = "dead"
  /\ UNCHANGED <<nodeVars, stdin, threadVars, pipe, disk>>

ReportFiles(v) == IF v = "ok" THEN {"baseline", "routing"} ELSE {"errors"}

(* ofstream: created empty, ... *)
OpenFile(op, f) ==
  /\ daemon = "up"
  /\ worker[op] = "writing"
  /\ f \in ReportFiles(verdict[op])
  /\ f = "routing" => disk[op]["baseline"] = "whole"
  /\ disk[op][f] = "absent"
  /\ disk' = [disk EXCEPT ![op][f] = "partial"]
  /\ UNCHANGED <<nodeVars, stdin, daemon, threadVars, pipe>>

(* ... complete once written and closed. *)
CloseFile(op, f) ==
  /\ daemon = "up"
  /\ worker[op] = "writing"
  /\ disk[op][f] = "partial"
  /\ disk' = [disk EXCEPT ![op][f] = "whole"]
  /\ UNCHANGED <<nodeVars, stdin, daemon, threadVars, pipe>>

(* Mutant: the opid is announced before the files are closed. *)
LockStreamEarly(op) ==
  /\ daemon = "up"
  /\ worker[op] = "writing"
  /\ mutex = None
  /\ mutex' = op
  /\ worker' = [worker EXCEPT ![op] = "locked"]
  /\ UNCHANGED <<nodeVars, stdin, daemon, verdict, stdioBuf, pipe, disk>>

(* Mutant: no lock_guard. *)
PrintWithoutLock(op) ==
  /\ daemon = "up"
  /\ worker[op] = "writing"
  /\ \A f \in ReportFiles(verdict[op]) : disk[op][f] = "whole"
  /\ worker' = [worker EXCEPT ![op] = "locked"]
  /\ UNCHANGED <<nodeVars, stdin, daemon, verdict, mutex, stdioBuf, pipe, disk>>

(* lock_guard, once every file is closed. *)
LockStream(op) ==
  /\ daemon = "up"
  /\ worker[op] = "writing"
  /\ \A f \in ReportFiles(verdict[op]) : disk[op][f] = "whole"
  /\ mutex = None
  /\ mutex' = op
  /\ worker' = [worker EXCEPT ![op] = "locked"]
  /\ UNCHANGED <<nodeVars, stdin, daemon, verdict, stdioBuf, pipe, disk>>

(* cout << string(id) *)
PrintId(op) ==
  /\ daemon = "up"
  /\ worker[op] = "locked"
  /\ worker' = [worker EXCEPT ![op] = "printed"]
  /\ stdioBuf' = Append(stdioBuf, op)
  /\ UNCHANGED <<nodeVars, stdin, daemon, verdict, mutex, pipe, disk>>

(* Mutant: a newline, but no flush. *)
PrintNewline(op) ==
  /\ daemon = "up"
  /\ worker[op] = "printed"
  /\ worker' = [worker EXCEPT ![op] = "done"]
  /\ stdioBuf' = Append(stdioBuf, NL)
  /\ mutex' = None
  /\ UNCHANGED <<nodeVars, stdin, daemon, verdict, pipe, disk>>

(* << endl, which flushes, and the end of the guarded block. *)
PrintEndl(op) ==
  /\ daemon = "up"
  /\ worker[op] = "printed"
  /\ worker' = [worker EXCEPT ![op] = "done"]
  /\ pipe' = pipe \o Append(stdioBuf, NL)
  /\ stdioBuf' = <<>>
  /\ mutex' = None
  /\ UNCHANGED <<nodeVars, stdin, daemon, verdict, disk>>

-----------------------------------------------------------------------------
Call(op) == Prepare(op) \/ Send(op) \/ Register(op)

Work(op) ==
  \/ Route(op)
  \/ \E f \in ResultFiles : OpenFile(op, f) \/ CloseFile(op, f)
  \/ LockStream(op) \/ PrintId(op) \/ PrintEndl(op)

Next ==
  \/ StdoutData
  \/ StartWorker
  \/ \E op \in Ops : Call(op) \/ Work(op) \/ Abort(op)

Spec == Init /\ [][Next]_vars

(* Node goes on with what it has begun and handles pending data; the       *)
(* daemon's main loop and its threads are scheduled.  No thread need abort *)
(* and no call need be made.  A thread waits for the mutex at most once    *)
(* per other thread, so weak fairness is enough for it.                    *)
Fairness ==
  /\ WF_vars(StdoutData)
  /\ WF_vars(StartWorker)
  /\ \A op \in Ops : WF_vars(Send(op) \/ Register(op)) /\ WF_vars(Work(op))

FairSpec == Spec /\ Fairness

-----------------------------------------------------------------------------
(* Properties. *)

Elements(s) == {s[i] : i \in 1..Len(s)}

(* The parser is stuck: it holds two newlines, so that the expression      *)
(* never matches again whatever is appended (see WedgedForever).           *)
Wedged == \E i, j \in 1..Len(stdout) : i < j /\ stdout[i] = NL /\ stdout[j] = NL

(* No wake-up is lost between stdin.write and resolvers.set, between       *)
(* threads sharing stdout, or by the parser while it works: every call     *)
(* that waits has its opid on the way back -- queued for the daemon, held  *)
(* by a live thread or unread in the pipe -- unless the daemon is dead or  *)
(* the parser is stuck.                                                    *)
AnswerOnItsWay ==
  \A op \in resolvers :
    \/ daemon = "dead"
    \/ Wedged
    \/ op \in Elements(stdin)
    \/ worker[op] \notin {"none", "done"}
    \/ op \in Elements(pipe)

(* Results are on disk before they are announced: when an opid is in the   *)
(* pipe or in the parser and its call still waits, exactly the files of    *)
(* the thread's verdict are there, each one closed, next to the input.     *)
Announced == Elements(pipe) \cup Elements(stdout)

ResultsBeforeNotice ==
  \A op \in Announced \cap resolvers :
    /\ disk[op]["input"] = "whole"
    /\ \A f \in ResultFiles :
         disk[op][f] = IF f \in ReportFiles(verdict[op]) THEN "whole" ELSE "absent"

(* The threads share one stdout, and yet what Node reads is a sequence of  *)
(* lines of one opid each: streamMutex keeps the prints apart.             *)
WholeLines(s) ==
  /\ Len(s) % 2 = 0
  /\ \A i \in 1..Len(s) : s[i] = NL <=> i % 2 = 0

StreamOfLines == WholeLines(pipe) /\ WholeLines(stdout)

(* The directory of a call is there as long as a thread may use it: no     *)
(* answer to anyone removes files that a thread still reads or writes.     *)
DirectoryOutlivesThread ==
  \A op \in Ops : worker[op] \notin {"none", "done"} => disk[op]["input"] = "whole"

(* Once the parser is stuck it stays so, and no call is ever resumed.      *)
WedgedForever ==
  [][Wedged => Wedged' /\ resolvers \subseteq resolvers']_vars

(* Every call settles, or the service is beyond repair.                    *)
EveryRequestSettles ==
  \A op \in Ops :
    handler[op] = "waiting" ~> handler[op] \in {"ok", "bad"} \/ daemon = "dead" \/ Wedged

(* The pipeline implements the promise of RouteJobs: each call gets its    *)
(* own thread's verdict, once, and never the 500 of a missing errors.json. *)
JobOf ==
  [op \in Ops |-> IF handler[op] \in {"new", "prepared"} THEN "new"
                  ELSE IF handler[op] \in {"sent", "waiting"} THEN "pending"
                  ELSE handler[op]]

Jobs == INSTANCE RouteJobs WITH job <- JobOf

ImplementsRouteJobs == Jobs!JobsSpec

-----------------------------------------------------------------------------
(* The inductive invariant behind the safety properties: TypeOK and the    *)
(* four parts below.  RoutingPipelineProofs proves it inductive.           *)

(* The holder of streamMutex is the one thread that prints, and what it    *)
(* printed is all that the daemon's stdout buffer holds.                   *)
MutexInv ==
  /\ \A op \in Ops : worker[op] \in {"locked", "printed"} <=> mutex = op
  /\ \A op \in Ops : worker[op] = "printed" => stdioBuf = <<op>>
  /\ (\A op \in Ops : worker[op] # "printed") => stdioBuf = <<>>

(* How far a call has got against how far its thread has. *)
CallInv ==
  \A op \in Ops :
    /\ op \in resolvers <=> handler[op] = "waiting"
    /\ handler[op] \in {"new", "prepared"} => worker[op] = "none"
    /\ handler[op] \in {"ok", "bad"} => worker[op] = "done"
    /\ handler[op] # "crash"
    /\ worker[op] \in {"none", "running"} <=> verdict[op] = None
    /\ handler[op] = "ok" => verdict[op] = "ok"
    /\ handler[op] = "bad" => verdict[op] # "ok"

(* What a call and its thread have left in the directory. *)
DiskInv ==
  \A op \in Ops :
    /\ handler[op] \notin {"new", "ok"} => disk[op]["input"] = "whole"
    /\ handler[op] # "ok" => \A f \in ResultFiles :
         /\ worker[op] \in {"none", "running"} \/ f \notin ReportFiles(verdict[op])
              => disk[op][f] = "absent"
         /\ worker[op] \in {"locked", "printed", "done"} /\ f \in ReportFiles(verdict[op])
              => disk[op][f] = "whole"

(* What the two pipes and the parser hold. *)
StreamInv ==
  /\ \A i \in 1..Len(stdin) : /\ worker[stdin[i]] = "none"
                              /\ handler[stdin[i]] \in {"sent", "waiting"}
  /\ \A i, j \in 1..Len(stdin) : i # j => stdin[i] # stdin[j]
  /\ WholeLines(pipe) /\ WholeLines(stdout)
  /\ \A i \in 1..Len(pipe) : pipe[i] \in Ops => worker[pipe[i]] = "done"
  /\ \A i \in 1..Len(stdout) : stdout[i] \in Ops => worker[stdout[i]] = "done"
  /\ Len(stdout) # 0 => Len(stdout) >= 4

(* AnswerOnItsWay, from the moment the opid is sent. *)
WayBackInv ==
  \A op \in Ops : handler[op] \in {"sent", "waiting"} =>
    \/ daemon = "dead"
    \/ stdout # <<>>
    \/ op \in Elements(stdin)
    \/ worker[op] \notin {"none", "done"}
    \/ op \in Elements(pipe)

IInv == TypeOK /\ MutexInv /\ CallInv /\ DiskInv /\ StreamInv /\ WayBackInv

-----------------------------------------------------------------------------
(* Properties the code does not have. *)

(* What the loop of the 'data' listener is for -- "while (match)",         *)
(* routing.service.ts:49 -- : when the listener returns, no complete line  *)
(* is left at the head of its buffer.                                      *)
NoLineLeftBehind == ~ (Len(stdout) >= 2 /\ stdout[2] = NL)
=============================================================================
