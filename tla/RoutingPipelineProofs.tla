----------------------- MODULE RoutingPipelineProofs -----------------------
(* The safety of RoutingPipeline for every set of opids. *)
EXTENDS RoutingPipeline, SequenceTheorems, TLAPS

LEMMA EvenShift ==
  ASSUME NEW a \in Nat, NEW b \in Nat, a % 2 = 0
  PROVE  (b - a) % 2 = 0 <=> b % 2 = 0
  OBVIOUS

(* Two texts of whole lines make a text of whole lines: appending a chunk  *)
(* to what the 'data' listener holds breaks no line.                       *)
LEMMA WholeLinesConcat ==
  ASSUME NEW s \in Seq(Token), NEW t \in Seq(Token), WholeLines(s), WholeLines(t)
  PROVE  /\ s \o t \in Seq(Token)
         /\ WholeLines(s \o t)
         /\ Len(s \o t) = Len(s) + Len(t)
<1>1. /\ s \o t \in Seq(Token)
      /\ Len(s \o t) = Len(s) + Len(t)
      /\ Len(s) \in Nat /\ Len(t) \in Nat
  OBVIOUS
<1>2. Len(s \o t) % 2 = 0
  BY <1>1 DEF WholeLines
<1>3. ASSUME NEW i \in 1..Len(s \o t)
      PROVE  (s \o t)[i] = NL <=> i % 2 = 0
  <2>1. CASE i <= Len(s)
    <3>1. (s \o t)[i] = s[i] /\ i \in 1..Len(s)
      BY <1>1, <2>1
    <3> QED
      BY <3>1 DEF WholeLines
  <2>2. CASE i > Len(s)
    <3>1. (s \o t)[i] = t[i - Len(s)] /\ i - Len(s) \in 1..Len(t)
      BY <1>1, <2>2
    <3>2. t[i - Len(s)] = NL <=> (i - Len(s)) % 2 = 0
      BY <3>1 DEF WholeLines
    <3>3. (i - Len(s)) % 2 = 0 <=> i % 2 = 0
      <4>1. i \in Nat /\ Len(s) % 2 = 0
        BY <1>1 DEF WholeLines
      <4> QED
        BY <1>1, <4>1, EvenShift
    <3> QED
      BY <3>1, <3>2, <3>3
  <2> QED
    BY <1>1, <2>1, <2>2
<1> QED
  BY <1>1, <1>2, <1>3 DEF WholeLines

(* The listener's expression matches a text of whole lines exactly when it *)
(* is one line.                                                            *)
LEMMA MatchesOneLine ==
  ASSUME NEW s \in Seq(Token), WholeLines(s), s # <<>>
  PROVE  /\ Matches(s) => Len(s) = 2 /\ s[1] \in Ops /\ SubSeq(s, 3, Len(s)) = <<>>
         /\ ~ Matches(s) => Len(s) >= 4
<1>1. Len(s) \in Nat /\ Len(s) # 0
  OBVIOUS
<1>2. Len(s) >= 2 /\ Len(s) # 3
  BY <1>1 DEF WholeLines
<1>3. s[1] \in Ops /\ s[2] = NL
  BY <1>1, <1>2 DEF WholeLines, Token
<1>4. Len(s) >= 4 => s[4] = NL
  BY <1>1 DEF WholeLines
<1>5. Len(s) = 2 \/ Len(s) >= 4
  <2>1. \A n \in Nat : n >= 2 /\ n # 3 => n = 2 \/ n >= 4
    OBVIOUS
  <2> QED
    BY <1>1, <1>2, <2>1
<1>6. CASE Len(s) = 2
  <2>1. Matches(s)
    BY <1>3, <1>6 DEF Matches
  <2>2. SubSeq(s, 3, Len(s)) = <<>>
    BY <1>6
  <2> QED
    BY <1>3, <1>6, <2>1, <2>2
<1>7. CASE Len(s) >= 4
  <2>1. 4 \in 3..Len(s)
    BY <1>1, <1>7
  <2>2. ~ Matches(s)
    BY <1>4, <1>7, <2>1 DEF Matches
  <2> QED
    BY <1>7, <2>2
<1> QED
  BY <1>5, <1>6, <1>7

(* Elements() of the ways the model builds sequences. *)
LEMMA ElementsAppend ==
  ASSUME NEW S, NEW s \in Seq(S), NEW e \in S
  PROVE  Elements(Append(s, e)) = Elements(s) \cup {e}
<1>1. Len(Append(s, e)) = Len(s) + 1 /\ Len(s) \in Nat
  OBVIOUS
<1>2. \A i \in 1..Len(s) : Append(s, e)[i] = s[i]
  OBVIOUS
<1>3. Append(s, e)[Len(s) + 1] = e
  OBVIOUS
<1> QED
  BY <1>1, <1>2, <1>3 DEF Elements

LEMMA ElementsTail ==
  ASSUME NEW S, NEW s \in Seq(S), s # <<>>
  PROVE  Elements(s) = {Head(s)} \cup Elements(Tail(s))
<1>1. Len(Tail(s)) = Len(s) - 1 /\ Len(s) \in Nat \ {0} /\ Head(s) = s[1]
  OBVIOUS
<1>2. \A i \in 1..Len(Tail(s)) : Tail(s)[i] = s[i + 1]
  OBVIOUS
<1>3. \A i \in 2..Len(s) : i - 1 \in 1..Len(Tail(s)) /\ s[i] = Tail(s)[i - 1]
  BY <1>1, <1>2
<1>4. 1..Len(s) = {1} \cup 2..Len(s)
  BY <1>1
<1>5. Elements(s) \subseteq {Head(s)} \cup Elements(Tail(s))
  BY <1>1, <1>3, <1>4 DEF Elements
<1>6. Elements(Tail(s)) \subseteq Elements(s)
  BY <1>1, <1>2 DEF Elements
<1> QED
  BY <1>1, <1>5, <1>6 DEF Elements

LEMMA ElementsConcat ==
  ASSUME NEW S, NEW s \in Seq(S), NEW t \in Seq(S)
  PROVE  Elements(s \o t) = Elements(s) \cup Elements(t)
<1>1. Len(s \o t) = Len(s) + Len(t) /\ Len(s) \in Nat /\ Len(t) \in Nat
  OBVIOUS
<1>2. \A i \in 1..Len(s) : (s \o t)[i] = s[i]
  OBVIOUS
<1>3. \A i \in 1..Len(t) : i + Len(s) \in 1..Len(s \o t) /\ (s \o t)[i + Len(s)] = t[i]
  BY <1>1
<1>4. \A i \in 1..Len(s \o t) : i \in 1..Len(s) \/ (i - Len(s) \in 1..Len(t) /\ (s \o t)[i] = t[i - Len(s)])
  BY <1>1
<1>5. Elements(s \o t) \subseteq Elements(s) \cup Elements(t)
  BY <1>1, <1>2, <1>4 DEF Elements
<1>6. Elements(s) \subseteq Elements(s \o t) /\ Elements(t) \subseteq Elements(s \o t)
  BY <1>1, <1>2, <1>3 DEF Elements
<1> QED
  BY <1>5, <1>6

LEMMA ElementsOfPair ==
  ASSUME NEW a, NEW b
  PROVE  Elements(<<a, b>>) = {a, b}
<1>1. 1..Len(<<a, b>>) = {1, 2}
  OBVIOUS
<1>2. <<a, b>>[1] = a /\ <<a, b>>[2] = b
  OBVIOUS
<1> QED
  BY <1>1, <1>2 DEF Elements

LEMMA PrepareKeeps ==
  ASSUME IInv, NEW op \in Ops, Prepare(op)
  PROVE  IInv'
<1> USE DEF IInv
<1>1. TypeOK'
  BY TokensDistinct, VerdictsKnown DEF TypeOK, Token, File, ResultFiles, FileState, Prepare, threadVars
<1>2. MutexInv'
  BY TokensDistinct, VerdictsKnown DEF MutexInv, TypeOK, Prepare, threadVars
<1>3. CallInv'
  BY TokensDistinct, VerdictsKnown DEF CallInv, TypeOK, Prepare, threadVars
<1>4. DiskInv'
  BY TokensDistinct, VerdictsKnown DEF DiskInv, TypeOK, CallInv, File, ResultFiles, ReportFiles, Prepare, threadVars
<1>5. StreamInv'
  <2>1. UNCHANGED <<stdin, worker, pipe, stdout>>
    BY DEF Prepare, threadVars
  <2>2. \A o \in Ops : handler[o] \in {"sent", "waiting"} => handler'[o] = handler[o]
    BY DEF Prepare, TypeOK
  <2>3. \A i \in 1..Len(stdin) : stdin[i] \in Ops
    BY DEF TypeOK
  <2> QED
    BY <2>1, <2>2, <2>3 DEF StreamInv, WholeLines
<1>6. WayBackInv'
  BY TokensDistinct, VerdictsKnown DEF WayBackInv, TypeOK, Elements, Prepare, threadVars
<1> QED
  BY <1>1, <1>2, <1>3, <1>4, <1>5, <1>6

LEMMA SendKeeps ==
  ASSUME IInv, NEW op \in Ops, Send(op)
  PROVE  IInv'
<1> USE DEF IInv
<1>0. \/ daemon = "dead" /\ stdin' = stdin
      \/ /\ daemon = "up" /\ stdin' = Append(stdin, op)
         /\ Len(stdin') = Len(stdin) + 1 /\ Len(stdin) \in Nat
         /\ \A i \in 1..Len(stdin) : stdin'[i] = stdin[i]
         /\ stdin'[Len(stdin) + 1] = op
         /\ Elements(stdin') = Elements(stdin) \cup {op}
  BY ElementsAppend DEF TypeOK, Send
<1>1. TypeOK'
  BY TokensDistinct, VerdictsKnown DEF TypeOK, Token, File, ResultFiles, FileState, Send, threadVars
<1>2. MutexInv'
  BY TokensDistinct, VerdictsKnown DEF MutexInv, TypeOK, Send, threadVars
<1>3. CallInv'
  BY TokensDistinct, VerdictsKnown DEF CallInv, TypeOK, Send, threadVars
<1>4. DiskInv'
  BY TokensDistinct, VerdictsKnown DEF DiskInv, TypeOK, CallInv, File, ResultFiles, ReportFiles, Send, threadVars
<1>5. StreamInv'
  <2>1. UNCHANGED <<worker, pipe, stdout>>
    BY DEF Send, threadVars
  <2>2. /\ WholeLines(pipe') /\ WholeLines(stdout')
        /\ \A i \in 1..Len(pipe') : pipe'[i] \in Ops => worker'[pipe'[i]] = "done"
        /\ \A i \in 1..Len(stdout') : stdout'[i] \in Ops => worker'[stdout'[i]] = "done"
        /\ Len(stdout') # 0 => Len(stdout') >= 4
    BY <2>1 DEF StreamInv
  <2>3. \A o \in Ops : handler[o] \in {"sent", "waiting"} => handler'[o] \in {"sent", "waiting"}
    BY DEF Send, TypeOK
  <2>4. handler[op] = "prepared" /\ handler'[op] = "sent" /\ worker[op] = "none"
    BY DEF Send, TypeOK, CallInv
  <2>5. \A i \in 1..Len(stdin) :
          /\ stdin[i] \in Ops /\ stdin[i] # op
          /\ worker[stdin[i]] = "none" /\ handler[stdin[i]] \in {"sent", "waiting"}
    BY <2>4 DEF StreamInv, TypeOK
  <2>6. \A i, j \in 1..Len(stdin) : i # j => stdin[i] # stdin[j]
    BY DEF StreamInv
  <2>7. /\ \A i \in 1..Len(stdin') : /\ worker'[stdin'[i]] = "none"
                                      /\ handler'[stdin'[i]] \in {"sent", "waiting"}
        /\ \A i, j \in 1..Len(stdin') : i # j => stdin'[i] # stdin'[j]
    <3>1. CASE stdin' = stdin
      BY <3>1, <2>1, <2>3, <2>5, <2>6
    <3>2. CASE stdin' # stdin
      <4>1. \A i \in 1..Len(stdin') : i \in 1..Len(stdin) \/ i = Len(stdin) + 1
        BY <1>0, <3>2
      <4> QED
        BY <1>0, <2>1, <2>3, <2>4, <2>5, <2>6, <3>2, <4>1
    <3> QED
      BY <3>1, <3>2
  <2> QED
    BY <2>2, <2>7 DEF StreamInv, WholeLines
<1>6. WayBackInv'
  BY <1>0 DEF WayBackInv, TypeOK, Send, threadVars
<1> QED
  BY <1>1, <1>2, <1>3, <1>4, <1>5, <1>6

LEMMA RegisterKeeps ==
  ASSUME IInv, NEW op \in Ops, Register(op)
  PROVE  IInv'
<1> USE DEF IInv
<1>1. TypeOK'
  BY TokensDistinct, VerdictsKnown DEF TypeOK, Token, File, ResultFiles, FileState, Register, threadVars
<1>2. MutexInv'
  BY TokensDistinct, VerdictsKnown DEF MutexInv, TypeOK, Register, threadVars
<1>3. CallInv'
  BY TokensDistinct, VerdictsKnown DEF CallInv, TypeOK, Register, threadVars
<1>4. DiskInv'
  BY TokensDistinct, VerdictsKnown DEF DiskInv, TypeOK, CallInv, File, ResultFiles, ReportFiles, Register, threadVars
<1>5. StreamInv'
  BY TokensDistinct, VerdictsKnown DEF StreamInv, TypeOK, CallInv, WholeLines, Register, threadVars
<1>6. WayBackInv'
  BY TokensDistinct, VerdictsKnown DEF WayBackInv, TypeOK, Elements, Register, threadVars
<1> QED
  BY <1>1, <1>2, <1>3, <1>4, <1>5, <1>6

LEMMA StartWorkerKeeps ==
  ASSUME IInv, StartWorker
  PROVE  IInv'
<1> USE DEF IInv
<1> DEFINE op == Head(stdin)
<1>0. /\ op \in Ops /\ worker[op] = "none" /\ handler[op] \in {"sent", "waiting"}
      /\ verdict[op] = None /\ mutex # op
      /\ \A i \in 1..Len(stdin') : stdin'[i] \in Ops /\ stdin'[i] # op /\ stdin'[i] = stdin[i + 1]
      /\ Len(stdin') = Len(stdin) - 1 /\ Len(stdin) \in Nat
  <2>1. /\ op = stdin[1] /\ Len(stdin) \in Nat \ {0} /\ op \in Ops
        /\ Len(stdin') = Len(stdin) - 1
    BY DEF TypeOK, StartWorker
  <2>2. worker[op] = "none" /\ handler[op] \in {"sent", "waiting"}
    BY <2>1 DEF StreamInv
  <2>3. verdict[op] = None /\ mutex # op
    BY <2>1, <2>2 DEF CallInv, MutexInv
  <2>4. \A i \in 1..Len(stdin') : i + 1 \in 1..Len(stdin) /\ stdin'[i] = stdin[i + 1]
    BY <2>1 DEF TypeOK, StartWorker
  <2>5. \A i \in 1..Len(stdin') : stdin[i + 1] \in Ops /\ stdin[i + 1] # op
    <3>1. \A i \in 1..Len(stdin') : i + 1 # 1 /\ 1 \in 1..Len(stdin)
      BY <2>1
    <3>2. \A i, j \in 1..Len(stdin) : i # j => stdin[i] # stdin[j]
      BY DEF StreamInv
    <3>3. \A i \in 1..Len(stdin) : stdin[i] \in Ops
      BY DEF TypeOK
    <3> HIDE DEF op
    <3> QED
      BY <2>1, <2>4, <3>1, <3>2, <3>3
  <2> QED
    BY <2>1, <2>2, <2>3, <2>4, <2>5
<1>a. worker' = [worker EXCEPT ![op] = "running"]
  BY DEF StartWorker
<1> HIDE DEF op
<1>1. TypeOK'
  BY TokensDistinct, VerdictsKnown DEF TypeOK, Token, File, ResultFiles, FileState, StartWorker, nodeVars
<1>2. MutexInv'
  BY <1>0, <1>a DEF MutexInv, TypeOK, StartWorker, nodeVars
<1>3. CallInv'
  BY <1>0, <1>a DEF CallInv, TypeOK, StartWorker, nodeVars
<1>4. DiskInv'
  BY <1>0, <1>a DEF DiskInv, TypeOK, CallInv, File, ResultFiles, ReportFiles, StartWorker, nodeVars
<1>5. StreamInv'
  <2>1. \A i \in 1..Len(stdin') : i + 1 \in 1..Len(stdin)
    BY <1>0
  <2>2. \A i \in 1..Len(stdin') : /\ worker'[stdin'[i]] = "none"
                                 /\ handler'[stdin'[i]] \in {"sent", "waiting"}
    BY <1>0, <1>a, <2>1 DEF StreamInv, TypeOK, StartWorker, nodeVars
  <2>3. \A i, j \in 1..Len(stdin') : i # j => stdin'[i] # stdin'[j]
    BY <1>0, <2>1 DEF StreamInv
  <2>4. /\ \A i \in 1..Len(pipe) : pipe[i] \in Ops => worker'[pipe[i]] = "done"
        /\ \A i \in 1..Len(stdout) : stdout[i] \in Ops => worker'[stdout[i]] = "done"
    BY <1>0, <1>a DEF StreamInv, TypeOK
  <2> QED
    BY <2>2, <2>3, <2>4 DEF StreamInv, WholeLines, StartWorker, nodeVars
<1>6. WayBackInv'
  <2>1. Elements(stdin) = {op} \cup Elements(stdin')
    BY ElementsTail DEF TypeOK, StartWorker, op
  <2> QED
    BY <1>0, <1>a, <2>1 DEF WayBackInv, TypeOK, StartWorker, nodeVars
<1> QED
  BY <1>1, <1>2, <1>3, <1>4, <1>5, <1>6

LEMMA RouteKeeps ==
  ASSUME IInv, NEW op \in Ops, Route(op)
  PROVE  IInv'
<1> USE DEF IInv
<1>1. TypeOK'
  BY TokensDistinct, VerdictsKnown DEF TypeOK, Token, File, ResultFiles, FileState, Route, nodeVars
<1>2. MutexInv'
  BY TokensDistinct, VerdictsKnown DEF MutexInv, TypeOK, Route, nodeVars
<1>3. CallInv'
  BY TokensDistinct, VerdictsKnown DEF CallInv, TypeOK, Route, nodeVars
<1>4. DiskInv'
  BY TokensDistinct, VerdictsKnown DEF DiskInv, TypeOK, CallInv, File, ResultFiles, ReportFiles, Route, nodeVars
<1>5. StreamInv'
  BY TokensDistinct, VerdictsKnown DEF StreamInv, TypeOK, CallInv, WholeLines, Route, nodeVars
<1>6. WayBackInv'
  BY TokensDistinct, VerdictsKnown DEF WayBackInv, TypeOK, Elements, Route, nodeVars
<1> QED
  BY <1>1, <1>2, <1>3, <1>4, <1>5, <1>6

LEMMA AbortKeeps ==
  ASSUME IInv, NEW op \in Ops, Abort(op)
  PROVE  IInv'
<1> USE DEF IInv
<1>1. TypeOK'
  BY TokensDistinct, VerdictsKnown DEF TypeOK, Token, File, ResultFiles, FileState, Abort, nodeVars, threadVars
<1>2. MutexInv'
  BY TokensDistinct, VerdictsKnown DEF MutexInv, TypeOK, Abort, nodeVars, threadVars
<1>3. CallInv'
  BY TokensDistinct, VerdictsKnown DEF CallInv, TypeOK, Abort, nodeVars, threadVars
<1>4. DiskInv'
  BY TokensDistinct, VerdictsKnown DEF DiskInv, TypeOK, CallInv, File, ResultFiles, ReportFiles, Abort, nodeVars, threadVars
<1>5. StreamInv'
  BY TokensDistinct, VerdictsKnown DEF StreamInv, TypeOK, CallInv, WholeLines, Abort, nodeVars, threadVars
<1>6. WayBackInv'
  BY TokensDistinct, VerdictsKnown DEF WayBackInv, TypeOK, Elements, Abort, nodeVars, threadVars
<1> QED
  BY <1>1, <1>2, <1>3, <1>4, <1>5, <1>6

LEMMA OpenFileKeeps ==
  ASSUME IInv, NEW op \in Ops, NEW f \in ResultFiles, OpenFile(op, f)
  PROVE  IInv'
<1> USE DEF IInv
<1>1. TypeOK'
  BY TokensDistinct, VerdictsKnown DEF TypeOK, Token, File, ResultFiles, FileState, OpenFile, nodeVars, threadVars
<1>2. MutexInv'
  BY TokensDistinct, VerdictsKnown DEF MutexInv, TypeOK, OpenFile, nodeVars, threadVars
<1>3. CallInv'
  BY TokensDistinct, VerdictsKnown DEF CallInv, TypeOK, OpenFile, nodeVars, threadVars
<1>4. DiskInv'
  BY TokensDistinct, VerdictsKnown DEF DiskInv, TypeOK, CallInv, File, ResultFiles, ReportFiles, OpenFile, nodeVars, threadVars
<1>5. StreamInv'
  BY TokensDistinct, VerdictsKnown DEF StreamInv, TypeOK, CallInv, WholeLines, OpenFile, nodeVars, threadVars
<1>6. WayBackInv'
  BY TokensDistinct, VerdictsKnown DEF WayBackInv, TypeOK, Elements, OpenFile, nodeVars, threadVars
<1> QED
  BY <1>1, <1>2, <1>3, <1>4, <1>5, <1>6

LEMMA CloseFileKeeps ==
  ASSUME IInv, NEW op \in Ops, NEW f \in ResultFiles, CloseFile(op, f)
  PROVE  IInv'
<1> USE DEF IInv
<1>1. TypeOK'
  BY TokensDistinct, VerdictsKnown DEF TypeOK, Token, File, ResultFiles, FileState, CloseFile, nodeVars, threadVars
<1>2. MutexInv'
  BY TokensDistinct, VerdictsKnown DEF MutexInv, TypeOK, CloseFile, nodeVars, threadVars
<1>3. CallInv'
  BY TokensDistinct, VerdictsKnown DEF CallInv, TypeOK, CloseFile, nodeVars, threadVars
<1>4. DiskInv'
  BY TokensDistinct, VerdictsKnown DEF DiskInv, TypeOK, CallInv, File, ResultFiles, ReportFiles, CloseFile, nodeVars, threadVars
<1>5. StreamInv'
  BY TokensDistinct, VerdictsKnown DEF StreamInv, TypeOK, CallInv, WholeLines, CloseFile, nodeVars, threadVars
<1>6. WayBackInv'
  BY TokensDistinct, VerdictsKnown DEF WayBackInv, TypeOK, Elements, CloseFile, nodeVars, threadVars
<1> QED
  BY <1>1, <1>2, <1>3, <1>4, <1>5, <1>6

LEMMA LockStreamKeeps ==
  ASSUME IInv, NEW op \in Ops, LockStream(op)
  PROVE  IInv'
<1> USE DEF IInv
<1>1. TypeOK'
  BY TokensDistinct, VerdictsKnown DEF TypeOK, Token, File, ResultFiles, FileState, LockStream, nodeVars
<1>2. MutexInv'
  BY TokensDistinct, VerdictsKnown DEF MutexInv, TypeOK, LockStream, nodeVars
<1>3. CallInv'
  BY TokensDistinct, VerdictsKnown DEF CallInv, TypeOK, LockStream, nodeVars
<1>4. DiskInv'
  BY TokensDistinct, VerdictsKnown DEF DiskInv, TypeOK, CallInv, File, ResultFiles, ReportFiles, LockStream, nodeVars
<1>5. StreamInv'
  BY TokensDistinct, VerdictsKnown DEF StreamInv, TypeOK, CallInv, WholeLines, LockStream, nodeVars
<1>6. WayBackInv'
  BY TokensDistinct, VerdictsKnown DEF WayBackInv, TypeOK, Elements, LockStream, nodeVars
<1> QED
  BY <1>1, <1>2, <1>3, <1>4, <1>5, <1>6

LEMMA PrintIdKeeps ==
  ASSUME IInv, NEW op \in Ops, PrintId(op)
  PROVE  IInv'
<1> USE DEF IInv
<1>1. TypeOK'
  BY TokensDistinct, VerdictsKnown DEF TypeOK, Token, File, ResultFiles, FileState, PrintId, nodeVars
<1>2. MutexInv'
  <2>1. stdioBuf = <<>>
    BY DEF MutexInv, PrintId
  <2>2. stdioBuf' = <<op>>
    BY <2>1 DEF PrintId
  <2>3. \A o \in Ops : worker'[o] = "printed" => o = op
    BY DEF MutexInv, PrintId, TypeOK
  <2> QED
    BY <2>2, <2>3 DEF MutexInv, PrintId, TypeOK
<1>3. CallInv'
  BY TokensDistinct, VerdictsKnown DEF CallInv, TypeOK, PrintId, nodeVars
<1>4. DiskInv'
  BY TokensDistinct, VerdictsKnown DEF DiskInv, TypeOK, CallInv, File, ResultFiles, ReportFiles, PrintId, nodeVars
<1>5. StreamInv'
  BY TokensDistinct, VerdictsKnown DEF StreamInv, TypeOK, CallInv, WholeLines, PrintId, nodeVars
<1>6. WayBackInv'
  BY TokensDistinct, VerdictsKnown DEF WayBackInv, TypeOK, Elements, PrintId, nodeVars
<1> QED
  BY <1>1, <1>2, <1>3, <1>4, <1>5, <1>6

LEMMA PrintEndlKeeps ==
  ASSUME IInv, NEW op \in Ops, PrintEndl(op)
  PROVE  IInv'
<1> USE DEF IInv
<1>0. /\ Append(stdioBuf, NL) = <<op, NL>> /\ <<op, NL>> \in Seq(Token)
      /\ pipe' = pipe \o <<op, NL>>
  <2>1. stdioBuf = <<op>>
    BY DEF MutexInv, PrintEndl
  <2>3. op \in Token /\ NL \in Token
    BY DEF Token
  <2>2. Append(<<op>>, NL) = <<op, NL>>
    <3>1. Append(<<op>>, NL) \in Seq(Token) /\ Len(Append(<<op>>, NL)) = 2
      BY <2>3
    <3>2. Append(<<op>>, NL)[1] = op /\ Append(<<op>>, NL)[2] = NL
      BY <2>3
    <3>3. <<op, NL>> \in Seq(Token) /\ Len(<<op, NL>>) = 2
      BY <2>3
    <3>4. \A i \in 1..2 : Append(<<op>>, NL)[i] = <<op, NL>>[i]
      BY <3>2
    <3> QED
      BY <3>1, <3>3, <3>4, SeqEqual
  <2>4. <<op, NL>> \in Seq(Token)
    BY <2>3
  <2> QED
    BY <2>1, <2>2, <2>4 DEF PrintEndl
<1>a. Elements(pipe') = Elements(pipe) \cup {op, NL}
  <2>1. pipe \in Seq(Token)
    BY DEF TypeOK
  <2>2. pipe' = pipe \o <<op, NL>> /\ <<op, NL>> \in Seq(Token)
    BY <1>0
  <2> HIDE DEF IInv
  <2>3. Elements(pipe \o <<op, NL>>) = Elements(pipe) \cup Elements(<<op, NL>>)
    BY <2>1, <2>2, ElementsConcat
  <2>4. Elements(<<op, NL>>) = {op, NL}
    BY ElementsOfPair
  <2> QED
    BY <2>2, <2>3, <2>4
<1>1. TypeOK'
  BY TokensDistinct, VerdictsKnown DEF TypeOK, Token, File, ResultFiles, FileState, PrintEndl, nodeVars
<1>2. MutexInv'
  BY TokensDistinct, VerdictsKnown DEF MutexInv, TypeOK, PrintEndl, nodeVars
<1>3. CallInv'
  BY TokensDistinct, VerdictsKnown DEF CallInv, TypeOK, PrintEndl, nodeVars
<1>4. DiskInv'
  BY TokensDistinct, VerdictsKnown DEF DiskInv, TypeOK, CallInv, File, ResultFiles, ReportFiles, PrintEndl, nodeVars
<1>5. StreamInv'
  <2>1. WholeLines(pipe')
    <3>1. WholeLines(<<op, NL>>)
      BY TokensDistinct DEF WholeLines
    <3> QED
      BY <1>0, <3>1, WholeLinesConcat DEF TypeOK, StreamInv
  <2>2. \A i \in 1..Len(pipe') : pipe'[i] \in Ops => worker'[pipe'[i]] = "done"
    <3>1. \A e \in Elements(pipe) : e \in Ops => worker[e] = "done"
      BY DEF StreamInv, Elements
    <3>2. \A e \in Elements(pipe') : e \in Ops => worker'[e] = "done"
      BY <1>a, <3>1, TokensDistinct DEF PrintEndl, TypeOK
    <3> QED
      BY <3>2 DEF Elements
  <2>3. \A i \in 1..Len(stdin) : worker'[stdin[i]] = "none"
    BY DEF StreamInv, PrintEndl, TypeOK
  <2>4. \A i \in 1..Len(stdout) : stdout[i] \in Ops => worker'[stdout[i]] = "done"
    BY DEF StreamInv, PrintEndl, TypeOK
  <2>5. UNCHANGED <<stdin, handler, stdout>> /\ (WholeLines(stdout) => WholeLines(stdout)')
    BY DEF PrintEndl, nodeVars, WholeLines
  <2> QED
    BY <2>1, <2>2, <2>3, <2>4, <2>5 DEF StreamInv
<1>6. WayBackInv'
  BY <1>a DEF WayBackInv, TypeOK, PrintEndl, nodeVars
<1> QED
  BY <1>1, <1>2, <1>3, <1>4, <1>5, <1>6

(* What the continuation of a call finds on disk is its own thread's       *)
(* verdict, complete.                                                      *)
LEMMA ReplyIsVerdict ==
  ASSUME IInv, NEW op \in Ops, handler[op] = "waiting", worker[op] = "done"
  PROVE  /\ verdict[op] \in Verdicts
         /\ Reply(op) = IF verdict[op] = "ok" THEN "ok" ELSE "bad"
<1>1. verdict[op] \in Verdicts
  BY DEF IInv, TypeOK, CallInv
<1>2. \A f \in ResultFiles :
        disk[op][f] = IF f \in ReportFiles(verdict[op]) THEN "whole" ELSE "absent"
  BY DEF IInv, DiskInv, ResultFiles
<1>3. CASE verdict[op] = "ok"
  BY <1>1, <1>2, <1>3 DEF Reply, ReportFiles, ResultFiles
<1>4. CASE verdict[op] # "ok"
  BY <1>1, <1>2, <1>4 DEF Reply, ReportFiles, ResultFiles
<1> QED
  BY <1>3, <1>4

(* What the listener has in hand when it looks for a match. *)
LEMMA ListenerText ==
  ASSUME IInv, pipe # <<>>
  PROVE  LET text == stdout \o pipe IN
         /\ text \in Seq(Token) /\ WholeLines(text)
         /\ Elements(text) = Elements(stdout) \cup Elements(pipe)
         /\ \A i \in 1..Len(text) : text[i] \in Ops => worker[text[i]] = "done"
         /\ Matches(text) => /\ text[1] \in Ops /\ worker[text[1]] = "done"
                            /\ SubSeq(text, 3, Len(text)) = <<>>
                            /\ stdout = <<>> /\ Elements(pipe) = {text[1], NL}
         /\ ~ Matches(text) => Len(text) >= 4
<1> DEFINE text == stdout \o pipe
<1>1. stdout \in Seq(Token) /\ pipe \in Seq(Token) /\ WholeLines(stdout) /\ WholeLines(pipe)
  BY DEF IInv, TypeOK, StreamInv
<1>2. /\ text \in Seq(Token) /\ WholeLines(text) /\ Len(text) = Len(stdout) + Len(pipe)
  BY <1>1, WholeLinesConcat
<1>3. Elements(text) = Elements(stdout) \cup Elements(pipe)
  BY <1>1, ElementsConcat
<1>4. \A e \in Elements(text) : e \in Ops => worker[e] = "done"
  BY <1>3 DEF IInv, StreamInv, Elements
<1>5. Len(stdout) \in Nat /\ Len(pipe) \in Nat \ {0}
  BY <1>1
<1>6. text # <<>>
  BY <1>1, <1>2, <1>5
<1>7. \A i \in 1..Len(text) : text[i] \in Ops => worker[text[i]] = "done"
  BY <1>4 DEF Elements
<1>8. ASSUME Matches(text)
      PROVE  /\ text[1] \in Ops /\ worker[text[1]] = "done"
             /\ SubSeq(text, 3, Len(text)) = <<>>
             /\ stdout = <<>> /\ Elements(pipe) = {text[1], NL}
  <2>1. Len(text) = 2 /\ text[1] \in Ops /\ SubSeq(text, 3, Len(text)) = <<>> /\ text[2] = NL
    <3>1. text[2] = NL
      BY <1>8 DEF Matches
    <3> HIDE DEF text
    <3> QED
      BY <1>2, <1>6, <1>8, <3>1, MatchesOneLine
  <2>2. Len(stdout) = 0
    BY <1>2, <1>5, <2>1 DEF IInv, StreamInv
  <2>3. stdout = <<>>
    BY <1>1, <2>2
  <2>4. Elements(stdout) = {}
    BY <2>2 DEF Elements
  <2>5. Elements(text) = {text[1], text[2]}
    <3> HIDE DEF text
    <3>1. 1..Len(text) = {1, 2}
      BY <2>1
    <3> QED
      BY <3>1 DEF Elements
  <2> HIDE DEF text
  <2>6. worker[text[1]] = "done"
    BY <1>7, <2>1
  <2> QED
    BY <1>3, <2>1, <2>3, <2>4, <2>5, <2>6
<1>9. ~ Matches(text) => Len(text) >= 4
  <2> HIDE DEF text
  <2> QED
    BY <1>2, <1>6, MatchesOneLine
<1> QED
  BY <1>2, <1>3, <1>7, <1>8, <1>9

LEMMA StdoutDataKeeps ==
  ASSUME IInv, StdoutData
  PROVE  IInv'
<1> DEFINE text == stdout \o pipe
           op == text[1]
<1>1. /\ text \in Seq(Token) /\ WholeLines(text)
      /\ \A i \in 1..Len(text) : text[i] \in Ops => worker[text[i]] = "done"
      /\ ~ Matches(text) => Len(text) >= 4
      /\ Matches(text) => /\ op \in Ops /\ worker[op] = "done"
                         /\ SubSeq(text, 3, Len(text)) = <<>>
                         /\ stdout = <<>> /\ Elements(pipe) = {op, NL}
  BY ListenerText DEF StdoutData
<1>2. /\ UNCHANGED <<stdin, daemon, worker, verdict, mutex, stdioBuf>>
      /\ pipe' = <<>> /\ NodeIdle
  BY DEF StdoutData, threadVars
<1>3. \/ Matches(text) /\ stdout' = SubSeq(text, 3, Len(text)) /\ Resume(op)
      \/ ~ Matches(text) /\ stdout' = text /\ UNCHANGED <<handler, resolvers, disk>>
  BY DEF StdoutData
<1>4. MutexInv'
  BY <1>2 DEF IInv, MutexInv
<1> HIDE DEF text, op
<1>5. CASE ~ Matches(text)
  <2>1. /\ stdout' = text /\ UNCHANGED <<handler, resolvers, disk>>
        /\ Len(text) >= 4 /\ text # <<>>
    BY <1>1, <1>3, <1>5
  <2>2. TypeOK'
    BY <1>1, <1>2, <2>1 DEF IInv, TypeOK
  <2>3. CallInv' /\ DiskInv'
    BY <1>2, <2>1 DEF IInv, CallInv, DiskInv
  <2>4. StreamInv'
    BY <1>1, <1>2, <2>1 DEF IInv, StreamInv, WholeLines
  <2>5. WayBackInv'
    BY <2>1 DEF WayBackInv
  <2> QED
    BY <1>4, <2>2, <2>3, <2>4, <2>5 DEF IInv
<1>6. CASE Matches(text)
  <2>1. /\ op \in Ops /\ worker[op] = "done" /\ stdout' = <<>> /\ stdout = <<>>
        /\ Elements(pipe) = {op, NL} /\ Resume(op)
    BY <1>1, <1>3, <1>6
  <2>2. CASE op \notin resolvers
    <3>1. UNCHANGED <<handler, resolvers, disk>>
      BY <2>1, <2>2 DEF Resume, IInv, TypeOK
    <3>2. TypeOK'
      BY <1>2, <2>1, <3>1 DEF IInv, TypeOK
    <3>3. CallInv' /\ DiskInv'
      BY <1>2, <3>1 DEF IInv, CallInv, DiskInv
    <3>4. StreamInv'
      BY <1>2, <2>1, <3>1 DEF IInv, StreamInv, WholeLines
    <3>5. WayBackInv'
      BY <1>2, <2>1, <2>2, <3>1, TokensDistinct DEF IInv, CallInv, WayBackInv, NodeIdle
    <3> QED
      BY <1>4, <3>2, <3>3, <3>4, <3>5 DEF IInv
  <2>3. CASE op \in resolvers
    <3>1. handler[op] = "waiting"
      BY <2>1, <2>3 DEF IInv, CallInv
    <3>2. Reply(op) = (IF verdict[op] = "ok" THEN "ok" ELSE "bad") /\ verdict[op] \in Verdicts
      BY <2>1, <3>1, ReplyIsVerdict
    <3>3. /\ handler' = [handler EXCEPT ![op] = Reply(op)]
          /\ resolvers' = resolvers \ {op}
          /\ disk' = IF Reply(op) = "ok"
                       THEN [disk EXCEPT ![op] = [f \in File |-> "absent"]] ELSE disk
      BY <2>1, <2>3 DEF Resume, IInv, TypeOK
    <3>4. TypeOK'
      BY <1>2, <2>1, <3>2, <3>3 DEF IInv, TypeOK, FileState
    <3>5. CallInv'
      BY <1>2, <2>1, <3>1, <3>2, <3>3 DEF IInv, TypeOK, CallInv
    <3>6. DiskInv'
      BY <1>2, <2>1, <3>1, <3>2, <3>3 DEF IInv, TypeOK, DiskInv
    <3>7. StreamInv'
      BY <1>2, <2>1, <3>3 DEF IInv, TypeOK, StreamInv, WholeLines
    <3>8. WayBackInv'
      BY <1>2, <2>1, <3>2, <3>3, TokensDistinct DEF IInv, TypeOK, CallInv, WayBackInv, NodeIdle
    <3> QED
      BY <1>4, <3>4, <3>5, <3>6, <3>7, <3>8 DEF IInv
  <2> QED
    BY <2>2, <2>3
<1> QED
  BY <1>5, <1>6

LEMMA InitEstablishes == Init => IInv
<1> SUFFICES ASSUME Init PROVE IInv
  OBVIOUS
<1>1. TypeOK
  BY DEF Init, TypeOK, File, FileState, Token
<1>2. MutexInv /\ CallInv /\ DiskInv
  BY TokensDistinct DEF Init, MutexInv, CallInv, DiskInv, ResultFiles, File
<1>3. StreamInv /\ WayBackInv
  BY DEF Init, StreamInv, WholeLines, WayBackInv
<1> QED
  BY <1>1, <1>2, <1>3 DEF IInv

LEMMA StepKeeps == IInv /\ [Next]_vars => IInv'
<1> SUFFICES ASSUME IInv, [Next]_vars PROVE IInv'
  OBVIOUS
<1>1. CASE StdoutData
  BY <1>1, StdoutDataKeeps
<1>2. CASE StartWorker
  BY <1>2, StartWorkerKeeps
<1>3. ASSUME NEW op \in Ops, Call(op)
      PROVE  IInv'
  BY <1>3, PrepareKeeps, SendKeeps, RegisterKeeps DEF Call
<1>4. ASSUME NEW op \in Ops, Work(op)
      PROVE  IInv'
  BY <1>4, RouteKeeps, OpenFileKeeps, CloseFileKeeps, LockStreamKeeps, PrintIdKeeps,
     PrintEndlKeeps DEF Work
<1>5. ASSUME NEW op \in Ops, Abort(op)
      PROVE  IInv'
  BY <1>5, AbortKeeps
<1>6. CASE UNCHANGED vars
  BY <1>6 DEF vars, IInv, TypeOK, MutexInv, CallInv, DiskInv, StreamInv, WayBackInv, WholeLines,
     Elements
<1> QED
  BY <1>1, <1>2, <1>3, <1>4, <1>5, <1>6 DEF Next

(* The inductive invariant holds in every reachable state, for any number  *)
(* of concurrent calls of route().                                         *)
THEOREM Invariance == Spec => []IInv
<1> QED
  BY InitEstablishes, StepKeeps, PTL DEF Spec

(* Every variable keeps its type. *)
THEOREM TypeCorrect == Spec => []TypeOK
<1>1. IInv => TypeOK
  BY DEF IInv
<1> QED
  BY <1>1, Invariance, PTL

-----------------------------------------------------------------------------
(* Its consequences. *)

LEMMA SecondLineWedges ==
  ASSUME IInv, stdout # <<>>
  PROVE  Wedged
<1>1. Len(stdout) >= 4 /\ WholeLines(stdout)
  BY DEF IInv, TypeOK, StreamInv
<1>2. 2 \in 1..Len(stdout) /\ 4 \in 1..Len(stdout)
  BY <1>1 DEF IInv, TypeOK
<1>3. stdout[2] = NL /\ stdout[4] = NL
  BY <1>1, <1>2 DEF WholeLines
<1> QED
  BY <1>2, <1>3 DEF Wedged

(* Every call that waits has its opid on the way back, unless the daemon   *)
(* died or the 'data' listener is stuck.                                   *)
THEOREM NoLostWakeUp == Spec => []AnswerOnItsWay
<1>1. IInv => AnswerOnItsWay
  BY SecondLineWedges DEF IInv, WayBackInv, CallInv, TypeOK, AnswerOnItsWay
<1> QED
  BY <1>1, Invariance, PTL

(* An opid reaches the listener only after its thread closed the files of  *)
(* its verdict, and they stay until the call is answered.                  *)
THEOREM NoticeAfterResults == Spec => []ResultsBeforeNotice
<1>1. IInv => ResultsBeforeNotice
  <2> SUFFICES ASSUME IInv, NEW op \in Announced \cap resolvers
               PROVE  /\ disk[op]["input"] = "whole"
                      /\ \A f \in ResultFiles : disk[op][f] =
                           IF f \in ReportFiles(verdict[op]) THEN "whole" ELSE "absent"
    BY DEF ResultsBeforeNotice
  <2>1. op \in Ops /\ handler[op] = "waiting"
    BY DEF IInv, TypeOK, CallInv
  <2>2. worker[op] = "done"
    BY <2>1 DEF IInv, StreamInv, Announced, Elements
  <2> QED
    BY <2>1, <2>2 DEF IInv, DiskInv
<1> QED
  BY <1>1, Invariance, PTL

(* What the daemon prints reaches Node line by line. *)
THEOREM LinesStayWhole == Spec => []StreamOfLines
<1>1. IInv => StreamOfLines
  BY DEF IInv, StreamInv, StreamOfLines
<1> QED
  BY <1>1, Invariance, PTL

(* No answer removes a directory that a thread still uses. *)
THEOREM ThreadsKeepTheirDirectory == Spec => []DirectoryOutlivesThread
<1>1. IInv => DirectoryOutlivesThread
  BY DEF IInv, CallInv, DiskInv, TypeOK, DirectoryOutlivesThread
<1> QED
  BY <1>1, Invariance, PTL

(* A stuck listener is stuck for good and resumes nobody. *)
THEOREM StuckForGood == Spec => WedgedForever
<1>1. ASSUME IInv, [Next]_vars, Wedged
      PROVE  Wedged' /\ resolvers \subseteq resolvers'
  <2>1. CASE StdoutData
    <3> DEFINE text == stdout \o pipe
    <3>1. stdout # <<>> /\ stdout \in Seq(Token) /\ pipe \in Seq(Token)
      BY <1>1 DEF Wedged, IInv, TypeOK
    <3>2. ~ Matches(text)
      BY <1>1, <2>1, <3>1, ListenerText DEF StdoutData
    <3>3. stdout' = text /\ resolvers' = resolvers
      BY <2>1, <3>2 DEF StdoutData
    <3>4. Len(text) = Len(stdout) + Len(pipe) /\ Len(stdout) \in Nat /\ Len(pipe) \in Nat
      BY <3>1
    <3>5. \A i \in 1..Len(stdout) : i \in 1..Len(text) /\ text[i] = stdout[i]
      BY <3>1, <3>4
    <3> HIDE DEF text
    <3>6. Wedged'
      BY <1>1, <3>3, <3>5 DEF Wedged
    <3> QED
      BY <3>3, <3>6
  <2>2. CASE UNCHANGED stdout /\ resolvers \subseteq resolvers'
    BY <1>1, <2>2 DEF Wedged
  <2>3. StdoutData \/ (UNCHANGED stdout /\ resolvers \subseteq resolvers')
    BY <1>1 DEF Next, vars, nodeVars, threadVars, StartWorker, Call, Prepare, Send, Register,
       Work, Route, OpenFile, CloseFile, LockStream, PrintId, PrintEndl, Abort
  <2> QED
    BY <2>1, <2>2, <2>3
<1>2. IInv /\ [Next]_vars => [Wedged => Wedged' /\ resolvers \subseteq resolvers']_vars
  BY <1>1
<1> QED
  BY <1>2, Invariance, PTL DEF Spec, WedgedForever

-----------------------------------------------------------------------------
(* The refinement: sending an opid submits the job, findRoute's return     *)
(* settles it, the listener answers it; every other step stutters.         *)

LEMMA JobsInitially == Init => Jobs!JobsInit
  BY DEF Init, Jobs!JobsInit, JobOf

LEMMA JobsStep == IInv /\ [Next]_vars => [Jobs!JobsNext]_(Jobs!jobVars)
<1> SUFFICES ASSUME IInv, [Next]_vars
             PROVE  Jobs!JobsNext \/ UNCHANGED <<JobOf, verdict>>
  BY DEF Jobs!jobVars
<1> USE DEF IInv, TypeOK
<1>1. CASE UNCHANGED <<handler, verdict>>
  BY <1>1 DEF JobOf
<1>2. ASSUME NEW op \in Ops, Prepare(op) \/ Register(op)
      PROVE  UNCHANGED <<JobOf, verdict>>
  BY <1>2 DEF Prepare, Register, threadVars, JobOf
<1>3. ASSUME NEW op \in Ops, Send(op)
      PROVE  Jobs!Submit(op)
  BY <1>3 DEF Send, threadVars, JobOf, Jobs!Submit
<1>4. ASSUME NEW op \in Ops, Route(op)
      PROVE  Jobs!Settle(op)
  BY <1>4 DEF Route, nodeVars, CallInv, JobOf, Jobs!Settle
<1>5. CASE StdoutData
  <2> DEFINE op == (stdout \o pipe)[1]
  <2>1. verdict' = verdict
    BY <1>5 DEF StdoutData, threadVars
  <2>2. CASE handler' = handler
    BY <2>1, <2>2, <1>1
  <2>3. CASE handler' # handler
    <3>1. Matches(stdout \o pipe) /\ Resume(op)
      BY <1>5, <2>3 DEF StdoutData
    <3>2. op \in Ops /\ worker[op] = "done"
      BY <1>5, <3>1, ListenerText DEF StdoutData
    <3> HIDE DEF op
    <3>3. op \in resolvers /\ handler' = [handler EXCEPT ![op] = Reply(op)]
      BY <2>3, <3>1, <3>2 DEF Resume
    <3>4. handler[op] = "waiting"
      BY <3>2, <3>3 DEF CallInv
    <3>5. /\ verdict[op] \in Verdicts
          /\ Reply(op) = IF verdict[op] = "ok" THEN "ok" ELSE "bad"
      BY <3>2, <3>4, ReplyIsVerdict
    <3>6. Jobs!Answer(op)
      BY <2>1, <3>2, <3>3, <3>4, <3>5 DEF JobOf, Jobs!Answer, Jobs!AnswerTo
    <3> QED
      BY <3>2, <3>6 DEF Jobs!JobsNext
  <2> QED
    BY <2>2, <2>3
<1>6. \/ UNCHANGED <<handler, verdict>>
      \/ \E op \in Ops : Prepare(op) \/ Register(op) \/ Send(op) \/ Route(op)
      \/ StdoutData
  BY DEF Next, vars, nodeVars, threadVars, StartWorker, Call, Work, OpenFile, CloseFile,
     LockStream, PrintId, PrintEndl, Abort
<1> QED
  BY <1>1, <1>2, <1>3, <1>4, <1>5, <1>6 DEF Jobs!JobsNext

(* The pipeline implements RouteJobs: a call is answered at most once, and *)
(* with the verdict of its own thread.                                     *)
THEOREM Refinement == Spec => ImplementsRouteJobs
<1> QED
  BY JobsInitially, JobsStep, Invariance, PTL DEF Spec, ImplementsRouteJobs, Jobs!JobsSpec
=============================================================================
