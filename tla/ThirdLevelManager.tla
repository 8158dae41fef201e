----------------------------- MODULE ThirdLevelManager -----------------------------
(***************************************************************************)
(* The third level manager, the broker two systems are connected to, and   *)
(* the two ProcessManagers' side of its protocol (ThirdLevelUtils).        *)
(*                                                                         *)
(* The broker and the systems are sequential programs: work and todo hold  *)
(* the sends and receives that are left of the operation they execute, and *)
(* a receive puts the steps of the branch it leads to in front.  A socket  *)
(* keeps the order of its messages and holds Capacity of them; a data      *)
(* transfer is Chunks of them, after its announcement and its size.        *)
(***************************************************************************)
EXTENDS Naturals, Sequences, SequencesExt, FiniteSetsExt

CONSTANTS
    Systems,        \* the two systems
    NumPieces,      \* sparse grids exchanged: one per grid and rank
    Subspaces,      \* the subspaces sparse grids may have
    SpacesOf,       \* each system's own <<subspace, piece>>s
    Operations,     \* the methods the applications call
    Builds,         \* which systems may be built with assertions (no NDEBUG)
    Chunks,         \* messages a data transfer takes
    Capacity,       \* messages a socket's buffers hold
    MaxCalls,       \* bound: calls per application, finalize not counted
    None

Pieces == 1..NumPieces

ASSUME ThirdLevelAssumption ==
    /\ IsFiniteSet(Systems)
    /\ Cardinality(Systems) = 2         \* asserted by the broker's operations
    /\ Operations \subseteq {"combineThirdLevel", "combineThirdLevelFileBased",
            "unifySubspaceSizesThirdLevel", "unifyExtraSparseGrid", "monteCarloThirdLevel"}
    /\ SpacesOf \in [Systems -> SUBSET (Subspaces \X Pieces)]
    /\ NumPieces \in Nat \ {0}
    /\ Builds \subseteq SUBSET Systems
    /\ Chunks \in Nat \ {0} /\ Capacity \in Nat \ {0} /\ MaxCalls \in Nat

VARIABLES
    accepted,       \* the systems the broker has accepted, in order
    systems,        \* systems_: those that have not logged off
    next,           \* the index s of the runtime loop
    work,           \* what is left of the operation the broker processes
    toManager,      \* the messages from each system to the broker
    toSystem,       \* the messages from the broker to each system
    debug,          \* the systems built with assertions
    plan,           \* the methods the applications agree on, as far as called
    calls,          \* the calls each system has made
    todo,           \* what is left of the method each system executes
    grid,           \* each piece of a system's sparse grid: contributions <<system, call>>
    spaces,         \* the <<subspace, piece>>s of a system's sparse grids
    dsguSizes,      \* dsguDataSizePerWorker_: those exchanged, or None
    coords,         \* Monte Carlo: whose coordinates a system has, of which call
    values,         \* Monte Carlo: values <<system, coordinates>>
    buffer,         \* data received and not used yet
    files,          \* <<system, call>> of the sparse grid files written
    arrived,        \* those transferred to the other system
    result          \* history: what the last call left each system with

socketVars == <<toManager, toSystem>>
brokerVars == <<accepted, systems, next, work>>
dataVars == <<grid, spaces, dsguSizes, coords, values, buffer>>
fileVars == <<files, arrived>>
appVars == <<debug, plan, calls>>
vars == <<brokerVars, socketVars, appVars, todo, dataVars, fileVars, result>>

Requests == {"ready_to_combine", "ready_to_combine_file", "ready_to_unify_subspace_sizes",
             "ready_to_exchange_data", "finished_computation"}
Instructions == {"send_first", "recv_first", "write_ok"}

\* A message is a text, the size of a transfer or a chunk of its bytes.
Kinds == Requests \cup Instructions \cup {"sending_data", "ready", "size", "bytes"}

Text(t) == [kind |-> t, size |-> <<"", {}>>, data |-> {}]

Init ==
    /\ accepted = <<>> /\ systems = <<>> /\ next = 1 /\ work = <<>>
    /\ toManager = [s \in Systems |-> <<>>]
    /\ toSystem = [s \in Systems |-> <<>>]
    /\ debug \in Builds
    /\ plan = <<>>
    /\ calls = [s \in Systems |-> 0]
    /\ todo = [s \in Systems |-> <<>>]
    /\ grid = [s \in Systems |-> [p \in Pieces |-> {}]]
    /\ spaces = SpacesOf
    /\ dsguSizes = [s \in Systems |-> None]
    /\ coords = [s \in Systems |-> <<s, 0>>]
    /\ values = [s \in Systems |-> {}]
    /\ buffer = [s \in Systems |-> {}]
    /\ files = {} /\ arrived = {}
    /\ result = [s \in Systems |-> {}]

OtherThan(s) == CHOOSE o \in Systems : o # s

-----------------------------------------------------------------------------
\* The methods of a system, as the steps it executes.

Step(do, what, piece, how) == [do |-> do, what |-> what, piece |-> piece, how |-> how]

Signal(text) == <<Step("signal", text, None, "")>>
Fetch(what) == <<Step("fetch", what, None, "")>>
Local(do) == <<Step(do, "", None, "")>>

\* sendData: the announcement, the size and the bytes.
SendData(what, p) ==
    Signal("sending_data") \o <<Step("sendSize", what, p, "")>>
        \o [i \in 1..Chunks |-> Step("sendBytes", what, p, "")]

\* recvData, recvAndAddToData: the size and the bytes; how they are used is
\* known when all of them are there.
RecvData(what, p, how) ==
    <<Step("recvSize", what, p, "")>>
        \o [i \in 1..(Chunks - 1) |-> Step("recvBytes", what, p, "wait")]
        \o <<Step("recvBytes", what, p, how)>>

\* Mutant: the receiver does not add its own part.
ExchangeDsgusReplacing(first) ==
    FlattenSeq([p \in Pieces |->
        IF first THEN SendData("grid", p) \o RecvData("grid", p, "replace")
                 ELSE RecvData("grid", p, "replace") \o SendData("grid", p)])

\* exchangeDsgus, piece by piece: the one that sends first gets the sum back,
\* the other adds what it receives and returns it.
ExchangeDsgus(first) ==
    FlattenSeq([p \in Pieces |->
        IF first THEN SendData("grid", p) \o RecvData("grid", p, "replace")
                 ELSE RecvData("grid", p, "add") \o SendData("grid", p)])

\* The other exchanges: both keep what they receive until both have sent.
ExchangeAndKeep(what, first) ==
    IF first THEN SendData(what, None) \o RecvData(what, None, "keep")
             ELSE RecvData(what, None, "keep") \o SendData(what, None)

\* monteCarloThirdLevel, the coordinates: a build with assertions sends them back.
ExchangeCoords(s, first) ==
    IF first
    THEN SendData("coords", None)
            \o (IF s \in debug THEN RecvData("coords", None, "compare") ELSE <<>>)
    ELSE RecvData("coords", None, "adopt")
            \o (IF s \in debug THEN SendData("coords", None) ELSE <<>>)

\* What a system does when instructed.  A message that is no instruction it
\* passes over (with the coordinates it throws).
Role(s, what, instruction) ==
    LET first == instruction = "send_first"
    IN  IF instruction \notin Instructions THEN <<>>
        ELSE CASE what = "grid" -> ExchangeDsgus(first)
               [] what = "coords" -> ExchangeCoords(s, first)
               [] what \in {"sizes", "values"} -> ExchangeAndKeep(what, first)
               [] what = "file" -> Local("write") \o Local("readReduce")

Script(op) ==
    CASE op = "combineThirdLevel" ->
            Signal("ready_to_combine") \o Fetch("grid") \o Signal("ready") \o Local("return")
      [] op = "combineThirdLevelFileBased" ->
            Signal("ready_to_combine_file") \o Fetch("file") \o Signal("ready") \o Local("return")
      [] op = "unifySubspaceSizesThirdLevel" ->
            Signal("ready_to_unify_subspace_sizes") \o Fetch("sizes") \o Local("reduceMax")
                \o Signal("ready") \o Local("return")
      [] op = "unifyExtraSparseGrid" ->
            Signal("ready_to_unify_subspace_sizes") \o Fetch("sizes") \o Local("reduceMin")
                \o Signal("ready") \o Local("return")
      [] op = "monteCarloThirdLevel" ->
            Signal("ready_to_exchange_data") \o Fetch("coords") \o Signal("ready")
                \o Local("interpolate")
                \o Signal("ready_to_exchange_data") \o Fetch("values") \o Signal("ready")
                \o Local("addUp") \o Local("return")
      [] op = "finalize" -> Signal("finished_computation") \o Local("return")

\* The sparse grids are sized once, before they are sent through the manager.
SizesKnown(op) ==
    LET Unifying == {"unifySubspaceSizesThirdLevel", "unifyExtraSparseGrid"}
        sized == \E i \in DOMAIN plan : plan[i] \in Unifying
    IN  /\ op = "combineThirdLevel" => sized
        /\ op \in Unifying => ~sized

\* The applications run the same program: the first to get there chooses the
\* method.  combineSystemWide leaves the sum of the system's own grids, and
\* monteCarloThirdLevel draws coordinates.
Call(s, op) ==
    LET k == calls[s] + 1
    IN  /\ todo[s] = <<>>
        /\ calls[s] > 0 => plan[calls[s]] # "finalize"
        /\ IF k <= Len(plan)
           THEN op = plan[k] /\ UNCHANGED plan
           ELSE /\ op # "finalize" => Len(plan) < MaxCalls /\ SizesKnown(op)
                /\ plan' = Append(plan, op)
        /\ calls' = [calls EXCEPT ![s] = k]
        /\ todo' = [todo EXCEPT ![s] = Script(op)]
        /\ grid' = IF op \in {"combineThirdLevel", "combineThirdLevelFileBased"}
                   THEN [grid EXCEPT ![s] = [p \in Pieces |-> {<<s, k>>}]]
                   ELSE grid
        /\ coords' = IF op = "monteCarloThirdLevel" THEN [coords EXCEPT ![s] = <<s, k>>]
                     ELSE coords
        /\ UNCHANGED <<brokerVars, socketVars, debug, spaces, dsguSizes, values, buffer,
                       fileVars, result>>

-----------------------------------------------------------------------------
\* The steps of a system.

Now(s) == Head(todo[s])

At(s, do) == todo[s] # <<>> /\ Now(s).do = do

Advance(s) == todo' = [todo EXCEPT ![s] = Tail(@)]

Payload(s, what, p) ==
    CASE what = "grid" -> grid[s][p]
      [] what = "sizes" -> spaces[s]
      [] what = "coords" -> {coords[s]}
      [] what = "values" -> values[s]

\* The number of elements: of a piece, that of its subspaces.
SizeOf(s, what, p) ==
    <<what, IF what = "grid" THEN {x \in dsguSizes[s] : x[2] = p} ELSE {}>>

Send(s) ==
    /\ \/ At(s, "signal") /\ LET m == Text(Now(s).what)
                             IN  toManager' = [toManager EXCEPT ![s] = Append(@, m)]
       \/ At(s, "sendSize") /\ LET size == SizeOf(s, Now(s).what, Now(s).piece)
                                   m == [Text("size") EXCEPT !.size = size]
                               IN  toManager' = [toManager EXCEPT ![s] = Append(@, m)]
       \/ At(s, "sendBytes") /\ LET data == Payload(s, Now(s).what, Now(s).piece)
                                    m == [Text("bytes") EXCEPT !.data = data]
                                IN  toManager' = [toManager EXCEPT ![s] = Append(@, m)]
    /\ Len(toManager[s]) < Capacity
    /\ Advance(s)
    /\ UNCHANGED <<brokerVars, toSystem, appVars, dataVars, fileVars, result>>

Receive(s) ==
    /\ toSystem[s] # <<>>
    /\ toSystem' = [toSystem EXCEPT ![s] = Tail(@)]

FetchInstruction(s) ==
    /\ At(s, "fetch")
    /\ Receive(s)
    /\ todo' = [todo EXCEPT ![s] = Role(s, Now(s).what, Head(toSystem[s]).kind) \o Tail(@)]
    /\ UNCHANGED <<brokerVars, toManager, appVars, dataVars, fileVars, result>>

ReceiveSize(s) ==
    /\ At(s, "recvSize")
    /\ Receive(s)
    /\ Advance(s)
    /\ UNCHANGED <<brokerVars, toManager, appVars, dataVars, fileVars, result>>

ReceiveBytes(s) ==
    /\ At(s, "recvBytes")
    /\ Receive(s)
    /\ LET data == Head(toSystem[s]).data
           p == Now(s).piece
           how == Now(s).how
       IN  \/ /\ how \in {"wait", "compare"}
              /\ UNCHANGED <<grid, buffer, coords>>
           \/ /\ how = "replace"
              /\ grid' = [grid EXCEPT ![s][p] = data]
              /\ UNCHANGED <<buffer, coords>>
           \/ /\ how = "add"
              /\ grid' = [grid EXCEPT ![s][p] = @ \cup data]
              /\ UNCHANGED <<buffer, coords>>
           \/ /\ how = "keep"
              /\ buffer' = [buffer EXCEPT ![s] = data]
              /\ UNCHANGED <<grid, coords>>
           \/ /\ how = "adopt"
              /\ coords' = [coords EXCEPT ![s] = CHOOSE c \in data : TRUE]
              /\ UNCHANGED <<grid, buffer>>
    /\ Advance(s)
    /\ UNCHANGED <<brokerVars, toManager, appVars, spaces, dsguSizes, values, fileVars, result>>

\* reduceLocalAndRemoteSubspaceSizes: the maximum unites the subspaces, and the
\* workers take them over; the minimum keeps the common ones.
ReduceSizes(s) ==
    /\ \/ /\ At(s, "reduceMax")
          /\ dsguSizes' = [dsguSizes EXCEPT ![s] = spaces[s] \cup buffer[s]]
          /\ spaces' = [spaces EXCEPT ![s] = @ \cup buffer[s]]
       \/ /\ At(s, "reduceMin")
          /\ dsguSizes' = [dsguSizes EXCEPT ![s] = spaces[s] \cap buffer[s]]
          /\ UNCHANGED spaces
    /\ Advance(s)
    /\ UNCHANGED <<brokerVars, socketVars, appVars, grid, coords, values, buffer,
                   fileVars, result>>

InterpolateValues(s) ==
    /\ \/ At(s, "interpolate") /\ values' = [values EXCEPT ![s] = {<<s, coords[s]>>}]
       \/ At(s, "addUp") /\ values' = [values EXCEPT ![s] = @ \cup buffer[s]]
    /\ Advance(s)
    /\ UNCHANGED <<brokerVars, socketVars, appVars, grid, spaces, dsguSizes, coords, buffer,
                   fileVars, result>>

\* The sparse grid file of this combination, and then its token.
WriteFile(s) ==
    /\ At(s, "write")
    /\ files' = files \cup {<<s, calls[s]>>}
    /\ Advance(s)
    /\ UNCHANGED <<brokerVars, socketVars, appVars, dataVars, arrived, result>>

\* The file transfer between the systems: the file, and then its token.
TransferFile ==
    /\ \E f \in files \ arrived : arrived' = arrived \cup {f}
    /\ UNCHANGED <<brokerVars, socketVars, appVars, todo, dataVars, files, result>>

\* The file of the other system is awaited and added.
ReadReduce(s) ==
    /\ At(s, "readReduce")
    /\ LET f == <<OtherThan(s), calls[s]>>
       IN  /\ f \in arrived
           /\ grid' = [grid EXCEPT ![s] = [p \in Pieces |-> @[p] \cup {f}]]
    /\ Advance(s)
    /\ UNCHANGED <<brokerVars, socketVars, appVars, spaces, dsguSizes, coords, values, buffer,
                   fileVars, result>>

Outcome(s, op) ==
    CASE op \in {"combineThirdLevel", "combineThirdLevelFileBased"} ->
            {x \in (Systems \X (1..calls[s])) \X Pieces : x[1] \in grid[s][x[2]]}
      [] op \in {"unifySubspaceSizesThirdLevel", "unifyExtraSparseGrid"} -> dsguSizes[s]
      [] op = "monteCarloThirdLevel" -> values[s]
      [] op = "finalize" -> {}

Return(s) ==
    /\ At(s, "return")
    /\ result' = [result EXCEPT ![s] = Outcome(s, plan[calls[s]])]
    /\ Advance(s)
    /\ UNCHANGED <<brokerVars, socketVars, appVars, dataVars, fileVars>>

-----------------------------------------------------------------------------
\* The operations of the broker, as the steps it executes.

Job(do, sys, text) == [do |-> do, sys |-> sys, text |-> text]

SendTo(s, text) == <<Job("send", s, text)>>
Expect(s, text) == <<Job("expect", s, text)>>

\* forwardData: the size, and then the bytes.
ForwardData(s) ==
    <<Job("forward", s, "size")>> \o [i \in 1..Chunks |-> Job("forward", s, "bytes")]

\* The other system: the next one in systems_.
OtherOf(s) == systems[(SelectInSeq(systems, LAMBDA x : x = s) % Len(systems)) + 1]

\* Mutant: both systems are told to send first.
OpenBothFirst(i, o, request) ==
    SendTo(i, "send_first") \o Expect(o, request) \o SendTo(o, "send_first")

\* Mutant: the other system is told its role without being ready.
OpenUnasked(i, o, request) == SendTo(i, "send_first") \o SendTo(o, "recv_first")

\* The initiator is told its role, and the other one when it is ready as well.
Open(i, o, request) ==
    SendTo(i, "send_first") \o Expect(o, request) \o SendTo(o, "recv_first")

Operation(request, i, o) ==
    CASE request = "ready_to_combine" ->
            Open(i, o, "ready_to_combine") \o <<Job("grids", i, "")>> \o Expect(o, "ready")
      [] request = "ready_to_combine_file" ->
            SendTo(i, "write_ok") \o Expect(o, "ready_to_combine_file")
                \o SendTo(o, "write_ok") \o Expect(i, "ready") \o Expect(o, "ready")
      [] request = "ready_to_unify_subspace_sizes" ->
            Open(i, o, "ready_to_unify_subspace_sizes")
                \o <<Job("optional", i, ""), Job("optional", o, "")>>
                \o Expect(i, "ready") \o Expect(o, "ready")
      [] request = "ready_to_exchange_data" ->
            Open(i, o, "ready_to_exchange_data")
                \o <<Job("optional", i, ""), Job("sendBack", o, "")>>
      [] OTHER -> <<>>

systemSide == <<appVars, todo, dataVars, fileVars, result>>

\* init(): the systems connect in any order.
AcceptClient(s) ==
    /\ s \notin ToSet(accepted)
    /\ accepted' = Append(accepted, s)
    /\ systems' = Append(systems, s)
    /\ UNCHANGED <<next, work, socketVars, systemSide>>

\* The loop index after a system was served or passed over.
Following(i, n) == IF i < n THEN i + 1 ELSE 1

Polling == work = <<>> /\ Len(accepted) = Cardinality(Systems) /\ systems # <<>>

\* hasMessage times out.
NoMessage ==
    /\ Polling
    /\ toManager[systems[next]] = <<>>
    /\ next' = Following(next, Len(systems))
    /\ UNCHANGED <<accepted, systems, work, socketVars, systemSide>>

\* processMessage; processFinished removes the system, and the loop goes on with
\* the index after it.
ProcessMessage ==
    /\ Polling
    /\ LET s == systems[next]
           request == Head(toManager[s]).kind
       IN  /\ toManager[s] # <<>>
           /\ toManager' = [toManager EXCEPT ![s] = Tail(@)]
           /\ systems' = IF request = "finished_computation" THEN RemoveAt(systems, next)
                         ELSE systems
           /\ next' = Following(next, Len(systems'))
           /\ work' = Operation(request, s, OtherOf(s))
    /\ UNCHANGED <<accepted, toSystem, systemSide>>

Job1 == Head(work)

Doing(do) == work # <<>> /\ Job1.do = do

Deliver(s, m) ==
    /\ Len(toSystem[s]) < Capacity
    /\ toSystem' = [toSystem EXCEPT ![s] = Append(@, m)]

Take(s) ==
    /\ toManager[s] # <<>>
    /\ toManager' = [toManager EXCEPT ![s] = Tail(@)]

Instruct ==
    /\ Doing("send")
    /\ Deliver(Job1.sys, Text(Job1.text))
    /\ work' = Tail(work)
    /\ UNCHANGED <<accepted, systems, next, toManager, systemSide>>

\* Chunks and sizes are passed on, from one system to the other.
Forward ==
    /\ Doing("forward")
    /\ Take(Job1.sys)
    /\ Deliver(OtherThan(Job1.sys), Head(toManager[Job1.sys]))
    /\ work' = Tail(work)
    /\ UNCHANGED <<accepted, systems, next, systemSide>>

\* The receives of the operations, and what follows on the message received:
\* combination loops until the initiator is ready; the other operations forward
\* data if it is announced, and processAnyData does without the second transfer.
ReceiveMessage ==
    /\ work # <<>> /\ Job1.do \notin {"send", "forward"}
    /\ Take(Job1.sys)
    /\ LET s == Job1.sys
           o == OtherThan(s)
           text == Head(toManager[s]).kind
       IN  work' =
             CASE Job1.do = "grids" /\ text # "ready" ->
                    ForwardData(s) \o Expect(o, "sending_data") \o ForwardData(o) \o work
               [] Job1.do = "optional" /\ text = "sending_data" -> ForwardData(s) \o Tail(work)
               [] Job1.do = "sendBack" /\ text = "sending_data" ->
                    ForwardData(s) \o Expect(o, "ready") \o Expect(s, "ready")
               [] Job1.do = "sendBack" /\ text # "sending_data" -> Expect(o, "ready")
               [] OTHER -> Tail(work)
    /\ UNCHANGED <<accepted, systems, next, toSystem, systemSide>>

-----------------------------------------------------------------------------
Broker == NoMessage \/ ProcessMessage \/ Instruct \/ Forward \/ ReceiveMessage

SystemStep(s) ==
    \/ Send(s) \/ FetchInstruction(s) \/ ReceiveSize(s) \/ ReceiveBytes(s) \/ ReduceSizes(s)
    \/ InterpolateValues(s) \/ WriteFile(s) \/ ReadReduce(s) \/ Return(s)

CallMethod(s) == \E op \in Operations \cup {"finalize"} : Call(s, op)

Next ==
    \/ Broker
    \/ TransferFile
    \/ \E s \in Systems : AcceptClient(s) \/ CallMethod(s) \/ SystemStep(s)

\* The three programs run, the network delivers, files are transferred, and the
\* applications go on to their end.
Fairness ==
    /\ WF_vars(Broker)
    /\ WF_vars(TransferFile)
    /\ \A s \in Systems :
        WF_vars(AcceptClient(s)) /\ WF_vars(CallMethod(s)) /\ WF_vars(SystemStep(s))

Spec == Init /\ [][Next]_vars /\ Fairness

-----------------------------------------------------------------------------
\* Properties.

\* What a receive of the broker asserts, or does without saying.
Understood(job) ==
    CASE job.do = "expect" -> {job.text}
      [] job.do = "forward" -> {job.text}
      [] job.do \in {"grids", "sendBack"} -> {"sending_data", "ready"}
      [] job.do = "optional" -> {"sending_data"}
      [] OTHER -> Kinds

\* Whatever the order in which the systems get ready, every message is taken
\* where it is meant: the broker's assertions hold, its operations run with two
\* systems connected, a system reads an instruction, a size or data when it waits
\* for one, the remote data has the size of the local data (recvData,
\* recvAndAddToData) and the coordinates sent back are those that were sent; a
\* method leaves nothing in the socket that the next one would read.
MessagesUnderstood ==
    /\ work # <<>> /\ Job1.do # "send" /\ toManager[Job1.sys] # <<>> =>
            Head(toManager[Job1.sys]).kind \in Understood(Job1)
    /\ Polling /\ toManager[systems[next]] # <<>> =>
            \/ Head(toManager[systems[next]]).kind = "finished_computation"
            \/ Head(toManager[systems[next]]).kind \in Requests /\ Len(systems) = 2
    /\ \A s \in Systems : toSystem[s] # <<>> =>
        LET kind == Head(toSystem[s]).kind
        IN  /\ At(s, "fetch") => kind \in IF Now(s).what = "file" THEN {"write_ok"}
                                          ELSE {"send_first", "recv_first"}
            /\ At(s, "recvSize") => kind = "size"
            /\ At(s, "recvBytes") => kind = "bytes"
            /\ At(s, "recvSize") =>
                 Head(toSystem[s]).size = SizeOf(s, Now(s).what, Now(s).piece)
            /\ At(s, "recvBytes") /\ Now(s).how = "compare" =>
                 Head(toSystem[s]).data = {coords[s]}
    /\ \A s \in Systems : todo[s] = <<>> => toSystem[s] = <<>>

\* Both systems log off, and the runtime loop ends.
RuntimeLoopEnds == <>[](Len(accepted) = 2 /\ systems = <<>>)

Finished(s) == IF todo[s] = <<>> THEN calls[s] ELSE calls[s] - 1

Exchange == INSTANCE ThirdLevelExchange
                WITH joined <- calls, left <- [s \in Systems |-> Finished(s)]

\* The broker and the systems do what the third level promises: a method returns
\* when both systems have called it, and leaves both with the same outcome, made
\* of what both brought to this call.
ImplementsExchange == Exchange!Spec
=============================================================================
