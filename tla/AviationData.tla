---------------------------- MODULE AviationData ----------------------------
(***************************************************************************)
(* Loading the airports, cities and plane models: AviationService          *)
(* (src/aviation/aviation.service.ts), and the handlers that await them.   *)
(*                                                                         *)
(* airports.csv, fuel.csv and runways.csv are read one after the other     *)
(* into one array; planes.csv is read meanwhile.  Rows arrive one by one.  *)
(* A stream that cannot be read has no 'error' listener, and a promise     *)
(* that is rejected while nobody awaits it ends the process as well.       *)
(*                                                                         *)
(* The names are not those of FleetPlans: the proofs extend both.          *)
(***************************************************************************)
EXTENDS Naturals, FiniteSets, Sequences

CONSTANTS Ids, Cities,
          Prices,      \* fuel prices; 0 is "free" or no number
          Contents,    \* what may be in the files
          Waiters,     \* requests whose handlers await the data
          Programs,    \* the promises each kind of handler awaits, in order
          Nothing

AirportRow == [id : Ids, city : Cities, large : BOOLEAN, iata : BOOLEAN]
FuelRow    == [id : Ids, price : Prices]
RunwayRow  == [id : Ids]
Airport    == [id : Ids, city : Cities, fuel : Prices, runways : Nat]
Chained    == <<"airports", "fuel", "runways">>
Files      == {"airports", "fuel", "runways", "planes"}
Promises   == {"airports", "cities", "planes"}

ASSUME ContentsTyped ==
  \A c \in Contents : /\ c.airports \in Seq(AirportRow) /\ c.fuel \in Seq(FuelRow)
                      /\ c.runways \in Seq(RunwayRow) /\ c.planes \in Seq(Nat)
ASSUME ProgramsTyped == Programs \subseteq Seq(Promises)
ASSUME ZeroIsPrice == 0 \in Prices

VARIABLES
  content,
  at,       \* rows read so far, by file
  chain,    \* which of Chained is open; 4 when all were read
  data,     \* the array of airports
  promise,  \* "pending", "ok" or "failed"
  value,    \* what airports was fulfilled with
  watched,  \* promises with a handler of their own
  todo,     \* by request: what it still has to await; Nothing when idle
  answer,
  server

stream   == <<content, at, chain, data, value>>
dataVars == <<stream, promise, watched, todo, answer, server>>

DataTypeOK ==
  /\ content \in Contents
  /\ \A f \in Files : at[f] \in 0..Len(content[f])
  /\ chain \in 1..4
  /\ data \in Seq(Airport) /\ value \in Seq(Airport)
  /\ promise \in [Promises -> {"pending", "ok", "failed"}]
  /\ watched \in SUBSET Promises
  /\ todo \in [Waiters -> Seq(Promises) \cup {Nothing}]
  /\ answer \in [Waiters -> {"none", "ok", "error"}]
  /\ server \in {"up", "down"}

DataInit ==
  /\ content \in Contents
  /\ at = [f \in Files |-> 0] /\ chain = 1
  /\ data = <<>> /\ value = <<>>
  /\ promise = [p \in Promises |-> "pending"]
  /\ watched = {}
  /\ todo = [r \in Waiters |-> Nothing]
  /\ answer = [r \in Waiters |-> "none"]
  /\ server = "up"

-----------------------------------------------------------------------------
Reading(f) == /\ server = "up"
              /\ IF f = "planes" THEN promise["planes"] = "pending"
                 ELSE chain < 4 /\ Chained[chain] = f /\ promise["airports"] = "pending"

(* data.find: the first row of that id. *)
With(id) == {i \in 1..Len(data) : data[i].id = id /\ \A j \in 1..(i - 1) : data[j].id # id}

UnpricedAirport(row) == [id |-> row.id, city |-> row.city, fuel |-> Nothing, runways |-> 0]
NewAirport(row) == [id |-> row.id, city |-> row.city, fuel |-> 0, runways |-> 0]

Listed(row) == row.large /\ row.iata

Take(f, row) ==
  CASE f = "airports" -> IF Listed(row) THEN Append(data, NewAirport(row)) ELSE data
    [] f = "fuel"     -> [i \in 1..Len(data) |->
                            IF i \in With(row.id) THEN [data[i] EXCEPT !.fuel = row.price]
                            ELSE data[i]]
    [] f = "runways"  -> [i \in 1..Len(data) |->
                            IF i \in With(row.id) THEN [data[i] EXCEPT !.runways = @ + 1]
                            ELSE data[i]]
    [] f = "planes"   -> data

ReadRow(f) ==
  /\ Reading(f)
  /\ at[f] < Len(content[f])
  /\ at' = [at EXCEPT ![f] = @ + 1]
  /\ data' = Take(f, content[f][at[f] + 1])
  /\ UNCHANGED <<content, chain, value, promise, watched, todo, answer, server>>

AnyFuelled(airports) == SelectSeq(airports, LAMBDA a : a.fuel # 0)

(* A filter; kept[n] is what is left of the first n. *)
Usable(airports) ==
  LET kept[n \in 0..Len(airports)] ==
        IF n = 0 THEN <<>>
        ELSE IF airports[n].runways > 0 /\ airports[n].fuel # 0
        THEN Append(kept[n - 1], airports[n]) ELSE kept[n - 1]
  IN  kept[Len(airports)]

(* The end of a file opens the next one or fulfils its promise; cities is  *)
(* derived from airports in the same turn of the event loop.               *)
End(f) ==
  /\ Reading(f)
  /\ at[f] = Len(content[f])
  /\ IF f = "planes"
     THEN promise' = [promise EXCEPT !["planes"] = "ok"] /\ UNCHANGED <<chain, value>>
     ELSE /\ chain' = chain + 1
          /\ IF f = "runways"
             THEN /\ promise' = [promise EXCEPT !["airports"] = "ok", !["cities"] = "ok"]
                  /\ value' = Usable(data)
             ELSE UNCHANGED <<promise, value>>
  /\ UNCHANGED <<content, at, data, watched, todo, answer, server>>

-----------------------------------------------------------------------------
Down == /\ server' = "down"
        /\ UNCHANGED <<stream, promise, watched, todo, answer>>

(* The file is missing or a read fails. *)
ReadFails(f) == Reading(f) /\ Down

Reject(ps, seen) ==
  IF seen \in watched
  THEN /\ promise' = [p \in Promises |-> IF p \in ps THEN "failed" ELSE promise[p]]
       /\ UNCHANGED <<stream, watched, todo, answer, server>>
  ELSE Down

(* A malformed row.  Nobody handles the rejection of the promise that      *)
(* airports.csv ends; airports is handled by cities, which derives from it.*)
ParseFails(f) ==
  /\ Reading(f)
  /\ CASE f = "airports" -> Down
       [] f = "planes" -> Reject({"planes"}, "planes")
       [] OTHER -> Reject({"airports", "cities"}, "cities")

-----------------------------------------------------------------------------
Await(r, program) ==
  /\ todo' = [todo EXCEPT ![r] = program]
  /\ watched' = IF program = <<>> THEN watched ELSE watched \cup {Head(program)}

Ask(r) ==
  /\ server = "up" /\ todo[r] = Nothing /\ answer[r] = "none"
  /\ \E program \in Programs : Await(r, program)
  /\ UNCHANGED <<stream, promise, answer, server>>

ContinueIfOk(r) ==
  /\ server = "up" /\ todo[r] \notin {Nothing, <<>>}
  /\ promise[Head(todo[r])] = "ok"
  /\ Await(r, Tail(todo[r]))
  /\ UNCHANGED <<stream, promise, answer, server>>

Continue(r) ==
  /\ server = "up" /\ todo[r] \notin {Nothing, <<>>}
  /\ CASE promise[Head(todo[r])] = "ok" -> Await(r, Tail(todo[r])) /\ UNCHANGED answer
       [] promise[Head(todo[r])] = "failed" ->
            /\ todo' = [todo EXCEPT ![r] = Nothing]
            /\ answer' = [answer EXCEPT ![r] = "error"]
            /\ UNCHANGED watched
       [] OTHER -> FALSE
  /\ UNCHANGED <<stream, promise, server>>

Answer(r) ==
  /\ server = "up" /\ todo[r] = <<>>
  /\ todo' = [todo EXCEPT ![r] = Nothing]
  /\ answer' = [answer EXCEPT ![r] = "ok"]
  /\ UNCHANGED <<stream, promise, watched, server>>

Stream(f) == ReadRow(f) \/ End(f) \/ ReadFails(f) \/ ParseFails(f)
Handler(r) == Continue(r) \/ Answer(r)

DataNext == \/ \E f \in Files : Stream(f)
            \/ \E r \in Waiters : Ask(r) \/ Handler(r)

DataSpec == DataInit /\ [][DataNext]_dataVars

(* Node goes on reading and running what it has to run. *)
DataFairSpec == DataSpec /\ \A f \in Files : WF_dataVars(Stream(f))
                         /\ \A r \in Waiters : WF_dataVars(Handler(r))

-----------------------------------------------------------------------------
(* Properties. *)

Rows(f, id) == {i \in 1..Len(content[f]) : content[f][i].id = id}
Greatest(S) == CHOOSE i \in S : \A j \in S : j <= i
Least(S)    == CHOOSE i \in S : \A j \in S : i <= j

ListedRows(id) == {i \in Rows("airports", id) : Listed(content["airports"][i])}
PriceOf(id)    == IF Rows("fuel", id) = {} THEN 0
                  ELSE content["fuel"][Greatest(Rows("fuel", id))].price

(* What the three files say together: the airports that are listed, have a *)
(* runway and a fuel price, the last price counting.                       *)
Expected ==
  {[id |-> id, city |-> content["airports"][Least(ListedRows(id))].city,
    fuel |-> PriceOf(id), runways |-> Cardinality(Rows("runways", id))] :
     id \in {x \in Ids : ListedRows(x) # {} /\ PriceOf(x) # 0 /\ Rows("runways", x) # {}}}

(* airports is fulfilled with exactly that, each airport once, although    *)
(* rows name airports that are not listed, or listed twice.                *)
PublishedIsExpected ==
  promise["airports"] = "ok" =>
    /\ {value[i] : i \in 1..Len(value)} = Expected
    /\ Len(value) = Cardinality(Expected)

(* Whoever awaits the data is answered, unless the server goes down.       *)
WaitersSettle == \A r \in Waiters : todo[r] # Nothing ~> (todo[r] = Nothing \/ server = "down")
=============================================================================
