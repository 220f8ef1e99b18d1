------------------------------ MODULE McpAdapter ------------------------------
(***************************************************************************)
(* b2d-mcp: JSON-RPC messages come in over stdin or over concurrent HTTP   *)
(* requests, and a tool call becomes one or two calls of the HTTP API      *)
(* behind it, each made with a key and given up after 15 seconds.          *)
(*                                                                         *)
(* A message is a record: `form' ("ok", "garbage", "blank" or "huge", more *)
(* than 4 MiB), `id' ("some" or "none"), `method', the `tool' of a         *)
(* tools/call with the names of the arguments `given' a value that is read *)
(* as one, and the keys that come with an HTTP request: header, bearer and *)
(* path.  What the API answers is reduced to whether it is a 2xx.          *)
(***************************************************************************)
EXTENDS Naturals, Sequences, FiniteSets

CONSTANTS Stdio,       \* the reader of stdin
          Conn,        \* HTTP requests that may be served at once
          Message,     \* what clients send
          EnvKey,      \* B2D_API_KEY
          NoKey,       \* a header or a path segment that is not there
          MaxMessages, \* bound: messages in a behaviour
          MaxTries     \* bound: how often the transport sends one call

ASSUME McpAssumption ==
  /\ MaxMessages \in Nat
  /\ MaxTries \in Nat \ {0}
  /\ Stdio \notin Conn

VARIABLES
  mode,     \* "stdio" or "http": the -http flag
  sent,     \* the messages so far; one is known by its index
  stdin,    \* those not yet read from stdin
  pc,       \* where each worker is
  job,      \* the message it handles
  key,      \* the key of its calls
  parts,    \* how its calls ended so far: "ok" or "error"
  try,      \* how often the transport has sent the call at hand
  out,      \* the answers, in the order they were written
  flight,   \* calls on their way to the API
  executed  \* calls that the API has executed (and meters to their key)

wireVars == <<flight, executed>>
vars == <<mode, sent, stdin, pc, job, key, parts, try, out, wireVars>>

Worker == Conn \cup {Stdio}
Busy == {"handle", "call", "wait"}

Body == {"result", "-32700", "-32601", "-32602", "tool result", "tool error", "400"}

Init ==
  /\ mode \in {"stdio", "http"}
  /\ sent = << >>
  /\ stdin = << >>
  /\ pc = [w \in Worker |-> "idle"]
  /\ job = [w \in Worker |-> 0]
  /\ key = [w \in Worker |-> NoKey]
  /\ parts = [w \in Worker |-> << >>]
  /\ try = [w \in Worker |-> 0]
  /\ out = << >>
  /\ flight = {}
  /\ executed = {}

--------------------------------------------------------------------------------
(* What a message is. *)

Readable(m) == m.form = "ok"
Local == {"initialize", "ping", "tools/list"}
Tools == {"geocode", "reverse_geocode", "search_places", "get_parcel", "get_land_value",
          "get_transactions", "get_zoning"}

(* toolDefs: the arguments that a tool's schema calls required *)
Required(tool) ==
  CASE tool = "geocode" -> {"query"}
    [] tool = "reverse_geocode" -> {"lon", "lat"}
    [] tool \in {"get_land_value", "get_zoning"} -> {"pnu"}
    [] tool = "get_transactions" -> {"deal_ymd"}
    [] OTHER -> {}

(* The methods whose names begin with notifications/, two of them for all. *)
Notification == {"notifications/initialized", "notifications/cancelled"}

(* Neither a notification, whether or not it has an id, nor a request      *)
(* without an id is answered; what cannot be parsed is, with a null id.    *)
WantsAnswer(m) == ~Readable(m) \/ (m.method \notin Notification /\ m.id = "some")

(* toolsCall: how many calls of the API a tool makes; none when it misses *)
(* arguments, which is a tool error of its own.                           *)
Calls(m) ==
  LET has(names) == names \subseteq m.given
      complete ==
        CASE m.tool = "geocode" -> has({"query"})
          [] m.tool = "reverse_geocode" -> has({"lon", "lat"})
          [] m.tool = "search_places" ->
               m.given \cap {"query", "category", "lon", "lat", "radius", "limit"} # {}
          [] m.tool = "get_parcel" -> has({"pnu"}) \/ has({"lon", "lat"}) \/ has({"bcode", "jibun"})
          [] m.tool = "get_transactions" -> has({"deal_ymd"}) /\ (has({"lawd_cd"}) \/ has({"pnu"}))
          [] m.tool \in {"get_land_value", "get_zoning"} -> has({"pnu"})
  IN  IF ~complete THEN 0 ELSE IF m.tool = "get_land_value" THEN 2 ELSE 1

KeyFor_Sticky(w, m) ==
  IF m.header # NoKey THEN m.header
  ELSE IF m.bearer # NoKey THEN m.bearer
  ELSE IF m.path # NoKey THEN m.path
  ELSE IF key[w] # NoKey THEN key[w] ELSE EnvKey

(* X-API-Key, else the bearer token, else the path's key, else the         *)
(* adapter's own; a line of stdin has none of the first three.             *)
KeyFor(w, m) ==
  IF m.header # NoKey THEN m.header
  ELSE IF m.bearer # NoKey THEN m.bearer
  ELSE IF m.path # NoKey THEN m.path
  ELSE EnvKey

--------------------------------------------------------------------------------
(* Messages come in. *)

(* A client writes a line without waiting for answers. *)
WriteLine(m) ==
  /\ mode = "stdio"
  /\ Len(sent) < MaxMessages
  /\ {m.header, m.bearer, m.path} = {NoKey}
  /\ sent' = Append(sent, m)
  /\ stdin' = Append(stdin, Len(sent) + 1)
  /\ UNCHANGED <<mode, pc, job, key, parts, try, out, wireVars>>

Begin(w, n) ==
  /\ job' = [job EXCEPT ![w] = n]
  /\ parts' = [parts EXCEPT ![w] = << >>]
  /\ try' = [try EXCEPT ![w] = 0]

(* serveStdio reads the next line: a blank one is skipped, and one that is *)
(* too long for the scanner ends the process.                              *)
Scan ==
  /\ pc[Stdio] = "idle"
  /\ stdin # << >>
  /\ stdin' = Tail(stdin)
  /\ LET m == sent[Head(stdin)]
     IN  pc' = [pc EXCEPT ![Stdio] = CASE m.form = "blank" -> "idle"
                                       [] m.form = "huge" -> "exited"
                                       [] OTHER -> "handle"]
  /\ Begin(Stdio, Head(stdin))
  /\ key' = [key EXCEPT ![Stdio] = EnvKey]
  /\ UNCHANGED <<mode, sent, out, wireVars>>

(* A POST arrives; its body takes as long as the client likes. *)
Arrive(w, m) ==
  /\ mode = "http"
  /\ w \in Conn
  /\ pc[w] = "idle"
  /\ Len(sent) < MaxMessages
  /\ sent' = Append(sent, m)
  /\ pc' = [pc EXCEPT ![w] = "read"]
  /\ Begin(w, Len(sent) + 1)
  /\ UNCHANGED <<mode, stdin, key, out, wireVars>>

ReadBody(w) ==
  /\ pc[w] = "read"
  /\ pc' = [pc EXCEPT ![w] = "handle"]
  /\ key' = [key EXCEPT ![w] = KeyFor(w, sent[job[w]])]
  /\ UNCHANGED <<mode, sent, stdin, job, parts, try, out, wireVars>>

Answer(w, body) ==
  /\ pc' = [pc EXCEPT ![w] = "idle"]
  /\ out' = Append(out, [to |-> job[w], body |-> body])

ReadFails(w) ==
  /\ pc[w] = "read"
  /\ Answer(w, "400")
  /\ UNCHANGED <<mode, sent, stdin, job, key, parts, try, wireVars>>

--------------------------------------------------------------------------------
(* handleMessage and toolsCall *)

Respond_Always(w, body) == Answer(w, body)

(* nil, and nothing is written, unless the message wants an answer. *)
Respond(w, body) ==
  IF WantsAnswer(sent[job[w]])
    THEN Answer(w, body)
    ELSE pc' = [pc EXCEPT ![w] = "idle"] /\ UNCHANGED out

IsToolCall(m) == Readable(m) /\ m.method = "tools/call" /\ m.tool \in Tools

(* A call that is complete goes on to the API, whether or not its answer   *)
(* is wanted.                                                              *)
HandleMessage(w) ==
  /\ pc[w] = "handle"
  /\ LET m == sent[job[w]]
     IN  IF IsToolCall(m) /\ Calls(m) > 0
           THEN pc' = [pc EXCEPT ![w] = "call"] /\ UNCHANGED out
           ELSE Respond(w, IF ~Readable(m) THEN "-32700"
                           ELSE IF m.method \in Local THEN "result"
                           ELSE IF m.method # "tools/call" THEN "-32601"
                           ELSE IF m.tool \notin Tools THEN "-32602"
                           ELSE "tool error")
  /\ UNCHANGED <<mode, sent, stdin, job, key, parts, try, wireVars>>

CallOf(w, n) == [of |-> job[w], part |-> Len(parts[w]) + 1, try |-> n, key |-> key[w]]

(* get: the request goes out *)
Get(w) ==
  /\ pc[w] = "call"
  /\ pc' = [pc EXCEPT ![w] = "wait"]
  /\ try' = [try EXCEPT ![w] = 1]
  /\ flight' = flight \cup {CallOf(w, 1)}
  /\ UNCHANGED <<mode, sent, stdin, job, key, parts, out, executed>>

(* http.Transport sends a GET again when the connection it reused is       *)
(* closed before a byte of the answer; the first call finds none to reuse. *)
Resend(w) ==
  /\ pc[w] = "wait"
  /\ try[w] < MaxTries
  /\ \E c \in executed : c.of # job[w] \/ c.part <= Len(parts[w])
  /\ try' = [try EXCEPT ![w] = @ + 1]
  /\ flight' = flight \cup {CallOf(w, try[w] + 1)}
  /\ UNCHANGED <<mode, sent, stdin, pc, job, key, parts, out, executed>>

More_OneTooMany(w) == Len(parts[w]) + 1 <= Calls(sent[job[w]])

(* Is a call left when the one at hand has ended?  Both of get_land_value  *)
(* are made, however the first ends.                                       *)
More(w) == Len(parts[w]) + 1 < Calls(sent[job[w]])

(* A result, or a tool error when every part is one. *)
Verdict(ends) == IF \E n \in 1..Len(ends) : ends[n] = "ok" THEN "tool result" ELSE "tool error"

Ends(w, how) ==
  /\ pc[w] = "wait"
  /\ parts' = [parts EXCEPT ![w] = Append(@, how)]
  /\ IF More(w)
       THEN pc' = [pc EXCEPT ![w] = "call"] /\ UNCHANGED out
       ELSE Respond(w, Verdict(Append(parts[w], how)))
  /\ UNCHANGED <<mode, sent, stdin, job, key, try, wireVars>>

(* A 2xx and its body *)
Succeeds(w) == CallOf(w, try[w]) \in executed /\ Ends(w, "ok")

(* Any other status, a broken connection or body *)
Refused(w) == CallOf(w, try[w]) \notin flight /\ Ends(w, "error")

TimesOut_Never(w) == FALSE /\ Ends(w, "error")

(* The client's 15 seconds are over; the API may still execute the call. *)
TimesOut(w) == Ends(w, "error")

(* serveStdio returns at the end of stdin and when it cannot write; the    *)
(* program that started it may also kill it.                               *)
Exit ==
  /\ mode = "stdio"
  /\ pc[Stdio] # "exited"
  /\ pc' = [pc EXCEPT ![Stdio] = "exited"]
  /\ UNCHANGED <<mode, sent, stdin, job, key, parts, try, out, wireVars>>

(* The API, on its own time: a call arrives and is executed, or it is      *)
(* refused (no such key, rate limit, monthly cap) or lost.                 *)
Api(c) ==
  /\ flight' = flight \ {c}
  /\ executed' \in {executed, executed \cup {c}}
  /\ UNCHANGED <<mode, sent, stdin, pc, job, key, parts, try, out>>

--------------------------------------------------------------------------------
(* What a worker does by itself, once a message is there. *)
Work(w) ==
  \/ HandleMessage(w)
  \/ Get(w)
  \/ Succeeds(w)
  \/ Refused(w)
  \/ TimesOut(w)

Next ==
  \/ \E m \in Message : WriteLine(m) \/ \E w \in Conn : Arrive(w, m)
  \/ Scan
  \/ Exit
  \/ \E w \in Worker : ReadBody(w) \/ ReadFails(w) \/ Work(w) \/ Resend(w)
  \/ \E c \in flight : Api(c)

(* The workers run and timers fire.  Nothing makes a client finish a body, *)
(* for the server sets no timeouts (main.go:154), nor the API answer.      *)
Fairness == WF_vars(Scan) /\ \A w \in Worker : WF_vars(Work(w))

Spec == Init /\ [][Next]_vars /\ Fairness

--------------------------------------------------------------------------------
(* What must hold. *)

Sent == 1..Len(sent)
Called == flight \cup executed
Taken(n) ==
  \/ pc[Stdio] # "exited" /\ n \in {stdin[i] : i \in 1..Len(stdin)}
  \/ \E w \in Worker : job[w] = n /\ pc[w] \in Busy

Lines == {stdin[i] : i \in 1..Len(stdin)}
Active(w) == pc[w] \in Busy \cup {"read"}
Brought(m) == {m.header, m.bearer, m.path} \ {NoKey}
OwnKey(m, k) == IF Brought(m) = {} THEN k = EnvKey ELSE k \in Brought(m)

TypeOK ==
  /\ mode \in {"stdio", "http"}
  /\ sent \in Seq(Message)
  /\ stdin \in Seq(Sent)
  /\ pc \in [Worker -> Busy \cup {"idle", "read", "exited"}]
  /\ job \in [Worker -> Nat]
  /\ DOMAIN key = Worker
  /\ parts \in [Worker -> Seq({"ok", "error"})]
  /\ try \in [Worker -> 0..MaxTries]
  /\ out \in Seq([to : Sent, body : Body])
  /\ \A w \in Worker : Active(w) => job[w] \in Sent
  /\ \A c \in Called : c.of \in Sent

(* Each message is in one place, and a line of stdin brings no key. *)
Places ==
  /\ \A v, w \in Worker : v # w /\ Active(v) /\ Active(w) => job[v] # job[w]
  /\ \A i, j \in 1..Len(stdin) : i < j => stdin[i] < stdin[j]
  /\ \A w \in Worker : Active(w) => job[w] \notin Lines
  /\ \A n \in Lines : Brought(sent[n]) = {}

(* Each worker has its message's key and has made as many of the calls as  *)
(* it has parts, and one more while it waits.                              *)
Working ==
  \A w \in Worker :
    /\ pc[w] \in Busy => OwnKey(sent[job[w]], key[w])
    /\ pc[w] \in {"read", "handle"} => parts[w] = << >>
    /\ pc[w] \in {"call", "wait"} =>
         IsToolCall(sent[job[w]]) /\ Len(parts[w]) < Calls(sent[job[w]])
    /\ pc[w] = "wait" => try[w] > 0

Made ==
  \A c \in Called :
    /\ c = [of |-> c.of, part |-> c.part, try |-> c.try, key |-> c.key]
    /\ c.of \notin Lines
    /\ IsToolCall(sent[c.of])
    /\ c.part \in 1..Calls(sent[c.of])
    /\ c.try \in 1..MaxTries
    /\ OwnKey(sent[c.of], c.key)
    /\ \A d \in Called : c.of = d.of => c.key = d.key
    /\ \A w \in Worker : Active(w) /\ job[w] = c.of =>
         /\ pc[w] # "read"
         /\ c.key = key[w]

IInv == TypeOK /\ Places /\ Working /\ Made

(* Every call is made with the key of the message it serves, and with the  *)
(* adapter's own only when the message brings none: "an endpoint that used *)
(* the env key instead would bypass authentication" (main.go:120).         *)
OwnKeyOnly == \A c \in Called : OwnKey(sent[c.of], c.key)

(* The schemas of toolDefs are kept although nothing validates against     *)
(* them: no call is made for arguments that miss a required one, nor for   *)
(* anything but a call of a tool.                                          *)
SchemaEnforced ==
  \A c \in Called : IsToolCall(sent[c.of]) /\ Required(sent[c.of].tool) \subseteq sent[c.of].given

(* What a message can cost its caller: one call, two for get_land_value,   *)
(* each as often as the transport sends it; late ones are counted too.     *)
CostBounded ==
  \A n \in Sent :
    Cardinality({c \in Called : c.of = n}) <=
      MaxTries * (IF sent[n].tool = "get_land_value" THEN 2 ELSE 1)

(* Nothing is answered twice or unasked, stdout keeps the order of stdin,  *)
(* and what is neither answered nor about to be wanted no answer, unless   *)
(* the process ended.                                                      *)
OneAnswerEach ==
  /\ \A i, j \in 1..Len(out) :
       i < j => IF mode = "stdio" THEN out[i].to < out[j].to ELSE out[i].to # out[j].to
  /\ \A i \in 1..Len(out) : WantsAnswer(sent[out[i].to]) \/ out[i].body = "400"
  /\ \A n \in Sent :
       \/ n \in {out[i].to : i \in 1..Len(out)}
       \/ ~WantsAnswer(sent[n])
       \/ Taken(n)
       \/ \E w \in Conn : job[w] = n /\ pc[w] = "read"
       \/ pc[Stdio] = "exited"
       \/ mode = "stdio" /\ sent[n].form = "blank"

(* Every message that was taken is done with, however the API behaves. *)
EveryMessageEnds == \A n \in 1..MaxMessages : Taken(n) ~> ~Taken(n)
================================================================================
