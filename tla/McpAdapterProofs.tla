--------------------------- MODULE McpAdapterProofs ---------------------------
(* Theorems about McpAdapter, for any messages, keys and number of requests. *)
EXTENDS McpAdapter, FiniteSetTheorems, TLAPS

LEMMA CallsRange == \A m : Calls(m) \in 0..2
BY DEF Calls

LEMMA CallsAtMost ==
  ASSUME NEW m
  PROVE  Calls(m) <= IF m.tool = "get_land_value" THEN 2 ELSE 1
<1>1. CASE m.tool = "get_land_value"
  BY <1>1, CallsRange
<1>2. CASE m.tool # "get_land_value"
  <2>1. Calls(m) \in {0, 1}
    BY <1>2 DEF Calls
  <2> QED
    BY <1>2, <2>1
<1> QED
  BY <1>1, <1>2

(* A tool that calls has what its schema requires. *)
LEMMA CallsNeedRequired ==
  ASSUME NEW m, m.tool \in Tools, Calls(m) > 0
  PROVE  Required(m.tool) \subseteq m.given
<1>1. CASE m.tool = "geocode"
  BY <1>1 DEF Calls, Required
<1>2. CASE m.tool = "reverse_geocode"
  BY <1>2 DEF Calls, Required
<1>3. CASE m.tool \in {"search_places", "get_parcel"}
  BY <1>3 DEF Required
<1>4. CASE m.tool = "get_land_value" \/ m.tool = "get_zoning"
  <2>1. CASE m.tool = "get_land_value"
    BY <2>1 DEF Calls, Required
  <2>2. CASE m.tool = "get_zoning"
    BY <2>2 DEF Calls, Required
  <2> QED
    BY <1>4, <2>1, <2>2
<1>5. CASE m.tool = "get_transactions"
  BY <1>5 DEF Calls, Required
<1> QED
  BY <1>1, <1>2, <1>3, <1>4, <1>5 DEF Tools

LEMMA AppendKeeps ==
  ASSUME NEW S, NEW s \in Seq(S), NEW e \in S
  PROVE  /\ Append(s, e) \in Seq(S)
         /\ Len(Append(s, e)) = Len(s) + 1
         /\ \A i \in 1..Len(s) : Append(s, e)[i] = s[i]
         /\ Append(s, e)[Len(s) + 1] = e
OBVIOUS

LEMMA TailShifts ==
  ASSUME NEW S, NEW s \in Seq(S), s # << >>
  PROVE  /\ Tail(s) \in Seq(S)
         /\ Head(s) \in S
         /\ Head(s) = s[1]
         /\ Len(s) \in Nat \ {0}
         /\ Len(Tail(s)) = Len(s) - 1
         /\ \A i \in 1..Len(Tail(s)) : Tail(s)[i] = s[i + 1]
OBVIOUS

LEMMA SeqWider ==
  ASSUME NEW S, NEW T, S \subseteq T, NEW s \in Seq(S)
  PROVE  s \in Seq(T)
OBVIOUS

LEMMA ElementsOf ==
  ASSUME NEW S, NEW s \in Seq(S)
  PROVE  \A i \in 1..Len(s) : s[i] \in S
OBVIOUS

LEMMA InitHolds == Init => IInv
<1> SUFFICES ASSUME Init PROVE IInv
  OBVIOUS
<1> USE DEF Init
<1>1. Called = {} /\ Lines = {} /\ \A w \in Worker : pc[w] = "idle" /\ ~Active(w)
  BY DEF Called, Lines, Active, Busy
<1>2. TypeOK
  BY <1>1, McpAssumption DEF TypeOK, Busy, Sent
<1>3. Places /\ Working /\ Made
  BY <1>1 DEF Places, Working, Made, Active, Busy
<1> QED
  BY <1>2, <1>3 DEF IInv

(* A step that sends nothing and calls nothing, and after which a worker   *)
(* is no more active than before, only further.                            *)
Quiet ==
  /\ UNCHANGED <<mode, sent, stdin, job, key, wireVars>>
  /\ \A w \in Worker : Active(w)' => Active(w) /\ (pc[w] # "read" => pc'[w] # "read")

LEMMA QuietStep ==
  ASSUME IInv, Quiet, TypeOK', Working'
  PROVE  IInv'
<1>1. Places'
  BY DEF IInv, Places, Quiet, Lines, Active
<1>2. Called' = Called
  BY DEF Quiet, Called, wireVars
<1>3. Made'
  <2> SUFFICES ASSUME NEW c \in Called
               PROVE  /\ c = [of |-> c.of, part |-> c.part, try |-> c.try, key |-> c.key]
                      /\ c.of \notin Lines'
                      /\ IsToolCall(sent'[c.of])
                      /\ c.part \in 1..Calls(sent'[c.of])
                      /\ c.try \in 1..MaxTries
                      /\ OwnKey(sent'[c.of], c.key)
                      /\ \A d \in Called : c.of = d.of => c.key = d.key
                      /\ \A w \in Worker : Active(w)' /\ job'[w] = c.of =>
                           pc'[w] # "read" /\ c.key = key'[w]
    BY <1>2 DEF Made
  <2> QED
    BY DEF IInv, Made, Quiet, Lines
<1> QED
  BY <1>1, <1>3 DEF IInv

LEMMA ReadFailsHolds == ASSUME IInv, NEW w \in Worker, ReadFails(w) PROVE IInv'
<1> USE DEF ReadFails, Answer
<1>1. w \in Worker /\ Active(w) /\ job[w] \in Sent
  BY DEF IInv, TypeOK, Active
<1>a. [to |-> job[w], body |-> "400"] \in [to : Sent, body : Body]
  BY <1>1 DEF Body
<1>b. out' \in Seq([to : Sent, body : Body])
  BY <1>a, AppendKeeps DEF IInv, TypeOK
<1>c. pc' \in [Worker -> Busy \cup {"idle", "read", "exited"}]
  BY DEF IInv, TypeOK
<1>d. \A v \in Worker : Active(v)' => Active(v)
  BY DEF IInv, TypeOK, Active, Busy
<1>2. TypeOK'
  BY <1>1, <1>b, <1>c, <1>d DEF IInv, TypeOK, Sent, Active, Called, wireVars, Busy
<1>3. Working'
  BY DEF IInv, TypeOK, Working, Busy
<1>4. Quiet
  BY DEF IInv, TypeOK, Quiet, Active, Busy
<1> QED
  BY <1>2, <1>3, <1>4, QuietStep

LEMMA ExitHolds == ASSUME IInv, Exit PROVE IInv'
<1> USE DEF Exit
<1>0. Stdio \in Worker
  BY DEF Worker
<1>2. TypeOK'
  BY <1>0 DEF IInv, TypeOK, Sent, Active, Called, wireVars, Busy
<1>3. Working'
  BY <1>0 DEF IInv, TypeOK, Working, Busy
<1>4. Quiet
  BY <1>0 DEF IInv, TypeOK, Quiet, Active, Busy
<1> QED
  BY <1>2, <1>3, <1>4, QuietStep

(* What Respond does to the types, whatever the answer. *)
LEMMA RespondTypes ==
  ASSUME IInv, NEW w \in Worker, pc[w] \in Busy, NEW body \in Body, Respond(w, body)
  PROVE  /\ pc' = [pc EXCEPT ![w] = "idle"]
         /\ out' \in Seq([to : Sent, body : Body])
<1>1. job[w] \in Sent /\ out \in Seq([to : Sent, body : Body])
  BY DEF IInv, TypeOK, Active
<1>2. [to |-> job[w], body |-> body] \in [to : Sent, body : Body]
  BY <1>1
<1>3. Append(out, [to |-> job[w], body |-> body]) \in Seq([to : Sent, body : Body])
  BY <1>1, <1>2, AppendKeeps
<1> QED
  BY <1>1, <1>3 DEF Respond, Answer

LEMMA HandleMessageHolds == ASSUME IInv, NEW w \in Worker, HandleMessage(w) PROVE IInv'
<1> DEFINE m == sent[job[w]]
<1>0. pc[w] = "handle" /\ UNCHANGED <<mode, sent, stdin, job, key, parts, try, wireVars>>
  BY DEF HandleMessage
<1>1. /\ out' \in Seq([to : Sent, body : Body])
      /\ \/ pc' = [pc EXCEPT ![w] = "idle"]
         \/ pc' = [pc EXCEPT ![w] = "call"] /\ IsToolCall(m) /\ Calls(m) > 0
  <2>1. CASE IsToolCall(m) /\ Calls(m) > 0
    BY <2>1 DEF HandleMessage, IInv, TypeOK
  <2>2. CASE ~(IsToolCall(m) /\ Calls(m) > 0)
    <3>1. PICK body \in Body : Respond(w, body)
      BY <2>2 DEF HandleMessage, Body
    <3>2. pc[w] \in Busy
      BY <1>0 DEF Busy
    <3> QED
      BY <3>1, <3>2, RespondTypes
  <2> QED
    BY <2>1, <2>2
<1>2. TypeOK'
  BY <1>0, <1>1 DEF IInv, TypeOK, Sent, Active, Called, wireVars, Busy
<1>3. Working'
  BY <1>0, <1>1, CallsRange DEF IInv, TypeOK, Working, Busy
<1>4. Quiet
  BY <1>0, <1>1 DEF IInv, TypeOK, Quiet, Active, Busy
<1> QED
  BY <1>2, <1>3, <1>4, QuietStep

LEMMA EndsHolds ==
  ASSUME IInv, NEW w \in Worker, NEW how \in {"ok", "error"}, Ends(w, how) PROVE IInv'
<1>0. /\ pc[w] = "wait" /\ UNCHANGED <<mode, sent, stdin, job, key, try, wireVars>>
      /\ parts' = [parts EXCEPT ![w] = Append(@, how)]
  BY DEF Ends
<1>a. parts[w] \in Seq({"ok", "error"}) /\ Append(parts[w], how) \in Seq({"ok", "error"})
      /\ Len(Append(parts[w], how)) = Len(parts[w]) + 1
  BY DEF IInv, TypeOK
<1>1. /\ out' \in Seq([to : Sent, body : Body])
      /\ \/ pc' = [pc EXCEPT ![w] = "idle"]
         \/ pc' = [pc EXCEPT ![w] = "call"] /\ More(w)
  <2>1. CASE More(w)
    BY <2>1 DEF Ends, IInv, TypeOK
  <2>2. CASE ~More(w)
    <3>1. Respond(w, Verdict(Append(parts[w], how)))
      BY <2>2 DEF Ends
    <3>2. Verdict(Append(parts[w], how)) \in Body
      BY DEF Verdict, Body
    <3>3. pc[w] \in Busy
      BY <1>0 DEF Busy
    <3> QED
      BY <3>1, <3>2, <3>3, RespondTypes
  <2> QED
    BY <2>1, <2>2
<1>2. TypeOK'
  BY <1>0, <1>1, <1>a DEF IInv, TypeOK, Sent, Active, Called, wireVars, Busy
<1>3. Working'
  <2> SUFFICES ASSUME NEW v \in Worker
               PROVE  /\ pc'[v] \in Busy => OwnKey(sent'[job'[v]], key'[v])
                      /\ pc'[v] \in {"read", "handle"} => parts'[v] = << >>
                      /\ pc'[v] \in {"call", "wait"} =>
                           IsToolCall(sent'[job'[v]]) /\ Len(parts'[v]) < Calls(sent'[job'[v]])
                      /\ pc'[v] = "wait" => try'[v] > 0
    BY DEF Working
  <2>1. CASE v = w
    BY <2>1, <1>0, <1>1, <1>a DEF IInv, TypeOK, Working, Busy, More
  <2>2. CASE v # w
    BY <2>2, <1>0, <1>1 DEF IInv, TypeOK, Working, Busy
  <2> QED
    BY <2>1, <2>2
<1>4. Quiet
  BY <1>0, <1>1 DEF IInv, TypeOK, Quiet, Active, Busy
<1> QED
  BY <1>2, <1>3, <1>4, QuietStep

(* One more message leaves the others as they are. *)
LEMMA SentGrows ==
  ASSUME IInv, NEW m \in Message, sent' = Append(sent, m)
  PROVE  /\ sent' \in Seq(Message)
         /\ Len(sent') = Len(sent) + 1
         /\ Len(sent) \in Nat
         /\ \A n \in Sent : n \in Sent' /\ sent'[n] = sent[n]
         /\ sent'[Len(sent) + 1] = m
<1>1. sent \in Seq(Message)
  BY DEF IInv, TypeOK
<1>2. /\ Append(sent, m) \in Seq(Message)
      /\ Len(Append(sent, m)) = Len(sent) + 1
      /\ \A i \in 1..Len(sent) : Append(sent, m)[i] = sent[i]
      /\ Append(sent, m)[Len(sent) + 1] = m
  BY <1>1, AppendKeeps
<1> QED
  BY <1>1, <1>2 DEF Sent

(* Called does not change: what was made is as it was. *)
LEMMA MadeStays ==
  ASSUME IInv, UNCHANGED wireVars,
         \A n \in Sent : sent'[n] = sent[n],
         \A c \in Called : c.of \notin Lines',
         \A w \in Worker, c \in Called : Active(w)' /\ job'[w] = c.of =>
           Active(w) /\ job[w] = c.of /\ key'[w] = key[w] /\ pc'[w] # "read"
  PROVE  Made'
<1>1. Called' = Called
  BY DEF Called, wireVars
<1> SUFFICES ASSUME NEW c \in Called
             PROVE  /\ c = [of |-> c.of, part |-> c.part, try |-> c.try, key |-> c.key]
                    /\ c.of \notin Lines'
                    /\ IsToolCall(sent'[c.of])
                    /\ c.part \in 1..Calls(sent'[c.of])
                    /\ c.try \in 1..MaxTries
                    /\ OwnKey(sent'[c.of], c.key)
                    /\ \A d \in Called : c.of = d.of => c.key = d.key
                    /\ \A w \in Worker : Active(w)' /\ job'[w] = c.of =>
                         pc'[w] # "read" /\ c.key = key'[w]
  BY <1>1 DEF Made
<1>2. c.of \in Sent /\ sent'[c.of] = sent[c.of]
  BY DEF IInv, TypeOK
<1> QED
  BY <1>2 DEF IInv, Made

LEMMA WriteLineHolds == ASSUME IInv, NEW m \in Message, WriteLine(m) PROVE IInv'
<1> DEFINE n == Len(sent) + 1
<1>0. /\ sent' = Append(sent, m) /\ stdin' = Append(stdin, n)
      /\ UNCHANGED <<mode, pc, job, key, parts, try, out, wireVars>>
      /\ {m.header, m.bearer, m.path} = {NoKey}
  BY DEF WriteLine
<1>1. /\ sent' \in Seq(Message) /\ Len(sent') = n /\ n \in Nat
      /\ \A k \in Sent : k \in Sent' /\ k < n /\ sent'[k] = sent[k]
      /\ n \in Sent' /\ sent'[n] = m /\ Sent \subseteq Sent'
  BY <1>0, SentGrows DEF Sent
<1>2. stdin \in Seq(Sent') /\ stdin \in Seq(Sent)
  BY <1>1 DEF IInv, TypeOK
<1>3. /\ stdin' \in Seq(Sent')
      /\ Len(stdin') = Len(stdin) + 1
      /\ Len(stdin) \in Nat
      /\ \A i \in 1..Len(stdin) : stdin'[i] = stdin[i] /\ stdin[i] \in Sent
      /\ stdin'[Len(stdin) + 1] = n
  BY <1>0, <1>1, <1>2, AppendKeeps
<1>4. Lines' = Lines \cup {n}
  BY <1>3 DEF Lines
<1>5. out' \in Seq([to : Sent', body : Body])
  <2>1. [to : Sent, body : Body] \subseteq [to : Sent', body : Body]
    BY <1>1
  <2>2. out \in Seq([to : Sent, body : Body])
    BY DEF IInv, TypeOK
  <2> QED
    BY <1>0, <2>1, <2>2, SeqWider
<1>6. TypeOK'
  BY <1>0, <1>1, <1>3, <1>5 DEF IInv, TypeOK, Active, Called, wireVars
<1>7. Places'
  <2>1. \A w \in Worker : Active(w)' = Active(w) /\ job'[w] = job[w]
    BY <1>0 DEF Active
  <2>2. \A i, j \in 1..Len(stdin') : i < j => stdin'[i] < stdin'[j]
    BY <1>1, <1>3 DEF IInv, Places
  <2>3. \A w \in Worker : Active(w) => job[w] \notin Lines'
    <3> SUFFICES ASSUME NEW w \in Worker, Active(w) PROVE job[w] \notin Lines'
      OBVIOUS
    <3>1. job[w] \in Sent /\ job[w] \notin Lines
      BY DEF IInv, Places, TypeOK
    <3>2. job[w] # n
      BY <3>1, <1>1 DEF Sent
    <3> QED
      BY <3>1, <3>2, <1>4
  <2>4. \A k \in Lines' : Brought(sent'[k]) = {}
    <3>1. Brought(sent'[n]) = {}
      BY <1>0, <1>1 DEF Brought
    <3>2. \A k \in Lines : k \in Sent
      BY <1>3 DEF Lines
    <3> QED
      BY <1>1, <1>4, <3>1, <3>2 DEF IInv, Places
  <2> QED
    BY <2>1, <2>2, <2>3, <2>4 DEF IInv, Places
<1>8. Working'
  BY <1>0, <1>1 DEF IInv, TypeOK, Working, Active, Busy
<1>9. Made'
  <2>1. \A c \in Called : c.of \notin Lines'
    BY <1>1, <1>4 DEF IInv, TypeOK, Made
  <2>2. \A w \in Worker, c \in Called : Active(w)' /\ job'[w] = c.of =>
           Active(w) /\ job[w] = c.of /\ key'[w] = key[w] /\ pc'[w] # "read"
    BY <1>0 DEF IInv, Made, Active
  <2> QED
    BY <1>0, <1>1, <2>1, <2>2, MadeStays
<1> QED
  BY <1>6, <1>7, <1>8, <1>9 DEF IInv

LEMMA ScanHolds == ASSUME IInv, Scan PROVE IInv'
<1> DEFINE n == Head(stdin)
<1>0. /\ pc[Stdio] = "idle" /\ stdin # << >> /\ stdin' = Tail(stdin)
      /\ pc' = [pc EXCEPT ![Stdio] = pc'[Stdio]] /\ pc'[Stdio] \in {"idle", "exited", "handle"}
      /\ job' = [job EXCEPT ![Stdio] = n]
      /\ parts' = [parts EXCEPT ![Stdio] = << >>]
      /\ try' = [try EXCEPT ![Stdio] = 0]
      /\ key' = [key EXCEPT ![Stdio] = EnvKey]
      /\ UNCHANGED <<mode, sent, out, wireVars>>
  BY DEF Scan, Begin, IInv, TypeOK, Worker
<1>1. Stdio \in Worker
  BY DEF Worker
<1>2. /\ Tail(stdin) \in Seq(Sent) /\ n \in Sent /\ n = stdin[1]
      /\ Len(stdin) \in Nat \ {0} /\ Len(stdin') = Len(stdin) - 1
      /\ \A i \in 1..Len(stdin') : stdin'[i] = stdin[i + 1]
  BY <1>0, TailShifts DEF IInv, TypeOK
<1>3. n \in Lines /\ Lines' \subseteq Lines
  BY <1>2 DEF Lines
<1>4. n \notin Lines'
  <2>1. \A i \in 1..Len(stdin') : stdin'[i] # n
    <3> SUFFICES ASSUME NEW i \in 1..Len(stdin') PROVE stdin[i + 1] # stdin[1]
      BY <1>2
    <3>1. stdin[1] < stdin[i + 1] /\ stdin[1] \in Sent /\ stdin[i + 1] \in Sent
      BY <1>2 DEF IInv, Places, TypeOK
    <3> QED
      BY <3>1 DEF Sent
  <2> QED
    BY <2>1 DEF Lines
<1>5. \A w \in Worker : Active(w)' => (w = Stdio /\ pc'[w] = "handle") \/ (w # Stdio /\ Active(w) /\ pc'[w] = pc[w])
  BY <1>0, <1>1 DEF IInv, TypeOK, Active, Busy
<1>6. TypeOK'
  <2>1. pc' \in [Worker -> Busy \cup {"idle", "read", "exited"}]
    BY <1>0, <1>1 DEF IInv, TypeOK, Busy
  <2>2. job' \in [Worker -> Nat] /\ DOMAIN key' = Worker
    BY <1>0, <1>1, <1>2 DEF IInv, TypeOK, Sent
  <2>3. parts' \in [Worker -> Seq({"ok", "error"})] /\ try' \in [Worker -> 0..MaxTries]
    BY <1>0, <1>1, McpAssumption DEF IInv, TypeOK
  <2>4. Sent' = Sent /\ Called' = Called
    BY <1>0 DEF Sent, Called, wireVars
  <2>5. \A w \in Worker : Active(w)' => job'[w] \in Sent
    BY <1>0, <1>1, <1>2, <1>5 DEF IInv, TypeOK
  <2>6. stdin' \in Seq(Sent)
    BY <1>0, <1>2
  <2> QED
    BY <1>0, <2>1, <2>2, <2>3, <2>4, <2>5, <2>6 DEF IInv, TypeOK
<1>7. Places'
  <2>1. \A w \in Worker : w # Stdio => job'[w] = job[w]
    BY <1>0, <1>1 DEF IInv, TypeOK
  <2>2. job'[Stdio] = n
    BY <1>0, <1>1 DEF IInv, TypeOK
  <2>3. \A v, w \in Worker : v # w /\ Active(v)' /\ Active(w)' => job'[v] # job'[w]
    BY <1>3, <1>5, <2>1, <2>2 DEF IInv, Places
  <2>4. \A i, j \in 1..Len(stdin') : i < j => stdin'[i] < stdin'[j]
    BY <1>2 DEF IInv, Places
  <2>5. \A w \in Worker : Active(w)' => job'[w] \notin Lines'
    BY <1>3, <1>4, <1>5, <2>1, <2>2 DEF IInv, Places
  <2>6. \A k \in Lines' : Brought(sent'[k]) = {}
    BY <1>0, <1>3 DEF IInv, Places
  <2> QED
    BY <2>3, <2>4, <2>5, <2>6 DEF Places
<1>8. Working'
  <2> SUFFICES ASSUME NEW w \in Worker
               PROVE  /\ pc'[w] \in Busy => OwnKey(sent'[job'[w]], key'[w])
                      /\ pc'[w] \in {"read", "handle"} => parts'[w] = << >>
                      /\ pc'[w] \in {"call", "wait"} =>
                           IsToolCall(sent'[job'[w]]) /\ Len(parts'[w]) < Calls(sent'[job'[w]])
                      /\ pc'[w] = "wait" => try'[w] > 0
    BY DEF Working
  <2>1. CASE w = Stdio
    <3>1. /\ pc'[w] \in {"idle", "exited", "handle"} /\ parts'[w] = << >>
          /\ key'[w] = EnvKey /\ job'[w] = n
      BY <2>1, <1>0, <1>1 DEF IInv, TypeOK
    <3>2. OwnKey(sent[n], EnvKey)
      BY <1>3 DEF IInv, Places, OwnKey
    <3> QED
      BY <3>1, <3>2, <1>0 DEF Busy
  <2>2. CASE w # Stdio
    BY <2>2, <1>0, <1>1 DEF IInv, TypeOK, Working
  <2> QED
    BY <2>1, <2>2
<1>9. Made'
  <2>1. \A c \in Called : c.of \notin Lines'
    BY <1>3 DEF IInv, Made
  <2>2. \A w \in Worker, c \in Called : Active(w)' /\ job'[w] = c.of =>
           Active(w) /\ job[w] = c.of /\ key'[w] = key[w] /\ pc'[w] # "read"
    <3> SUFFICES ASSUME NEW w \in Worker, NEW c \in Called, Active(w)', job'[w] = c.of
                 PROVE  Active(w) /\ job[w] = c.of /\ key'[w] = key[w] /\ pc'[w] # "read"
      OBVIOUS
    <3>1. CASE w = Stdio
      BY <3>1, <1>0, <1>1, <1>3 DEF IInv, TypeOK, Made
    <3>2. CASE w # Stdio
      <4>1. Active(w) /\ pc'[w] = pc[w] /\ job'[w] = job[w] /\ key'[w] = key[w]
        BY <3>2, <1>0, <1>1, <1>5 DEF IInv, TypeOK
      <4> QED
        BY <4>1 DEF IInv, Made
    <3> QED
      BY <3>1, <3>2
  <2> QED
    BY <1>0, <2>1, <2>2, MadeStays
<1> QED
  BY <1>6, <1>7, <1>8, <1>9 DEF IInv

LEMMA ArriveHolds == ASSUME IInv, NEW w \in Conn, NEW m \in Message, Arrive(w, m) PROVE IInv'
<1> DEFINE n == Len(sent) + 1
<1>0. /\ pc[w] = "idle" /\ sent' = Append(sent, m)
      /\ pc' = [pc EXCEPT ![w] = "read"]
      /\ job' = [job EXCEPT ![w] = n]
      /\ parts' = [parts EXCEPT ![w] = << >>]
      /\ try' = [try EXCEPT ![w] = 0]
      /\ UNCHANGED <<mode, stdin, key, out, wireVars>>
      /\ w \in Worker
  BY DEF Arrive, Begin, Worker
<1>1. /\ sent' \in Seq(Message) /\ Len(sent') = n /\ n \in Nat
      /\ \A k \in Sent : k \in Sent' /\ k < n /\ sent'[k] = sent[k]
      /\ n \in Sent' /\ n \notin Sent /\ Sent \subseteq Sent'
  BY <1>0, SentGrows DEF Sent
<1>2. Lines' = Lines /\ Lines \subseteq Sent /\ Called' = Called
  BY <1>0 DEF Lines, IInv, TypeOK, Called, wireVars
<1>3. /\ job'[w] = n /\ pc'[w] = "read"
      /\ \A v \in Worker \ {w} : job'[v] = job[v] /\ pc'[v] = pc[v] /\ parts'[v] = parts[v] /\ try'[v] = try[v]
  BY <1>0 DEF IInv, TypeOK
<1>4. \A v \in Worker : v # w /\ Active(v)' => Active(v) /\ job[v] \in Sent
  BY <1>3 DEF IInv, TypeOK, Active
<1>5. TypeOK'
  <2>1. pc' \in [Worker -> Busy \cup {"idle", "read", "exited"}]
    BY <1>0 DEF IInv, TypeOK
  <2>2. job' \in [Worker -> Nat] /\ DOMAIN key' = Worker
    BY <1>0, <1>1 DEF IInv, TypeOK
  <2>3. parts' \in [Worker -> Seq({"ok", "error"})] /\ try' \in [Worker -> 0..MaxTries]
    BY <1>0, McpAssumption DEF IInv, TypeOK
  <2>4. \A v \in Worker : Active(v)' => job'[v] \in Sent'
    BY <1>1, <1>3, <1>4
  <2>5. stdin' \in Seq(Sent')
    BY <1>0, <1>1, SeqWider DEF IInv, TypeOK
  <2>6. out' \in Seq([to : Sent', body : Body])
    <3>1. [to : Sent, body : Body] \subseteq [to : Sent', body : Body]
      BY <1>1
    <3>2. out \in Seq([to : Sent, body : Body])
      BY DEF IInv, TypeOK
    <3> QED
      BY <1>0, <3>1, <3>2, SeqWider
  <2> QED
    BY <1>0, <1>1, <1>2, <2>1, <2>2, <2>3, <2>4, <2>5, <2>6 DEF IInv, TypeOK
<1>6. Places'
  <2>1. \A v, u \in Worker : v # u /\ Active(v)' /\ Active(u)' => job'[v] # job'[u]
    BY <1>1, <1>3, <1>4 DEF IInv, Places
  <2>2. \A v \in Worker : Active(v)' => job'[v] \notin Lines'
    BY <1>1, <1>2, <1>3, <1>4 DEF IInv, Places
  <2>3. \A k \in Lines' : Brought(sent'[k]) = {}
    BY <1>1, <1>2 DEF IInv, Places
  <2> QED
    BY <1>0, <2>1, <2>2, <2>3 DEF IInv, Places
<1>7. Working'
  <2> SUFFICES ASSUME NEW v \in Worker
               PROVE  /\ pc'[v] \in Busy => OwnKey(sent'[job'[v]], key'[v])
                      /\ pc'[v] \in {"read", "handle"} => parts'[v] = << >>
                      /\ pc'[v] \in {"call", "wait"} =>
                           IsToolCall(sent'[job'[v]]) /\ Len(parts'[v]) < Calls(sent'[job'[v]])
                      /\ pc'[v] = "wait" => try'[v] > 0
    BY DEF Working
  <2>1. CASE v = w
    BY <2>1, <1>0, <1>3 DEF Busy, IInv, TypeOK
  <2>2. CASE v # w
    <3>1. pc[v] \in Busy \cup {"read"} => job[v] \in Sent
      BY DEF IInv, TypeOK, Active
    <3>2. /\ pc'[v] = pc[v] /\ job'[v] = job[v] /\ parts'[v] = parts[v] /\ try'[v] = try[v]
          /\ key' = key
      BY <2>2, <1>0, <1>3
    <3>3. pc[v] \in Busy => sent'[job[v]] = sent[job[v]]
      BY <3>1, <1>1
    <3>4. pc[v] \in {"call", "wait"} => pc[v] \in Busy
      BY DEF Busy
    <3> QED
      BY <3>2, <3>3, <3>4 DEF IInv, Working
  <2> QED
    BY <2>1, <2>2
<1>8. Made'
  <2>1. \A v \in Worker, c \in Called : Active(v)' /\ job'[v] = c.of =>
           Active(v) /\ job[v] = c.of /\ key'[v] = key[v] /\ pc'[v] # "read"
    BY <1>0, <1>1, <1>3, <1>4 DEF IInv, TypeOK, Made
  <2>2. \A c \in Called : c.of \notin Lines'
    BY <1>2 DEF IInv, Made
  <2> QED
    BY <1>0, <1>1, <2>1, <2>2, MadeStays
<1> QED
  BY <1>5, <1>6, <1>7, <1>8 DEF IInv

(* The key that is chosen is one that the message brings, if it brings any. *)
LEMMA KeyIsOwn == \A w, m : OwnKey(m, KeyFor(w, m))
BY DEF OwnKey, KeyFor, Brought

LEMMA ReadBodyHolds == ASSUME IInv, NEW w \in Worker, ReadBody(w) PROVE IInv'
<1>0. /\ pc[w] = "read" /\ pc' = [pc EXCEPT ![w] = "handle"]
      /\ key' = [key EXCEPT ![w] = KeyFor(w, sent[job[w]])]
      /\ UNCHANGED <<mode, sent, stdin, job, parts, try, out, wireVars>>
  BY DEF ReadBody
<1>1. /\ pc'[w] = "handle" /\ key'[w] = KeyFor(w, sent[job[w]])
      /\ \A v \in Worker \ {w} : pc'[v] = pc[v] /\ key'[v] = key[v]
  BY <1>0 DEF IInv, TypeOK
<1>2. \A v \in Worker : Active(v)' = Active(v)
  BY <1>0, <1>1 DEF Active, Busy
<1>3. TypeOK'
  BY <1>0, <1>2 DEF IInv, TypeOK, Sent, Called, wireVars, Busy
<1>4. Places'
  BY <1>0, <1>2 DEF IInv, Places, Lines
<1>5. ~\E c \in Called : c.of = job[w]
  BY <1>0 DEF IInv, Made, Active
<1>6. Made'
  <2>1. \A v \in Worker, c \in Called : Active(v)' /\ job'[v] = c.of =>
           Active(v) /\ job[v] = c.of /\ key'[v] = key[v] /\ pc'[v] # "read"
    BY <1>0, <1>1, <1>2, <1>5 DEF IInv, Made
  <2>2. \A c \in Called : c.of \notin Lines'
    BY <1>0 DEF IInv, Made, Lines
  <2> QED
    BY <1>0, <2>1, <2>2, MadeStays
<1>7. Working'
  <2>1. parts[w] = << >>
    BY <1>0 DEF IInv, Working
  <2> QED
    BY <2>1, <1>0, <1>1, KeyIsOwn DEF IInv, Working, Busy
<1> QED
  BY <1>3, <1>4, <1>6, <1>7 DEF IInv

(* One more call of a worker that has one to make. *)
LEMMA CallGoesOut ==
  ASSUME IInv, NEW w \in Worker, NEW n \in 1..MaxTries,
         pc[w] \in {"call", "wait"},
         pc' = [pc EXCEPT ![w] = "wait"], try' = [try EXCEPT ![w] = n],
         flight' = flight \cup {CallOf(w, n)},
         UNCHANGED <<mode, sent, stdin, job, key, parts, out, executed>>
  PROVE  IInv'
<1> DEFINE c == CallOf(w, n)
<1>0. /\ pc'[w] = "wait" /\ try'[w] = n /\ n \in Nat /\ n > 0
      /\ \A v \in Worker \ {w} : pc'[v] = pc[v] /\ try'[v] = try[v]
  BY McpAssumption DEF IInv, TypeOK
<1>1. Called' = Called \cup {c} /\ Sent' = Sent /\ Lines' = Lines
  BY DEF Called, Sent, Lines
<1>2. \A v \in Worker : Active(v)' = Active(v)
  BY <1>0 DEF Active, Busy
<1>3. /\ Active(w) /\ job[w] \in Sent /\ job[w] \notin Lines
      /\ IsToolCall(sent[job[w]]) /\ Len(parts[w]) < Calls(sent[job[w]])
      /\ OwnKey(sent[job[w]], key[w])
  BY DEF IInv, TypeOK, Places, Working, Active, Busy
<1>4. /\ c.of = job[w] /\ c.part = Len(parts[w]) + 1 /\ c.try = n /\ c.key = key[w]
      /\ c = [of |-> c.of, part |-> c.part, try |-> c.try, key |-> c.key]
  BY DEF CallOf
<1>5. TypeOK'
  <2>1. pc' \in [Worker -> Busy \cup {"idle", "read", "exited"}]
    BY DEF IInv, TypeOK, Busy
  <2>2. try' \in [Worker -> 0..MaxTries]
    BY McpAssumption DEF IInv, TypeOK
  <2>3. \A d \in Called' : d.of \in Sent
    BY <1>1, <1>3, <1>4 DEF IInv, TypeOK
  <2> HIDE DEF c
  <2> QED
    BY <1>1, <1>2, <2>1, <2>2, <2>3 DEF IInv, TypeOK
<1>6. Places'
  BY <1>1, <1>2 DEF IInv, Places
<1>7. Working'
  BY <1>0 DEF IInv, Working, Busy
<1>8. Made'
  <2> HIDE DEF c
  <2>1. c.part \in 1..Calls(sent[c.of])
    <3>1. Len(parts[w]) \in Nat
      BY DEF IInv, TypeOK
    <3>2. Calls(sent[c.of]) \in 0..2
      BY CallsRange
    <3> QED
      BY <1>3, <1>4, <3>1, <3>2
  <2>2. \A d \in Called : d.of = c.of => d.key = c.key
    BY <1>3, <1>4 DEF IInv, Made
  <2>3. \A d, e \in Called' : d.of = e.of => d.key = e.key
    BY <1>1, <2>2 DEF IInv, Made
  <2>4. \A v \in Worker, d \in Called' : Active(v)' /\ job'[v] = d.of =>
          pc'[v] # "read" /\ d.key = key'[v]
    <3> SUFFICES ASSUME NEW v \in Worker, NEW d \in Called', Active(v), job[v] = d.of
                 PROVE  pc'[v] # "read" /\ d.key = key[v]
      BY <1>2
    <3>1. CASE d \in Called
      BY <3>1, <1>0 DEF IInv, Made
    <3>2. CASE d = c
      <4>1. v = w
        BY <3>2, <1>3, <1>4 DEF IInv, Places
      <4> QED
        BY <3>2, <4>1, <1>0, <1>4
    <3> QED
      BY <1>1, <3>1, <3>2
  <2>5. ASSUME NEW d \in Called'
        PROVE  /\ d = [of |-> d.of, part |-> d.part, try |-> d.try, key |-> d.key]
               /\ d.of \notin Lines
               /\ IsToolCall(sent[d.of])
               /\ d.part \in 1..Calls(sent[d.of])
               /\ d.try \in 1..MaxTries
               /\ OwnKey(sent[d.of], d.key)
    <3>1. CASE d \in Called
      BY <3>1 DEF IInv, Made
    <3>2. CASE d = c
      BY <3>2, <1>3, <1>4, <2>1
    <3> QED
      BY <1>1, <3>1, <3>2
  <2> QED
    BY <1>1, <2>3, <2>4, <2>5 DEF Made
<1> QED
  BY <1>5, <1>6, <1>7, <1>8 DEF IInv

LEMMA GetHolds == ASSUME IInv, NEW w \in Worker, Get(w) PROVE IInv'
<1>1. 1 \in 1..MaxTries
  BY McpAssumption
<1> QED
  BY <1>1, CallGoesOut DEF Get

LEMMA ResendHolds == ASSUME IInv, NEW w \in Worker, Resend(w) PROVE IInv'
<1> DEFINE n == try[w] + 1
<1>1. n \in 1..MaxTries
  BY McpAssumption DEF Resend, IInv, TypeOK
<1>2. /\ pc[w] = "wait" /\ pc' = [pc EXCEPT ![w] = "wait"] /\ try' = [try EXCEPT ![w] = n]
      /\ flight' = flight \cup {CallOf(w, n)}
      /\ UNCHANGED <<mode, sent, stdin, job, key, parts, out, executed>>
  BY DEF Resend, IInv, TypeOK
<1> QED
  BY <1>1, <1>2, CallGoesOut

LEMMA ApiHolds == ASSUME IInv, NEW c \in flight, Api(c) PROVE IInv'
<1>1. Called' \subseteq Called /\ Sent' = Sent /\ Lines' = Lines
  BY DEF Api, Called, Sent, Lines
<1>2. \A w \in Worker : Active(w)' = Active(w)
  BY DEF Api, Active
<1>3. UNCHANGED <<mode, sent, stdin, pc, job, key, parts, try, out>>
  BY DEF Api
<1>4. TypeOK'
  BY <1>1, <1>2, <1>3 DEF IInv, TypeOK
<1>5. Places' /\ Working'
  BY <1>1, <1>2, <1>3 DEF IInv, Places, Working
<1>6. Made'
  BY <1>1, <1>2, <1>3 DEF IInv, Made
<1> QED
  BY <1>4, <1>5, <1>6 DEF IInv

LEMMA StepHolds == IInv /\ [Next]_vars => IInv'
<1> SUFFICES ASSUME IInv, [Next]_vars PROVE IInv'
  OBVIOUS
<1>1. ASSUME NEW m \in Message, WriteLine(m) PROVE IInv'
  BY <1>1, WriteLineHolds
<1>2. ASSUME NEW m \in Message, NEW w \in Conn, Arrive(w, m) PROVE IInv'
  BY <1>2, ArriveHolds
<1>3. CASE Scan
  BY <1>3, ScanHolds
<1>4. CASE Exit
  BY <1>4, ExitHolds
<1>5. ASSUME NEW w \in Worker, ReadBody(w) \/ ReadFails(w) \/ Work(w) \/ Resend(w) PROVE IInv'
  <2>1. ASSUME NEW how \in {"ok", "error"}, Ends(w, how) PROVE IInv'
    BY <2>1, EndsHolds
  <2> QED
    BY <1>5, <2>1, ReadBodyHolds, ReadFailsHolds, HandleMessageHolds, GetHolds, ResendHolds
       DEF Work, Succeeds, Refused, TimesOut
<1>6. ASSUME NEW c \in flight, Api(c) PROVE IInv'
  BY <1>6, ApiHolds
<1>7. CASE UNCHANGED vars
  <2>1. UNCHANGED <<mode, sent, stdin, pc, job, key, parts, try, out, flight, executed>>
    BY <1>7 DEF vars, wireVars
  <2>2. TypeOK'
    BY <2>1 DEF IInv, TypeOK, Sent, Called, Active
  <2>3. Working'
    BY <2>1 DEF IInv, Working
  <2>4. Quiet
    BY <2>1 DEF Quiet, Active, wireVars
  <2> QED
    BY <2>2, <2>3, <2>4, QuietStep
<1> QED
  BY <1>1, <1>2, <1>3, <1>4, <1>5, <1>6, <1>7 DEF Next

(* The inductive invariant of the adapter: whatever clients send and       *)
(* however the API answers, each worker and each call belongs to one       *)
(* message (handleMessage, toolsCall, get).                                *)
THEOREM AdapterInvariant == Spec => []IInv
BY InitHolds, StepHolds, PTL DEF Spec

(* No call is made with the key of another caller, nor with the adapter's  *)
(* when the message brings its own (serveHTTP's choice of key).            *)
THEOREM CallsUseOwnKey == Spec => []OwnKeyOnly
<1>1. IInv => OwnKeyOnly
  BY DEF IInv, Made, OwnKeyOnly
<1> QED
  BY <1>1, AdapterInvariant, PTL

(* The dispatcher enforces the required arguments of its schemas: toolDefs *)
(* against the switch of toolsCall.                                        *)
THEOREM SchemaIsEnforced == Spec => []SchemaEnforced
<1>2. IInv => SchemaEnforced
  <2> SUFFICES ASSUME IInv, NEW c \in Called
               PROVE  IsToolCall(sent[c.of]) /\ Required(sent[c.of].tool) \subseteq sent[c.of].given
    BY DEF SchemaEnforced
  <2>1. IsToolCall(sent[c.of]) /\ c.part \in 1..Calls(sent[c.of])
    BY DEF IInv, Made
  <2>2. Calls(sent[c.of]) > 0
    BY <2>1, CallsRange
  <2>3. sent[c.of].tool \in Tools
    BY <2>1 DEF IsToolCall
  <2> QED
    BY <2>1, <2>2, <2>3, CallsNeedRequired
<1> QED
  BY <1>2, AdapterInvariant, PTL

(* A message costs no more calls than its tool makes, each as often as the *)
(* transport may send it.                                                  *)
THEOREM CostIsBounded == Spec => []CostBounded
<1>1. ASSUME IInv, NEW n \in Sent
      PROVE  Cardinality({c \in Called : c.of = n}) <=
               MaxTries * (IF sent[n].tool = "get_land_value" THEN 2 ELSE 1)
  <2> DEFINE S == {c \in Called : c.of = n}
             P == (1..Calls(sent[n])) \X (1..MaxTries)
             f == [c \in S |-> <<c.part, c.try>>]
  <2>1. Calls(sent[n]) \in Nat /\ Calls(sent[n]) <= (IF sent[n].tool = "get_land_value" THEN 2 ELSE 1)
    BY <1>1, CallsAtMost, CallsRange
  <2>2. \A c \in S : <<c.part, c.try>> \in P
    BY <1>1 DEF IInv, Made
  <2>3. ASSUME NEW c \in S, NEW d \in S, <<c.part, c.try>> = <<d.part, d.try>> PROVE c = d
    <3>1. c.part = d.part /\ c.try = d.try /\ c.of = d.of /\ c.key = d.key
      BY <1>1, <2>3 DEF IInv, Made
    <3>2. /\ c = [of |-> c.of, part |-> c.part, try |-> c.try, key |-> c.key]
          /\ d = [of |-> d.of, part |-> d.part, try |-> d.try, key |-> d.key]
      BY <1>1 DEF IInv, Made
    <3> QED
      BY <3>1, <3>2
  <2> HIDE DEF S, P
  <2>4. f \in Injection(S, P)
    BY <2>2, <2>3 DEF Injection, IsInjective
  <2>5. MaxTries \in Nat
    BY McpAssumption
  <2>6. ASSUME NEW k \in Nat PROVE IsFiniteSet(1..k) /\ Cardinality(1..k) = k
    <3>1. IsFiniteSet(1..k) /\ Cardinality(1..k) = IF 1 > k THEN 0 ELSE k - 1 + 1
      BY FS_Interval
    <3> QED
      BY <3>1
  <2>7. IsFiniteSet(P) /\ Cardinality(P) = Calls(sent[n]) * MaxTries
    <3>1. IsFiniteSet(1..Calls(sent[n])) /\ Cardinality(1..Calls(sent[n])) = Calls(sent[n])
      BY <2>1, <2>6
    <3>2. IsFiniteSet(1..MaxTries) /\ Cardinality(1..MaxTries) = MaxTries
      BY <2>5, <2>6
    <3>3. /\ IsFiniteSet(P)
          /\ Cardinality(P) = Cardinality(1..Calls(sent[n])) * Cardinality(1..MaxTries)
      BY <3>1, <3>2, FS_Product, Zenon DEF P
    <3> QED
      BY <3>1, <3>2, <3>3
  <2>8. Cardinality(S) <= Cardinality(P)
    BY <2>4, <2>7, FS_Injection
  <2>9. Calls(sent[n]) * MaxTries <= MaxTries * (IF sent[n].tool = "get_land_value" THEN 2 ELSE 1)
    <3>1. CASE Calls(sent[n]) = 0
      BY <3>1, <2>5
    <3>2. CASE Calls(sent[n]) = 1
      BY <3>2, <2>5
    <3>3. CASE Calls(sent[n]) = 2
      BY <3>3, <2>1, <2>5
    <3> QED
      BY <3>1, <3>2, <3>3, CallsRange
  <2>10. IsFiniteSet(S)
    BY <2>4, <2>7, FS_Injection
  <2>11. Cardinality(S) \in Nat /\ Cardinality(P) \in Nat
    BY <2>7, <2>10, FS_CardinalityType
  <2> QED
    BY <2>1, <2>5, <2>7, <2>8, <2>9, <2>11 DEF S
<1>2. IInv => CostBounded
  BY <1>1 DEF CostBounded
<1> QED
  BY <1>2, AdapterInvariant, PTL

--------------------------------------------------------------------------------
(* One answer each. *)

Answered == {out[i].to : i \in 1..Len(out)}

(* A line still to be read, or a message some worker has. *)
Pending(n) ==
  \/ pc[Stdio] # "exited" /\ n \in Lines
  \/ \E w \in Worker : Active(w) /\ job[w] = n

Ordered(i, j) == IF mode = "stdio" THEN i < j ELSE i # j

Wanted == \A i \in 1..Len(out) : WantsAnswer(sent[out[i].to]) \/ out[i].body = "400"

InOrder == \A i, j \in 1..Len(out) : i < j => Ordered(out[i].to, out[j].to)

(* Answers come before what is at hand, and that before what is to be read. *)
Before ==
  /\ \A w \in Worker : Active(w) => \A n \in Answered : Ordered(n, job[w])
  /\ \A n \in Answered, k \in Lines : n < k
  /\ \A k \in Lines : Active(Stdio) => job[Stdio] < k

(* Only one of the two ways in is open. *)
OneMode ==
  /\ mode = "stdio" => \A w \in Worker : Active(w) => w = Stdio
  /\ mode # "stdio" => stdin = << >>
  /\ pc[Stdio] # "read"

(* What happened to message n. *)
AccountedFor(n) ==
  \/ n \in Answered
  \/ ~WantsAnswer(sent[n])
  \/ Pending(n)
  \/ pc[Stdio] = "exited"
  \/ mode = "stdio" /\ sent[n].form = "blank"

Settled == Wanted /\ InOrder /\ Before /\ OneMode /\ \A n \in Sent : AccountedFor(n)

LEMMA SettledInit == Init => Settled
<1> SUFFICES ASSUME Init PROVE Settled
  OBVIOUS
<1>1. /\ Answered = {} /\ Lines = {} /\ Sent = {} /\ Len(out) = 0 /\ stdin = << >>
      /\ \A w \in Worker : pc[w] = "idle" /\ ~Active(w)
      /\ Stdio \in Worker
  BY DEF Init, Answered, Lines, Sent, Active, Busy, Worker
<1>2. Wanted /\ InOrder
  BY <1>1 DEF Wanted, InOrder
<1>3. Before /\ OneMode
  BY <1>1 DEF Before, OneMode
<1> QED
  BY <1>1, <1>2, <1>3 DEF Settled

LEMMA SettledMeansOne == ASSUME IInv, Settled PROVE OneAnswerEach
<1>1. \A i, j \in 1..Len(out) :
        i < j => IF mode = "stdio" THEN out[i].to < out[j].to ELSE out[i].to # out[j].to
  BY DEF Settled, InOrder, Ordered
<1>2. ASSUME NEW n \in Sent, Pending(n)
      PROVE  Taken(n) \/ \E w \in Conn : job[w] = n /\ pc[w] = "read"
  BY <1>2 DEF Pending, Taken, Lines, Active, Settled, OneMode, Worker
<1> QED
  BY <1>1, <1>2 DEF OneAnswerEach, Settled, Wanted, AccountedFor, Answered

(* A step that answers nothing and takes nothing new. *)
LEMMA SettledStays ==
  ASSUME Settled, UNCHANGED <<mode, sent, stdin, job, out>>,
         \A w \in Worker : Active(w)' = Active(w),
         pc'[Stdio] # "read", pc'[Stdio] = "exited" <=> pc[Stdio] = "exited"
  PROVE  Settled'
<1>1. Answered' = Answered /\ Lines' = Lines /\ Sent' = Sent /\ Stdio \in Worker
  BY DEF Answered, Lines, Sent, Worker
<1>2. \A n : Pending(n)' = Pending(n)
  BY <1>1 DEF Pending
<1>3. Before' /\ OneMode'
  BY <1>1 DEF Settled, Before, OneMode, Ordered
<1>4. Wanted' /\ InOrder'
  BY DEF Settled, Wanted, InOrder, Ordered
<1>5. \A n \in Sent : AccountedFor(n)'
  BY <1>1, <1>2 DEF Settled, AccountedFor
<1> QED
  BY <1>1, <1>3, <1>4, <1>5 DEF Settled

(* A worker is done with its message, and has answered it or need not. *)
LEMMA SettledAnswer ==
  ASSUME IInv, Settled, NEW w \in Worker, NEW body \in Body,
         Active(w), pc' = [pc EXCEPT ![w] = "idle"],
         UNCHANGED <<mode, sent, stdin, job>>,
         \/ /\ out' = Append(out, [to |-> job[w], body |-> body])
            /\ WantsAnswer(sent[job[w]]) \/ body = "400"
         \/ out' = out /\ ~WantsAnswer(sent[job[w]])
  PROVE  Settled'
<1>1. /\ pc'[w] = "idle" /\ ~Active(w)' /\ job[w] \in Sent
      /\ \A v \in Worker \ {w} : pc'[v] = pc[v] /\ Active(v)' = Active(v)
      /\ Stdio \in Worker /\ pc[w] # "exited"
  BY DEF IInv, TypeOK, Active, Busy, Worker
<1>2. Lines' = Lines /\ Sent' = Sent /\ Lines \subseteq Sent
  BY DEF Lines, Sent, IInv, TypeOK
<1>3. pc'[Stdio] = "exited" <=> pc[Stdio] = "exited"
  BY <1>1
<1>4. ASSUME NEW n, Pending(n) PROVE Pending(n)' \/ n = job[w]
  BY <1>1, <1>2, <1>3, <1>4 DEF Pending
<1>5. ASSUME NEW v \in Worker, Active(v)'
      PROVE  v # w /\ Active(v) /\ job'[v] = job[v] /\ job[v] # job[w] /\ mode # "stdio"
  BY <1>1, <1>5 DEF IInv, Places, Settled, OneMode
<1>6. \A k \in Lines : job[w] < k
  BY DEF Settled, Before, OneMode, Lines
<1>7. OneMode'
  BY <1>1, <1>5 DEF Settled, OneMode
<1>8. CASE out' = out /\ ~WantsAnswer(sent[job[w]])
  <2>1. Answered' = Answered
    BY <1>8 DEF Answered
  <2>2. Before'
    <3>1. \A v \in Worker : Active(v)' => \A n \in Answered' : Ordered(n, job[v])'
      BY <1>5, <2>1 DEF Settled, Before, Ordered
    <3>2. \A k \in Lines' : Active(Stdio)' => job'[Stdio] < k
      BY <1>1, <1>2, <1>5 DEF Settled, Before
    <3> QED
      BY <1>2, <2>1, <3>1, <3>2 DEF Settled, Before
  <2>3. Wanted' /\ InOrder'
    BY <1>8 DEF Settled, Wanted, InOrder, Ordered
  <2>4. \A n \in Sent : AccountedFor(n)'
    BY <1>3, <1>4, <1>8, <2>1 DEF Settled, AccountedFor
  <2> QED
    BY <1>2, <1>7, <2>2, <2>3, <2>4 DEF Settled
<1>9. CASE /\ out' = Append(out, [to |-> job[w], body |-> body])
           /\ WantsAnswer(sent[job[w]]) \/ body = "400"
  <2> DEFINE a == [to |-> job[w], body |-> body]
  <2>1. /\ a \in [to : Sent, body : Body] /\ a.to = job[w] /\ a.body = body
        /\ out \in Seq([to : Sent, body : Body])
    BY <1>1 DEF IInv, TypeOK
  <2>2. /\ Len(out') = Len(out) + 1 /\ Len(out) \in Nat
        /\ \A i \in 1..Len(out) : out'[i] = out[i] /\ out[i].to \in Answered
        /\ out'[Len(out) + 1] = a
    <3> HIDE DEF a
    <3>1. out' = Append(out, a)
      BY <1>9 DEF a
    <3> QED
      BY <2>1, <3>1, AppendKeeps DEF Answered
  <2> HIDE DEF a
  <2>3. Answered' = Answered \cup {job[w]}
    <3>1. Answered' = {out'[i].to : i \in 1..(Len(out) + 1)}
      BY <2>2 DEF Answered
    <3>2. 1..(Len(out) + 1) = 1..Len(out) \cup {Len(out) + 1}
      BY <2>2
    <3>3. Answered' = {out'[i].to : i \in 1..Len(out)} \cup {out'[Len(out) + 1].to}
      BY <3>1, <3>2
    <3>4. {out'[i].to : i \in 1..Len(out)} = {out[i].to : i \in 1..Len(out)}
      BY <2>2
    <3> QED
      BY <2>1, <2>2, <3>3, <3>4 DEF Answered
  <2>4. \A n \in Answered : Ordered(n, job[w])
    BY DEF Settled, Before
  <2>5. Before'
    <3>1. \A v \in Worker : Active(v)' => \A n \in Answered' : Ordered(n, job[v])'
      BY <1>5, <2>3 DEF Settled, Before, Ordered
    <3>2. \A n \in Answered', k \in Lines' : n < k
      BY <1>2, <1>6, <2>3 DEF Settled, Before
    <3>3. \A k \in Lines' : Active(Stdio)' => job'[Stdio] < k
      BY <1>1, <1>2, <1>5 DEF Settled, Before
    <3> QED
      BY <3>1, <3>2, <3>3 DEF Before
  <2>6. Wanted'
    BY <1>9, <2>1, <2>2 DEF Settled, Wanted
  <2>7. InOrder'
    <3> SUFFICES ASSUME NEW i \in 1..(Len(out) + 1), NEW j \in 1..(Len(out) + 1), i < j
                 PROVE  Ordered(out'[i].to, out'[j].to)
      BY <2>2 DEF InOrder, Ordered
    <3>1. i \in 1..Len(out)
      BY <2>2
    <3>2. CASE j = Len(out) + 1
      BY <2>1, <2>2, <2>4, <3>1, <3>2
    <3>3. CASE j # Len(out) + 1
      <4>1. j \in 1..Len(out)
        BY <2>2, <3>3
      <4> QED
        BY <2>2, <3>1, <4>1 DEF Settled, InOrder
    <3> QED
      BY <3>2, <3>3
  <2>8. \A n \in Sent : AccountedFor(n)'
    BY <1>3, <1>4, <2>3 DEF Settled, AccountedFor
  <2> QED
    BY <1>2, <1>7, <2>5, <2>6, <2>7, <2>8 DEF Settled
<1> QED
  BY <1>8, <1>9

LEMMA ExitSettled == ASSUME IInv, Settled, Exit PROVE Settled'
<1>1. /\ pc' = [pc EXCEPT ![Stdio] = "exited"]
      /\ UNCHANGED <<mode, sent, stdin, job, out>>
      /\ Stdio \in Worker
  BY DEF Exit, Worker
<1>2. Answered' = Answered /\ Lines' = Lines /\ Sent' = Sent
  BY <1>1 DEF Answered, Lines, Sent
<1>3. pc'[Stdio] = "exited" /\ \A w \in Worker : Active(w)' => Active(w)
  BY <1>1 DEF IInv, TypeOK, Active, Busy
<1>4. Before' /\ OneMode'
  BY <1>1, <1>2, <1>3 DEF Settled, Before, OneMode, Ordered
<1>5. Wanted' /\ InOrder'
  BY <1>1 DEF Settled, Wanted, InOrder, Ordered
<1>6. \A n \in Sent : AccountedFor(n)'
  BY <1>3 DEF AccountedFor
<1> QED
  BY <1>2, <1>4, <1>5, <1>6 DEF Settled

(* Messages that are new are numbered after all others. *)
LEMMA SettledGrows ==
  ASSUME IInv, Settled, NEW m \in Message, sent' = Append(sent, m),
         UNCHANGED <<mode, out>>
  PROVE  /\ Answered' = Answered
         /\ Wanted' /\ InOrder'
         /\ Sent' = Sent \cup {Len(sent) + 1}
         /\ \A n \in Sent : n < Len(sent) + 1 /\ sent'[n] = sent[n]
         /\ Answered \subseteq Sent /\ Lines \subseteq Sent
         /\ \A w \in Worker : Active(w) => job[w] \in Sent
<1>1. /\ Len(sent') = Len(sent) + 1 /\ Len(sent) \in Nat
      /\ \A n \in Sent : n \in Sent' /\ sent'[n] = sent[n]
  BY SentGrows
<1>2. Sent' = Sent \cup {Len(sent) + 1} /\ \A n \in Sent : n < Len(sent) + 1
  BY <1>1 DEF Sent
<1>3. \A i \in 1..Len(out) : out[i].to \in Sent
  <2>1. out \in Seq([to : Sent, body : Body])
    BY DEF IInv, TypeOK
  <2>2. \A i \in 1..Len(out) : out[i] \in [to : Sent, body : Body]
    BY <2>1, ElementsOf
  <2> QED
    BY <2>2
<1>4. Answered' = Answered /\ Answered \subseteq Sent
  BY <1>3 DEF Answered
<1>5. Wanted' /\ InOrder'
  BY <1>1, <1>3 DEF Settled, Wanted, InOrder, Ordered
<1>6. Lines \subseteq Sent /\ \A w \in Worker : Active(w) => job[w] \in Sent
  BY DEF Lines, IInv, TypeOK
<1> QED
  BY <1>1, <1>2, <1>4, <1>5, <1>6

LEMMA WriteLineSettled ==
  ASSUME IInv, Settled, NEW m \in Message, WriteLine(m) PROVE Settled'
<1> DEFINE n == Len(sent) + 1
<1>0. /\ sent' = Append(sent, m) /\ stdin' = Append(stdin, n) /\ mode = "stdio"
      /\ UNCHANGED <<mode, pc, job, out>>
      /\ Stdio \in Worker
  BY DEF WriteLine, Worker
<1>1. /\ Answered' = Answered /\ Wanted' /\ InOrder' /\ Sent' = Sent \cup {n}
      /\ \A k \in Sent : k < n /\ sent'[k] = sent[k]
      /\ Answered \subseteq Sent /\ Lines \subseteq Sent
      /\ \A w \in Worker : Active(w) => job[w] \in Sent
  BY <1>0, SettledGrows
<1>2. Lines' = Lines \cup {n}
  <2>1. stdin \in Seq(Sent') /\ n \in Sent'
    BY <1>1, SeqWider DEF IInv, TypeOK
  <2>2. /\ Len(stdin') = Len(stdin) + 1 /\ Len(stdin) \in Nat
        /\ \A i \in 1..Len(stdin) : stdin'[i] = stdin[i]
        /\ stdin'[Len(stdin) + 1] = n
    BY <1>0, <2>1, AppendKeeps
  <2> HIDE DEF n
  <2>3. 1..Len(stdin') = 1..Len(stdin) \cup {Len(stdin) + 1}
    BY <2>2
  <2>4. Lines' = {stdin'[i] : i \in 1..Len(stdin)} \cup {stdin'[Len(stdin) + 1]}
    BY <2>3 DEF Lines
  <2>5. {stdin'[i] : i \in 1..Len(stdin)} = Lines
    BY <2>2 DEF Lines
  <2> QED
    BY <2>2, <2>4, <2>5
<1> HIDE DEF n
<1>3. \A w \in Worker : Active(w)' = Active(w)
  BY <1>0 DEF Active
<1>4. Before'
  BY <1>0, <1>1, <1>2, <1>3 DEF Settled, Before, Ordered
<1>5. OneMode'
  BY <1>0, <1>3 DEF Settled, OneMode
<1>6. ASSUME NEW k, Pending(k) PROVE Pending(k)'
  BY <1>0, <1>2, <1>3, <1>6 DEF Pending
<1>7. \A k \in Sent : AccountedFor(k)'
  BY <1>0, <1>1, <1>6 DEF Settled, AccountedFor
<1>8. \A k : k = n => AccountedFor(k)'
  BY <1>0, <1>2 DEF AccountedFor, Pending
<1> QED
  BY <1>1, <1>4, <1>5, <1>7, <1>8 DEF Settled

LEMMA ArriveSettled ==
  ASSUME IInv, Settled, NEW w \in Conn, NEW m \in Message, Arrive(w, m) PROVE Settled'
<1> DEFINE n == Len(sent) + 1
<1>0. /\ pc[w] = "idle" /\ sent' = Append(sent, m) /\ mode # "stdio"
      /\ pc' = [pc EXCEPT ![w] = "read"]
      /\ job' = [job EXCEPT ![w] = n]
      /\ UNCHANGED <<mode, stdin, out>>
      /\ w \in Worker /\ Stdio \in Worker /\ w # Stdio
  BY McpAssumption DEF Arrive, Begin, Worker
<1>1. /\ Answered' = Answered /\ Wanted' /\ InOrder' /\ Sent' = Sent \cup {n}
      /\ \A k \in Sent : k < n /\ sent'[k] = sent[k]
      /\ Answered \subseteq Sent /\ Lines \subseteq Sent
      /\ \A v \in Worker : Active(v) => job[v] \in Sent
  BY <1>0, SettledGrows
<1> HIDE DEF n
<1>2. /\ pc'[w] = "read" /\ job'[w] = n /\ Active(w)' /\ ~Active(w)
      /\ \A v \in Worker \ {w} : pc'[v] = pc[v] /\ job'[v] = job[v] /\ Active(v)' = Active(v)
  BY <1>0 DEF IInv, TypeOK, Active, Busy
<1>3. Lines = {} /\ Lines' = {}
  BY <1>0 DEF Lines, Settled, OneMode
<1>4. Before'
  <2>1. ASSUME NEW v \in Worker, Active(v)', NEW k \in Answered PROVE Ordered(k, job[v])'
    <3>1. CASE v = w
      BY <1>0, <1>1, <1>2, <3>1 DEF Ordered, Sent
    <3>2. CASE v # w
      BY <1>0, <1>2, <2>1, <3>2 DEF Settled, Before, Ordered
    <3> QED
      BY <3>1, <3>2
  <2> QED
    BY <1>1, <1>3, <2>1 DEF Before
<1>5. OneMode'
  BY <1>0, <1>2 DEF Settled, OneMode
<1>6. ASSUME NEW k, Pending(k) PROVE Pending(k)'
  BY <1>2, <1>3, <1>6 DEF Pending
<1>7. \A k \in Sent : AccountedFor(k)'
  BY <1>0, <1>1, <1>2, <1>6 DEF Settled, AccountedFor
<1>8. \A k : k = n => AccountedFor(k)'
  BY <1>0, <1>2 DEF AccountedFor, Pending
<1> QED
  BY <1>1, <1>4, <1>5, <1>7, <1>8 DEF Settled

(* The next line is the first of those that are left. *)
LEMMA ScanSettled == ASSUME IInv, Settled, Scan PROVE Settled'
<1> DEFINE n == Head(stdin)
<1>0. /\ pc[Stdio] = "idle" /\ stdin # << >> /\ stdin' = Tail(stdin) /\ mode = "stdio"
      /\ pc' = [pc EXCEPT ![Stdio] = pc'[Stdio]]
      /\ pc'[Stdio] = CASE sent[n].form = "blank" -> "idle"
                        [] sent[n].form = "huge" -> "exited"
                        [] OTHER -> "handle"
      /\ job' = [job EXCEPT ![Stdio] = n]
      /\ UNCHANGED <<mode, sent, out>>
      /\ Stdio \in Worker
  BY DEF Scan, Begin, Worker, IInv, TypeOK, Settled, OneMode
<1>1. /\ Len(stdin) \in Nat \ {0} /\ Len(stdin') = Len(stdin) - 1 /\ n = stdin[1]
      /\ \A i \in 1..Len(stdin') : stdin'[i] = stdin[i + 1]
  BY <1>0, TailShifts DEF IInv, TypeOK
<1>2. n \in Lines /\ Lines \subseteq Sent /\ n \in Sent
  <2>1. stdin \in Seq(Sent)
    BY DEF IInv, TypeOK
  <2>2. \A i \in 1..Len(stdin) : stdin[i] \in Sent
    BY <2>1, ElementsOf
  <2>3. 1 \in 1..Len(stdin)
    BY <1>1
  <2> QED BY <1>1, <2>2, <2>3 DEF Lines
<1>3. Lines' \subseteq Lines /\ \A k \in Lines' : n < k
  <2> SUFFICES ASSUME NEW i \in 1..Len(stdin') PROVE stdin'[i] \in Lines /\ n < stdin'[i]
    BY DEF Lines
  <2>1. i + 1 \in 1..Len(stdin) /\ 1 \in 1..Len(stdin) /\ 1 < i + 1 /\ stdin'[i] = stdin[i + 1]
    BY <1>1
  <2>2. stdin[1] < stdin[i + 1]
    BY <2>1 DEF IInv, Places
  <2> QED BY <1>1, <2>1, <2>2 DEF Lines
<1>4. \A k \in Lines : k = n \/ k \in Lines'
  <2> SUFFICES ASSUME NEW i \in 1..Len(stdin), i # 1 PROVE stdin[i] \in Lines'
    BY <1>1 DEF Lines
  <2>1. i - 1 \in 1..Len(stdin') /\ stdin'[i - 1] = stdin[i]
    BY <1>1
  <2> QED
    BY <2>1 DEF Lines
<1> HIDE DEF n
<1>5. /\ job'[Stdio] = n
      /\ \A v \in Worker \ {Stdio} : pc'[v] = pc[v] /\ job'[v] = job[v] /\ Active(v)' = Active(v)
      /\ ~Active(Stdio)
  BY <1>0 DEF IInv, TypeOK, Active, Busy
<1>6. Answered' = Answered /\ Sent' = Sent /\ Wanted' /\ InOrder'
  BY <1>0 DEF Answered, Sent, Settled, Wanted, InOrder, Ordered
<1>7. OneMode'
  <2>1. \A v \in Worker : Active(v)' => v = Stdio
    BY <1>0, <1>5 DEF Settled, OneMode
  <2>2. pc'[Stdio] # "read"
    BY <1>0
  <2> QED
    BY <1>0, <2>1, <2>2 DEF OneMode
<1>8. Before'
  <2>1. \A v \in Worker : Active(v)' => v = Stdio
    BY <1>0, <1>5 DEF Settled, OneMode
  <2>2. \A k \in Answered : k < n
    BY <1>2 DEF Settled, Before
  <2> QED
    BY <1>0, <1>3, <1>5, <1>6, <2>1, <2>2 DEF Settled, Before, Ordered
<1>9. ASSUME NEW k \in Sent PROVE AccountedFor(k)'
  <2>1. CASE k = n
    <3>1. CASE sent[n].form = "blank"
      BY <1>0, <2>1, <3>1 DEF AccountedFor
    <3>2. CASE pc'[Stdio] = "exited"
      BY <3>2 DEF AccountedFor
    <3>3. CASE pc'[Stdio] = "handle"
      BY <1>0, <1>5, <2>1, <3>3 DEF AccountedFor, Pending, Active, Busy
    <3> QED
      BY <1>0, <3>1, <3>2, <3>3
  <2>2. CASE k # n /\ pc'[Stdio] # "exited"
    <3>1. Pending(k) => Pending(k)'
      BY <1>4, <1>5, <2>2 DEF Pending
    <3> QED
      BY <1>0, <1>6, <3>1 DEF Settled, AccountedFor
  <2>3. CASE pc'[Stdio] = "exited"
    BY <2>3 DEF AccountedFor
  <2> QED
    BY <2>1, <2>2, <2>3
<1> QED
  BY <1>6, <1>7, <1>8, <1>9 DEF Settled

(* Respond answers, or the message wants none. *)
LEMMA RespondSettled ==
  ASSUME IInv, Settled, NEW w \in Worker, NEW body \in Body, pc[w] \in Busy, Respond(w, body),
         UNCHANGED <<mode, sent, stdin, job>>
  PROVE  Settled'
<1>1. Active(w)
  BY DEF Active
<1>2. CASE WantsAnswer(sent[job[w]])
  BY <1>1, <1>2, SettledAnswer DEF Respond, Answer
<1>3. CASE ~WantsAnswer(sent[job[w]])
  BY <1>1, <1>3, SettledAnswer DEF Respond
<1> QED
  BY <1>2, <1>3

(* A worker goes on with its message. *)
LEMMA GoesOnSettled ==
  ASSUME IInv, Settled, NEW w \in Worker, Active(w),
         NEW where \in Busy, pc' = [pc EXCEPT ![w] = where],
         UNCHANGED <<mode, sent, stdin, job, out>>
  PROVE  Settled'
<1>1. \A v \in Worker : Active(v)' = Active(v)
  BY DEF IInv, TypeOK, Active, Busy
<1>2. Stdio \in Worker /\ pc[w] # "exited" /\ where # "exited" /\ where # "read"
  BY DEF Worker, Active, Busy
<1>3. pc'[Stdio] # "read" /\ (pc'[Stdio] = "exited" <=> pc[Stdio] = "exited")
  BY <1>2 DEF IInv, TypeOK, Settled, OneMode
<1> QED
  BY <1>1, <1>3, SettledStays

LEMMA WorkSettled == ASSUME IInv, Settled, NEW w \in Worker, Work(w) PROVE Settled'
<1>1. CASE HandleMessage(w)
  <2>1. /\ pc[w] = "handle" /\ pc[w] \in Busy /\ Active(w) /\ "call" \in Busy
        /\ UNCHANGED <<mode, sent, stdin, job>>
    BY <1>1 DEF HandleMessage, Active, Busy
  <2>2. CASE IsToolCall(sent[job[w]]) /\ Calls(sent[job[w]]) > 0
    BY <1>1, <2>1, <2>2, GoesOnSettled DEF HandleMessage
  <2>3. CASE ~(IsToolCall(sent[job[w]]) /\ Calls(sent[job[w]]) > 0)
    <3>1. PICK body \in Body : Respond(w, body)
      BY <1>1, <2>3 DEF HandleMessage, Body
    <3> QED
      BY <2>1, <3>1, RespondSettled
  <2> QED
    BY <2>2, <2>3
<1>2. CASE Get(w)
  <2>1. Active(w) /\ "wait" \in Busy
    BY <1>2 DEF Get, Active, Busy
  <2> QED
    BY <1>2, <2>1, GoesOnSettled DEF Get
<1>3. ASSUME NEW how \in {"ok", "error"}, Ends(w, how) PROVE Settled'
  <2>1. /\ pc[w] \in Busy /\ Active(w) /\ "call" \in Busy
        /\ UNCHANGED <<mode, sent, stdin, job>>
    BY <1>3 DEF Ends, Active, Busy
  <2>2. CASE More(w)
    BY <1>3, <2>1, <2>2, GoesOnSettled DEF Ends
  <2>3. CASE ~More(w)
    <3>1. /\ Respond(w, Verdict(Append(parts[w], how)))
          /\ Verdict(Append(parts[w], how)) \in Body
      BY <1>3, <2>3 DEF Ends, Verdict, Body
    <3> QED
      BY <2>1, <3>1, RespondSettled
  <2> QED
    BY <2>2, <2>3
<1> QED
  BY <1>1, <1>2, <1>3 DEF Work, Succeeds, Refused, TimesOut

LEMMA SettledStep == IInv /\ Settled /\ [Next]_vars => Settled'
<1> SUFFICES ASSUME IInv, Settled, [Next]_vars PROVE Settled'
  OBVIOUS
<1>1. ASSUME NEW m \in Message, WriteLine(m) PROVE Settled'
  BY <1>1, WriteLineSettled
<1>2. ASSUME NEW m \in Message, NEW w \in Conn, Arrive(w, m) PROVE Settled'
  BY <1>2, ArriveSettled
<1>3. CASE Scan
  BY <1>3, ScanSettled
<1>4. CASE Exit
  BY <1>4, ExitSettled
<1>5. ASSUME NEW w \in Worker, ReadBody(w) PROVE Settled'
  <2>1. Active(w) /\ "handle" \in Busy
    BY <1>5 DEF ReadBody, Active, Busy
  <2> QED
    BY <1>5, <2>1, GoesOnSettled DEF ReadBody
<1>6. ASSUME NEW w \in Worker, ReadFails(w) PROVE Settled'
  <2>1. Active(w) /\ "400" \in Body
    BY <1>6 DEF ReadFails, Active, Body
  <2> QED
    BY <1>6, <2>1, SettledAnswer DEF ReadFails, Answer
<1>7. ASSUME NEW w \in Worker, Work(w) PROVE Settled'
  BY <1>7, WorkSettled
<1>8. ASSUME UNCHANGED <<mode, sent, stdin, pc, job, out>> PROVE Settled'
  BY <1>8, SettledStays DEF Active, Settled, OneMode
<1>9. ASSUME NEW w \in Worker, Resend(w) PROVE Settled'
  BY <1>8, <1>9 DEF Resend
<1>10. ASSUME NEW c \in flight, Api(c) PROVE Settled'
  BY <1>8, <1>10 DEF Api
<1>11. CASE UNCHANGED vars
  BY <1>8, <1>11 DEF vars
<1> QED
  BY <1>1, <1>2, <1>3, <1>4, <1>5, <1>6, <1>7, <1>9, <1>10, <1>11 DEF Next

(* Nothing is answered twice or unasked, stdout keeps the order of stdin,  *)
(* and nothing is forgotten (serveStdio, serveHTTP and handleMessage).     *)
THEOREM AnswersAreOne == Spec => []OneAnswerEach
<1>1. Spec => []Settled
  BY SettledInit, SettledStep, AdapterInvariant, PTL DEF Spec
<1> QED
  BY <1>1, SettledMeansOne, AdapterInvariant, PTL
================================================================================
