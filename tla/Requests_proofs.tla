----------------------------- MODULE Requests_proofs -----------------------------
(***************************************************************************)
(* The requests of a client, for any number of them, any connections and   *)
(* limits: whoever runs finds what it uses, nobody is served past a block, *)
(* and connections and messages stay within their limits.                  *)
(***************************************************************************)
EXTENDS Requests, FiniteSetTheorems, SequenceTheorems, TLAPS

Checks == {Check(k) : k \in Identity}
Guards == {Guard(k) : k \in Identity}
Enters == {Enter(k) : k \in {"ip", "user"}}
Leaves == {Leave(k) : k \in {"ip", "user"}}

\* The steps of a chat until it is registered, its steps from then on, and those of
\* a request over HTTP.
Opening == Checks \cup Enters \cup {Do("register")}
Talking == Guards \cup Leaves \cup {Do("slot"), Do("receive"), Do("answer")}
Asking  == Checks \cup Guards \cup {Do("respond")}

\* What may be left to do: checks come first, the service last, a slot is taken for
\* each message, and a chat ends by leaving.
Ordered(s) ==
    \A i, j \in DOMAIN s : i < j =>
        /\ s[i] \notin {Do("respond"), Do("register")}
        /\ s[i] \in Enters => s[j] \notin Checks
        /\ s[i] \in Leaves => s[i] = Leave("ip") /\ s[j] = Leave("user")

Paired(s) ==
    \A i \in DOMAIN s : i + 1 \in DOMAIN s =>
        /\ s[i + 1] = Do("receive") => s[i] = Do("slot")
        /\ s[i + 1] = Leave("user") => s[i] = Leave("ip")

Kept(s) == s # <<>> => s[Len(s)] \in {Do("register"), Do("receive"), Leave("user")}

Shaped(kind, s) ==
    /\ Ordered(s) /\ Paired(s)
    /\ kind # "chat" => Range(s) \subseteq Asking
    /\ kind = "chat" => Kept(s) /\ (Range(s) \subseteq Opening \/ Range(s) \subseteq Talking)

\* A request by itself.
Regular(q) ==
    /\ Shaped(q.kind, q.todo)
    /\ \A k \in q.barred : Check(k) \in Range(q.todo)
    /\ q.kind # "chat" => q.connection = NoConnection
    /\ q.kind = "chat" /\ q.connection = NoConnection => Range(q.todo) \cap Enters # {}
    /\ Range(q.todo) \cap Checks # {} => q.connection = NoConnection

AllRegular == \A r \in Request : Regular(request[r])

\* Connections have one request each, and count from Enter to Leave.
Distinct ==
    \A q, r \in Request :
        request[q].connection = request[r].connection /\ request[r].connection # NoConnection
            => q = r

LeftOne ==
    \A r \in Request : IsAt(r, Leave("user")) => request[r].connection \notin active["ip"]

\* The chats that have entered for k and have not begun to leave.
Inside(q, k) ==
    q.kind = "chat" /\ Enter(k) \notin Range(q.todo) /\ Head(q.todo) \notin Leaves

Entered(k) == {r \in Request : Inside(request[r], k) /\ k \notin request[r].uncounted}

EnteredCount ==
    \A k \in {"ip", "user"} :
        /\ IsFiniteSet(active[k])
        /\ \A r \in Entered(k) : request[r].connection \in active[k]
        /\ Cardinality(Entered(k)) <= MaxConnections[k]

\* The chats that have taken a slot for a message.
Paid == {r \in Request : IsAt(r, Do("receive"))}

PaidFor == ~pruned => excess + Cardinality(Paid) <= level + Cardinality(Request)

\* The plan of the process, and what has been done of it.
Rest(op) == {part \in Part : <<op, part>> \in Range(plan)}

Once(s) == \A i, j \in DOMAIN s : s[i] = s[j] => i = j

\* Parts start after, and stop before, what they use.
StartsAfter(s) ==
    \A i, j \in DOMAIN s :
        s[i][1] = "start" /\ s[j][1] = "start" /\ s[j][2] \in Uses(s[i][2]) => j < i
StopsBefore(s) ==
    \A i, j \in DOMAIN s :
        s[i][1] = "stop" /\ s[j][1] = "stop" /\ s[j][2] \in Uses(s[i][2]) => i < j

Staged ==
    /\ \A part \in tasks : Uses(part) \subseteq up
    /\ Once(plan)
    /\ phase = "starting" =>
          /\ Rest("stop") = {} /\ StartsAfter(plan)
          /\ up = Part \ Rest("start") /\ tasks = up \cap Background
          /\ loaded = Observers \ Rest("load") /\ Rest("load") \subseteq Observers
    /\ phase = "serving" =>
          plan = <<>> /\ up = Part /\ tasks = Background /\ loaded = Observers
    /\ phase = "stopping" =>
          /\ Rest("start") = {} /\ Rest("load") = {} /\ StopsBefore(plan)
          /\ up = Rest("stop") /\ tasks = up \cap Background
    /\ phase \in {"ended", "failed"} => plan = <<>>

\* No request comes before the process serves, or stays when it shuts down.
Quiet == phase # "serving" => \A r \in Request : request[r] = None
-------------------------------------------------------------------------------
(***************************************************************************)
(* Steps and plans.                                                        *)
(***************************************************************************)
\* The parts of a sequence of steps.
LEMMA TailFacts ==
    ASSUME NEW T, NEW s \in Seq(T), s # <<>>
    PROVE  /\ Head(s) = s[1] /\ Head(s) \in T /\ Head(s) \in Range(s)
           /\ Tail(s) \in Seq(T) /\ Len(Tail(s)) = Len(s) - 1 /\ Len(s) \in Nat \ {0}
           /\ DOMAIN s = 1 .. Len(s) /\ DOMAIN Tail(s) = 1 .. Len(s) - 1
           /\ \A i \in DOMAIN Tail(s) : Tail(s)[i] = s[i + 1] /\ i + 1 \in DOMAIN s
           /\ \A i \in DOMAIN s : i = 1 \/ (i - 1 \in DOMAIN Tail(s) /\ s[i] = Tail(s)[i - 1])
           /\ Range(s) = {Head(s)} \cup Range(Tail(s))
<1>1. /\ Head(s) = s[1] /\ Head(s) \in T /\ Len(s) \in Nat \ {0}
      /\ Tail(s) \in Seq(T) /\ Len(Tail(s)) = Len(s) - 1
      /\ DOMAIN s = 1 .. Len(s) /\ DOMAIN Tail(s) = 1 .. Len(s) - 1
  OBVIOUS
<1>2. \A i \in 1 .. Len(s) - 1 : Tail(s)[i] = s[i + 1] /\ i + 1 \in 1 .. Len(s)
  OBVIOUS
<1>3. \A i \in 1 .. Len(s) : i = 1 \/ (i - 1 \in 1 .. Len(s) - 1 /\ s[i] = Tail(s)[i - 1])
  BY <1>1, <1>2
<1>4. 1 \in 1 .. Len(s)
  BY <1>1
<1>5. Range(s) \subseteq {Head(s)} \cup Range(Tail(s))
  <2> SUFFICES ASSUME NEW x \in Range(s), x # Head(s)
               PROVE  x \in Range(Tail(s))
    OBVIOUS
  <2>1. PICK i \in 1 .. Len(s) : x = s[i]
    BY <1>1 DEF Range
  <2>2. i - 1 \in DOMAIN Tail(s) /\ x = Tail(s)[i - 1]
    BY <1>1, <1>3, <2>1
  <2> QED
    BY <2>2 DEF Range
<1>6. {Head(s)} \cup Range(Tail(s)) \subseteq Range(s)
  BY <1>1, <1>2, <1>4 DEF Range
<1> QED
  BY <1>1, <1>2, <1>3, <1>4, <1>5, <1>6

\* Nothing is left of a plan iff it has no steps.
LEMMA RangeEmpty ==
    ASSUME NEW T, NEW s \in Seq(T)
    PROVE  /\ s = <<>> <=> Range(s) = {}
           /\ Len(s) \in Nat /\ DOMAIN s = 1 .. Len(s)
           /\ s # <<>> => Len(s) \in DOMAIN s
<1>1. Len(s) \in Nat /\ DOMAIN s = 1 .. Len(s)
  OBVIOUS
<1>2. s = <<>> => DOMAIN s = {}
  OBVIOUS
<1>3. s # <<>> => Len(s) \in DOMAIN s
  OBVIOUS
<1> QED
  BY <1>1, <1>2, <1>3 DEF Range

\* No step is two things at a time.
LEMMA StepsDiffer ==
    /\ Opening \cap Talking = {}
    /\ Checks \cap (Guards \cup Enters \cup Leaves) = {}
    /\ Guards \cap (Enters \cup Leaves) = {} /\ Enters \cap Leaves = {}
    /\ \A op \in {"register", "slot", "receive", "answer", "respond"} :
          Do(op) \notin Checks \cup Guards \cup Enters \cup Leaves
    /\ \A k, l : Check(k) = Check(l) \/ Enter(k) = Enter(l) \/ Leave(k) = Leave(l) => k = l
    /\ \A op, op2 : Do(op) = Do(op2) => op = op2
    /\ Do("respond") \notin Opening \cup Talking
    /\ \A k \in Identity : Check(k) \in Checks /\ Guard(k) \in Guards
    /\ \A k \in {"ip", "user"} : Enter(k) \in Enters /\ Leave(k) \in Leaves
<1> USE DEF Check, Guard, Enter, Leave, Do, Checks, Guards, Enters, Leaves, Opening, Talking
<1>1. Opening \cap Talking = {}
  OBVIOUS
<1>2. Checks \cap (Guards \cup Enters \cup Leaves) = {}
  OBVIOUS
<1>3. Guards \cap (Enters \cup Leaves) = {} /\ Enters \cap Leaves = {}
  OBVIOUS
<1>4. \A op \in {"register", "slot", "receive", "answer", "respond"} :
          Do(op) \notin Checks \cup Guards \cup Enters \cup Leaves
  OBVIOUS
<1>5. \A k, l : Check(k) = Check(l) \/ Enter(k) = Enter(l) \/ Leave(k) = Leave(l) => k = l
  OBVIOUS
<1>6. \A op, op2 : Do(op) = Do(op2) => op = op2
  OBVIOUS
<1>7. Do("respond") \notin Opening \cup Talking
  OBVIOUS
<1>8. \A k \in Identity : Check(k) \in Checks /\ Guard(k) \in Guards
  OBVIOUS
<1>9. \A k \in {"ip", "user"} : Enter(k) \in Enters /\ Leave(k) \in Leaves
  OBVIOUS
<1> HIDE DEF Check, Guard, Enter, Leave, Do, Checks, Guards, Enters, Leaves, Opening, Talking
<1> QED
  BY <1>1, <1>2, <1>3, <1>4, <1>5, <1>6, <1>7, <1>8, <1>9

\* One step is done.
LEMMA ShapedTail ==
    ASSUME NEW s \in Seq(Step), s # <<>>, NEW kind, Shaped(kind, s)
    PROVE  /\ Shaped(kind, Tail(s))
           /\ Head(s) \in {Do("respond"), Do("register")} => Tail(s) = <<>>
           /\ Head(s) \in Enters => Range(Tail(s)) \cap Checks = {}
           /\ Head(s) \in Leaves /\ Tail(s) # <<>> =>
                 Head(s) = Leave("ip") /\ Head(Tail(s)) = Leave("user")
           /\ Head(s) # Do("slot") /\ Tail(s) # <<>> => Head(Tail(s)) # Do("receive")
           /\ Head(s) # Leave("ip") /\ Tail(s) # <<>> => Head(Tail(s)) # Leave("user")
           /\ kind = "chat" /\ Head(s) \notin {Do("register"), Do("receive"), Leave("user")} =>
                 Tail(s) # <<>>
<1> DEFINE t == Tail(s)
<1>1. /\ Head(s) = s[1] /\ Head(s) \in Step /\ Head(s) \in Range(s)
      /\ t \in Seq(Step) /\ Len(t) = Len(s) - 1 /\ Len(s) \in Nat \ {0}
      /\ DOMAIN s = 1 .. Len(s) /\ DOMAIN t = 1 .. Len(s) - 1
      /\ \A i \in DOMAIN t : t[i] = s[i + 1] /\ i + 1 \in DOMAIN s
      /\ \A i \in DOMAIN s : i = 1 \/ (i - 1 \in DOMAIN t /\ s[i] = t[i - 1])
      /\ Range(s) = {Head(s)} \cup Range(t)
  BY TailFacts
<1>2. t # <<>> => Head(t) = t[1] /\ 1 \in DOMAIN t /\ Len(t) \in DOMAIN t /\ 2 \in DOMAIN s
        /\ t[1] = s[2] /\ t[Len(t)] = s[Len(s)]
  <2>1. t # <<>> => Head(t) = t[1] /\ Len(t) \in Nat \ {0}
    BY <1>1
  <2> HIDE DEF t
  <2> QED
    BY <1>1, <2>1
<1> HIDE DEF t
<1>3. Ordered(t)
  <2>1. ASSUME NEW i \in DOMAIN t, NEW j \in DOMAIN t, i < j
        PROVE  i + 1 \in DOMAIN s /\ j + 1 \in DOMAIN s /\ i + 1 < j + 1
               /\ t[i] = s[i + 1] /\ t[j] = s[j + 1]
    BY <1>1, <2>1
  <2> QED
    BY <2>1 DEF Shaped, Ordered
<1>4. Paired(t)
  <2>1. ASSUME NEW i \in DOMAIN t, i + 1 \in DOMAIN t
        PROVE  i + 1 \in DOMAIN s /\ (i + 1) + 1 \in DOMAIN s
               /\ t[i] = s[i + 1] /\ t[i + 1] = s[(i + 1) + 1]
    BY <1>1, <2>1
  <2> QED
    BY <2>1 DEF Shaped, Paired
<1>5. Kept(s) => Kept(t)
  BY <1>2 DEF Kept
<1>6. Shaped(kind, t)
  BY <1>1, <1>3, <1>4, <1>5 DEF Shaped
<1>7. 1 \in DOMAIN s
  BY <1>1
<1>8. Head(s) \in {Do("respond"), Do("register")} => t = <<>>
  <2>1. \A i, j \in DOMAIN s : i < j => s[i] \notin {Do("respond"), Do("register")}
    BY DEF Shaped, Ordered
  <2>2. t # <<>> => 1 < 2
    OBVIOUS
  <2> QED
    BY <1>1, <1>2, <1>7, <2>1, <2>2
<1>9. Head(s) \in Enters => Range(t) \cap Checks = {}
  <2>1. \A i, j \in DOMAIN s : i < j => (s[i] \in Enters => s[j] \notin Checks)
    BY DEF Shaped, Ordered
  <2>2. \A i \in DOMAIN t : 1 < i + 1
    BY <1>1
  <2> QED
    BY <1>1, <1>7, <2>1, <2>2 DEF Range
<1>10. Head(s) \in Leaves /\ t # <<>> => Head(s) = Leave("ip") /\ Head(t) = Leave("user")
  <2>1. \A i, j \in DOMAIN s : i < j =>
           (s[i] \in Leaves => s[i] = Leave("ip") /\ s[j] = Leave("user"))
    BY DEF Shaped, Ordered
  <2>2. 1 < 2
    OBVIOUS
  <2> QED
    BY <1>1, <1>2, <1>7, <2>1, <2>2
<1>11. /\ Head(s) # Do("slot") /\ t # <<>> => Head(t) # Do("receive")
       /\ Head(s) # Leave("ip") /\ t # <<>> => Head(t) # Leave("user")
  <2>1. \A i \in DOMAIN s : i + 1 \in DOMAIN s =>
           /\ s[i + 1] = Do("receive") => s[i] = Do("slot")
           /\ s[i + 1] = Leave("user") => s[i] = Leave("ip")
    BY DEF Shaped, Paired
  <2>2. 1 + 1 = 2
    OBVIOUS
  <2> QED
    BY <1>1, <1>2, <1>7, <2>1, <2>2
<1>12. kind = "chat" /\ Head(s) \notin {Do("register"), Do("receive"), Leave("user")} => t # <<>>
  <2>1. t = <<>> => Len(s) = 1
    BY <1>1
  <2> QED
    BY <1>1, <2>1 DEF Shaped, Kept
<1> QED
  BY <1>6, <1>8, <1>9, <1>10, <1>11, <1>12 DEF t

\* The plans, one by one.
Planned(kind, s) == s \in Seq(Step) /\ s # <<>> /\ Shaped(kind, s)

\* The plans a chat continues with.
LEMMA Chats ==
    \A s \in {Loop, TooLarge, Input, Finally} :
        /\ Planned("chat", s) /\ Range(s) \subseteq Talking
        /\ Head(s) # Do("receive") /\ Head(s) # Leave("user")
<1>1. {Leave("ip"), Leave("user"), Guard("ip"), Guard("user"), Guard("token"), Do("answer"),
       Do("slot"), Do("receive")} \subseteq Talking
      /\ Talking \subseteq Step
  BY DEF Talking, Leaves, Guards, Do, Guard, Leave, Step, Identity
<1>2. /\ Loop \in Seq(Step) /\ Len(Loop) = 2 /\ Loop[1] = Do("slot") /\ Loop[2] = Do("receive")
  BY <1>1 DEF Loop
<1>3. /\ Finally \in Seq(Step) /\ Len(Finally) = 2
      /\ Finally[1] = Leave("ip") /\ Finally[2] = Leave("user")
  BY <1>1 DEF Finally
<1>4. /\ TooLarge \in Seq(Step) /\ Len(TooLarge) = 5
      /\ TooLarge[1] = Guard("ip") /\ TooLarge[2] = Guard("user") /\ TooLarge[3] = Guard("token")
      /\ TooLarge[4] = Leave("ip") /\ TooLarge[5] = Leave("user")
  BY <1>1 DEF TooLarge, Finally
<1>5. /\ Input \in Seq(Step) /\ Len(Input) = 6
      /\ Input[1] = Guard("ip") /\ Input[2] = Guard("user") /\ Input[3] = Guard("token")
      /\ Input[4] = Do("answer") /\ Input[5] = Do("slot") /\ Input[6] = Do("receive")
  BY <1>1 DEF Input, Loop
<1>6. ASSUME NEW s \in Seq(Step), Len(s) > 0, Ordered(s), Paired(s), Range(s) \subseteq Talking,
             s[Len(s)] \in {Do("receive"), Leave("user")}
      PROVE  Shaped("chat", s)
  BY <1>6 DEF Shaped, Kept
<1>7. /\ Talking \cap Enters = {} /\ Talking \cap Checks = {}
      /\ Do("respond") \notin Talking /\ Do("register") \notin Talking
      /\ \A k : Guard(k) \notin Leaves /\ Guard(k) # Do("receive")
      /\ \A op : Do(op) \notin Leaves /\ Do(op) # Leave("user")
      /\ \A k : Guard(k) # Leave("user")
      /\ Leave("ip") # Do("receive") /\ Leave("user") # Do("receive") /\ Leave("ip") # Leave("user")
      /\ Do("slot") # Do("receive") /\ Do("answer") # Do("receive")
  BY DEF Talking, Leaves, Guards, Enters, Checks, Enter, Check, Guard, Leave, Do
<1>8. Shaped("chat", Loop) /\ Range(Loop) \subseteq Talking
  <2>1. Range(Loop) \subseteq Talking
    BY <1>1, <1>2 DEF Range
  <2>2. Ordered(Loop) /\ Paired(Loop)
    BY <1>1, <1>2, <1>7 DEF Ordered, Paired
  <2>3. Len(Loop) > 0 /\ Loop[Len(Loop)] = Do("receive")
    BY <1>2
  <2> QED
    BY <1>2, <1>6, <2>1, <2>2, <2>3
<1>9. Shaped("chat", Finally) /\ Range(Finally) \subseteq Talking
  <2>1. Range(Finally) \subseteq Talking
    BY <1>1, <1>3 DEF Range
  <2>2. Ordered(Finally) /\ Paired(Finally)
    BY <1>1, <1>3, <1>7 DEF Ordered, Paired
  <2>3. Len(Finally) > 0 /\ Finally[Len(Finally)] = Leave("user")
    BY <1>3
  <2> QED
    BY <1>3, <1>6, <2>1, <2>2, <2>3
<1>10. Shaped("chat", TooLarge) /\ Range(TooLarge) \subseteq Talking
  <2>1. Range(TooLarge) \subseteq Talking
    BY <1>1, <1>4 DEF Range
  <2>2. Ordered(TooLarge) /\ Paired(TooLarge)
    BY <1>1, <1>4, <1>7 DEF Ordered, Paired
  <2>3. Len(TooLarge) > 0 /\ TooLarge[Len(TooLarge)] = Leave("user")
    BY <1>4
  <2> QED
    BY <1>4, <1>6, <2>1, <2>2, <2>3
<1>11. Shaped("chat", Input) /\ Range(Input) \subseteq Talking
  <2>1. Range(Input) \subseteq Talking
    BY <1>1, <1>5 DEF Range
  <2>2. Ordered(Input) /\ Paired(Input)
    BY <1>1, <1>5, <1>7 DEF Ordered, Paired
  <2>3. Len(Input) > 0 /\ Input[Len(Input)] = Do("receive")
    BY <1>5
  <2> QED
    BY <1>5, <1>6, <2>1, <2>2, <2>3
<1>12. \A s \in Seq(Step) : Len(s) > 0 => s # <<>> /\ Head(s) = s[1]
  OBVIOUS
<1>13. Guard("ip") # Do("receive") /\ Guard("ip") # Leave("user") /\ Do("slot") # Leave("user")
  BY DEF Guard, Do, Leave
<1> QED
  BY <1>2, <1>3, <1>4, <1>5, <1>7, <1>8, <1>9, <1>10, <1>11, <1>12, <1>13 DEF Planned

\* The plan of each kind of request, as its dependencies, guards and handler have it.
LEMMA Plans ==
    ASSUME NEW kind \in Kinds, NEW scoped \in BOOLEAN,
           kind = "chat" => scoped, kind = "refresh" => ~scoped
    PROVE  LET s == PlanOf(kind, scoped)
           IN  /\ Planned(kind, s) /\ Head(s) = Check("ip")
               /\ \A k \in Carried(kind, scoped) : Check(k) \in Range(s)
               /\ kind = "chat" => \A k \in {"ip", "user"} : Enter(k) \in Range(s)
               /\ kind = "chat" => Do("register") \in Range(s)
<1>1. /\ {Check("ip"), Check("token"), Check("user")} \subseteq Checks
      /\ {Guard("ip"), Guard("token"), Guard("user")} \subseteq Guards
      /\ {Enter("ip"), Enter("user")} \subseteq Enters
      /\ Checks \cup Guards \cup Enters \cup {Do("respond"), Do("register")} \subseteq Step
  BY DEF Checks, Guards, Enters, Check, Guard, Enter, Do, Step, Identity
<1>2. /\ Checks \cup Guards \cup {Do("respond")} = Asking
      /\ Checks \cup Enters \cup {Do("register")} = Opening
  BY DEF Asking, Opening
<1>3. /\ (Checks \cup Guards \cup Enters) \cap (Leaves \cup {Do("respond"), Do("register"), Do("receive")}) = {}
      /\ Do("respond") # Do("receive") /\ Do("register") # Do("receive")
      /\ Leave("user") \in Leaves /\ \A op : Do(op) # Leave("user")
      /\ Checks \cap (Guards \cup Enters) = {} /\ Guards \cap Enters = {}
      /\ Do("respond") \notin Checks \cup Guards \cup Enters /\ Do("register") \notin Checks \cup Guards \cup Enters
  BY DEF Checks, Guards, Enters, Leaves, Check, Guard, Enter, Leave, Do
<1>4. ASSUME NEW s \in Seq(Step), Len(s) > 0, s[1] = Check("ip"),
             \A i, j \in DOMAIN s : i < j => /\ s[i] \in Checks \cup Guards \cup Enters
                                             /\ s[i] \notin Checks => s[j] \notin Checks,
             \A i \in DOMAIN s : s[i] # Do("receive") /\ s[i] # Leave("user")
      PROVE  s # <<>> /\ Head(s) = Check("ip") /\ Ordered(s) /\ Paired(s) /\ Len(s) \in DOMAIN s
  <2>1. s # <<>> /\ Head(s) = Check("ip") /\ Len(s) \in DOMAIN s
    BY <1>4
  <2>2. Ordered(s)
    BY <1>3, <1>4 DEF Ordered
  <2>3. Paired(s)
    BY <1>4 DEF Paired
  <2> QED
    BY <2>1, <2>2, <2>3
<1>5. CASE kind = "refresh" /\ scoped = FALSE
  <2> DEFINE s == PlanOf(kind, scoped)
  <2>1. /\ s \in Seq(Step) /\ Len(s) = 3
        /\ s[1] = Check("ip") /\ s[2] = Guard("ip")
        /\ s[3] = Do("respond")
    BY <1>1, <1>5 DEF PlanOf
  <2>2. Carried(kind, scoped) = {"ip"}
    BY <1>5 DEF Carried
  <2> HIDE DEF s
  <2>3. DOMAIN s = 1 .. 3
    BY <2>1
  <2>4. s # <<>> /\ Head(s) = Check("ip") /\ Ordered(s) /\ Paired(s)
    <3>1. \A i, j \in DOMAIN s : i < j => /\ s[i] \in Checks \cup Guards \cup Enters
                                          /\ s[i] \notin Checks => s[j] \notin Checks
      BY <1>1, <1>3, <2>1, <2>3
    <3>2. \A i \in DOMAIN s : s[i] # Do("receive") /\ s[i] # Leave("user")
      BY <1>1, <1>3, <2>1, <2>3
    <3> QED
      BY <1>4, <2>1, <3>1, <3>2
  <2>5. Range(s) = {Check("ip"), Guard("ip"), Do("respond")}
    BY <2>1, <2>3 DEF Range
  <2>6. Range(s) \subseteq Asking
    BY <1>1, <1>2, <2>5
  <2> QED
    BY <1>5, <2>1, <2>2, <2>4, <2>5, <2>6 DEF s, Planned, Shaped
<1>6. CASE kind \in {"access", "data"} /\ scoped = FALSE
  <2> DEFINE s == PlanOf(kind, scoped)
  <2>1. /\ s \in Seq(Step) /\ Len(s) = 3
        /\ s[1] = Check("ip") /\ s[2] = Check("token")
        /\ s[3] = Do("respond")
    BY <1>1, <1>6 DEF PlanOf, Dependencies
  <2>2. Carried(kind, scoped) = {"ip", "token"}
    BY <1>6 DEF Carried
  <2> HIDE DEF s
  <2>3. DOMAIN s = 1 .. 3
    BY <2>1
  <2>4. s # <<>> /\ Head(s) = Check("ip") /\ Ordered(s) /\ Paired(s)
    <3>1. \A i, j \in DOMAIN s : i < j => /\ s[i] \in Checks \cup Guards \cup Enters
                                          /\ s[i] \notin Checks => s[j] \notin Checks
      BY <1>1, <1>3, <2>1, <2>3
    <3>2. \A i \in DOMAIN s : s[i] # Do("receive") /\ s[i] # Leave("user")
      BY <1>1, <1>3, <2>1, <2>3
    <3> QED
      BY <1>4, <2>1, <3>1, <3>2
  <2>5. Range(s) = {Check("ip"), Check("token"), Do("respond")}
    BY <2>1, <2>3 DEF Range
  <2>6. Range(s) \subseteq Asking
    BY <1>1, <1>2, <2>5
  <2> QED
    BY <1>6, <2>1, <2>2, <2>4, <2>5, <2>6 DEF s, Planned, Shaped
<1>7. CASE kind = "access" /\ scoped = TRUE
  <2> DEFINE s == PlanOf(kind, scoped)
  <2>1. /\ s \in Seq(Step) /\ Len(s) = 5
        /\ s[1] = Check("ip") /\ s[2] = Check("token") /\ s[3] = Check("user")
        /\ s[4] = Guard("user") /\ s[5] = Do("respond")
    BY <1>1, <1>7 DEF PlanOf, Dependencies
  <2>2. Carried(kind, scoped) = {"ip", "token", "user"}
    BY <1>7 DEF Carried
  <2> HIDE DEF s
  <2>3. DOMAIN s = 1 .. 5
    BY <2>1
  <2>4. s # <<>> /\ Head(s) = Check("ip") /\ Ordered(s) /\ Paired(s)
    <3>1. \A i, j \in DOMAIN s : i < j => /\ s[i] \in Checks \cup Guards \cup Enters
                                          /\ s[i] \notin Checks => s[j] \notin Checks
      BY <1>1, <1>3, <2>1, <2>3
    <3>2. \A i \in DOMAIN s : s[i] # Do("receive") /\ s[i] # Leave("user")
      BY <1>1, <1>3, <2>1, <2>3
    <3> QED
      BY <1>4, <2>1, <3>1, <3>2
  <2>5. Range(s) = {Check("ip"), Check("token"), Check("user"), Guard("user"), Do("respond")}
    BY <2>1, <2>3 DEF Range
  <2>6. Range(s) \subseteq Asking
    BY <1>1, <1>2, <2>5
  <2> QED
    BY <1>7, <2>1, <2>2, <2>4, <2>5, <2>6 DEF s, Planned, Shaped
<1>8. CASE kind = "claim" /\ scoped = FALSE
  <2> DEFINE s == PlanOf(kind, scoped)
  <2>1. /\ s \in Seq(Step) /\ Len(s) = 6
        /\ s[1] = Check("ip") /\ s[2] = Check("token") /\ s[3] = Guard("ip")
        /\ s[4] = Guard("token") /\ s[5] = Guard("user") /\ s[6] = Do("respond")
    BY <1>1, <1>8 DEF PlanOf, Dependencies
  <2>2. Carried(kind, scoped) = {"ip", "token"}
    BY <1>8 DEF Carried
  <2> HIDE DEF s
  <2>3. DOMAIN s = 1 .. 6
    BY <2>1
  <2>4. s # <<>> /\ Head(s) = Check("ip") /\ Ordered(s) /\ Paired(s)
    <3>1. \A i, j \in DOMAIN s : i < j => /\ s[i] \in Checks \cup Guards \cup Enters
                                          /\ s[i] \notin Checks => s[j] \notin Checks
      BY <1>1, <1>3, <2>1, <2>3
    <3>2. \A i \in DOMAIN s : s[i] # Do("receive") /\ s[i] # Leave("user")
      BY <1>1, <1>3, <2>1, <2>3
    <3> QED
      BY <1>4, <2>1, <3>1, <3>2
  <2>5. Range(s) = {Check("ip"), Check("token"), Guard("ip"), Guard("token"), Guard("user"), Do("respond")}
    BY <2>1, <2>3 DEF Range
  <2>6. Range(s) \subseteq Asking
    BY <1>1, <1>2, <2>5
  <2> QED
    BY <1>8, <2>1, <2>2, <2>4, <2>5, <2>6 DEF s, Planned, Shaped
<1>9. CASE kind = "claim" /\ scoped = TRUE
  <2> DEFINE s == PlanOf(kind, scoped)
  <2>1. /\ s \in Seq(Step) /\ Len(s) = 7
        /\ s[1] = Check("ip") /\ s[2] = Check("token") /\ s[3] = Check("user") /\ s[4] = Guard("ip")
        /\ s[5] = Guard("token") /\ s[6] = Guard("user") /\ s[7] = Do("respond")
    BY <1>1, <1>9 DEF PlanOf, Dependencies
  <2>2. Carried(kind, scoped) = {"ip", "token", "user"}
    BY <1>9 DEF Carried
  <2> HIDE DEF s
  <2>3. DOMAIN s = 1 .. 7
    BY <2>1
  <2>4. s # <<>> /\ Head(s) = Check("ip") /\ Ordered(s) /\ Paired(s)
    <3>1. \A i, j \in DOMAIN s : i < j => /\ s[i] \in Checks \cup Guards \cup Enters
                                          /\ s[i] \notin Checks => s[j] \notin Checks
      BY <1>1, <1>3, <2>1, <2>3
    <3>2. \A i \in DOMAIN s : s[i] # Do("receive") /\ s[i] # Leave("user")
      BY <1>1, <1>3, <2>1, <2>3
    <3> QED
      BY <1>4, <2>1, <3>1, <3>2
  <2>5. Range(s) = {Check("ip"), Check("token"), Check("user"), Guard("ip"), Guard("token"), Guard("user"), Do("respond")}
    BY <2>1, <2>3 DEF Range
  <2>6. Range(s) \subseteq Asking
    BY <1>1, <1>2, <2>5
  <2> QED
    BY <1>9, <2>1, <2>2, <2>4, <2>5, <2>6 DEF s, Planned, Shaped
<1>10. CASE kind = "data" /\ scoped = TRUE
  <2> DEFINE s == PlanOf(kind, scoped)
  <2>1. /\ s \in Seq(Step) /\ Len(s) = 4
        /\ s[1] = Check("ip") /\ s[2] = Check("token")
        /\ s[3] = Check("user") /\ s[4] = Do("respond")
    BY <1>1, <1>10 DEF PlanOf, Dependencies
  <2>2. Carried(kind, scoped) = {"ip", "token", "user"}
    BY <1>10 DEF Carried
  <2> HIDE DEF s
  <2>3. DOMAIN s = 1 .. 4
    BY <2>1
  <2>4. s # <<>> /\ Head(s) = Check("ip") /\ Ordered(s) /\ Paired(s)
    <3>1. \A i, j \in DOMAIN s : i < j => /\ s[i] \in Checks \cup Guards \cup Enters
                                          /\ s[i] \notin Checks => s[j] \notin Checks
      BY <1>1, <1>3, <2>1, <2>3
    <3>2. \A i \in DOMAIN s : s[i] # Do("receive") /\ s[i] # Leave("user")
      BY <1>1, <1>3, <2>1, <2>3
    <3> QED
      BY <1>4, <2>1, <3>1, <3>2
  <2>5. Range(s) = {Check("ip"), Check("token"), Check("user"), Do("respond")}
    BY <2>1, <2>3 DEF Range
  <2>6. Range(s) \subseteq Asking
    BY <1>1, <1>2, <2>5
  <2> QED
    BY <1>10, <2>1, <2>2, <2>4, <2>5, <2>6 DEF s, Planned, Shaped
<1>11. CASE kind = "chat" /\ scoped = TRUE
  <2> DEFINE s == PlanOf(kind, scoped)
  <2>1. /\ s \in Seq(Step) /\ Len(s) = 6
        /\ s[1] = Check("ip") /\ s[2] = Check("token") /\ s[3] = Check("user")
        /\ s[4] = Enter("ip") /\ s[5] = Enter("user") /\ s[6] = Do("register")
    BY <1>1, <1>11 DEF PlanOf, Dependencies
  <2>2. Carried(kind, scoped) = {"ip", "token", "user"}
    BY <1>11 DEF Carried
  <2> HIDE DEF s
  <2>3. DOMAIN s = 1 .. 6
    BY <2>1
  <2>4. s # <<>> /\ Head(s) = Check("ip") /\ Ordered(s) /\ Paired(s)
    <3>1. \A i, j \in DOMAIN s : i < j => /\ s[i] \in Checks \cup Guards \cup Enters
                                          /\ s[i] \notin Checks => s[j] \notin Checks
      BY <1>1, <1>3, <2>1, <2>3
    <3>2. \A i \in DOMAIN s : s[i] # Do("receive") /\ s[i] # Leave("user")
      BY <1>1, <1>3, <2>1, <2>3
    <3> QED
      BY <1>4, <2>1, <3>1, <3>2
  <2>5. Range(s) = {Check("ip"), Check("token"), Check("user"), Enter("ip"), Enter("user"), Do("register")}
    BY <2>1, <2>3 DEF Range
  <2>6. Range(s) \subseteq Opening
    BY <1>1, <1>2, <2>5
  <2> QED
    BY <1>11, <2>1, <2>2, <2>4, <2>5, <2>6 DEF s, Planned, Shaped, Kept
<1> QED
  BY <1>5, <1>6, <1>7, <1>8, <1>9, <1>10, <1>11 DEF Kinds
-------------------------------------------------------------------------------
(***************************************************************************)
(* A request by itself, before and after each of its steps.                *)
(***************************************************************************)
RequestType(B) ==
    [kind : Kinds \cup {"none"}, todo : Seq(Step), connection : Connection \cup {NoConnection},
     barred : SUBSET B, uncounted : SUBSET {"ip", "user"}]

RequestOK(q, B) == q \in RequestType(B) /\ (q.kind = "none") = (q.todo = <<>>) /\ Regular(q)

\* A handler without a request.
LEMMA NoneOK == \A B : RequestOK(None, B)
<1>1. /\ None.kind = "none" /\ None.todo = <<>> /\ None.connection = NoConnection
      /\ None.barred = {} /\ \A B : None \in RequestType(B)
  BY DEF None, RequestType
<1>2. Range(<<>>) = {} /\ DOMAIN <<>> = {}
  BY DEF Range
<1>3. Shaped("none", <<>>)
  BY <1>2 DEF Shaped, Ordered, Paired
<1> QED
  BY <1>1, <1>2, <1>3 DEF RequestOK, Regular

\* A request in the loop of its chat carries no block and has a connection.
LEMMA InLoop ==
    ASSUME NEW B, NEW q, RequestOK(q, B), Range(q.todo) \subseteq Talking, q.kind = "chat"
    PROVE  q.barred = {} /\ q.connection # NoConnection
<1>1. Talking \cap Checks = {} /\ Talking \cap Enters = {} /\ \A k \in Identity : Check(k) \in Checks
  BY DEF Talking, Checks, Enters, Guards, Leaves, Check, Enter, Guard, Leave, Do
<1>2. ASSUME NEW k \in q.barred
      PROVE  FALSE
  <2>1. Check(k) \in Range(q.todo)
    BY DEF RequestOK, Regular
  <2>2. Check(k) \notin Talking
    BY DEF Talking, Guards, Leaves, Check, Guard, Leave, Do
  <2> QED
    BY <2>1, <2>2
<1> QED
  BY <1>1, <1>2 DEF RequestOK, Regular

\* An open chat is in its loop.
LEMMA ChattingIsInLoop ==
    ASSUME NEW B, NEW r, RequestOK(request[r], B)
    PROVE  Chatting(r) <=> /\ request[r].kind = "chat" /\ Range(request[r].todo) \subseteq Talking
                           /\ Head(request[r].todo) \notin Leaves
<1> DEFINE q == request[r]
<1>1. Chatting(r) <=> /\ q.kind = "chat" /\ Do("register") \notin Range(q.todo)
                      /\ Head(q.todo) \notin Leaves
  BY DEF Chatting, Leaves
<1> HIDE DEF q
<1>2. Do("register") \notin Talking
  BY DEF Talking, Guards, Leaves, Guard, Leave, Do
<1>3. ASSUME q.kind = "chat", Do("register") \notin Range(q.todo)
      PROVE  Range(q.todo) \subseteq Talking
  <2>1. q.todo \in Seq(Step) /\ q.todo # <<>> /\ Shaped("chat", q.todo)
    BY <1>3 DEF RequestOK, RequestType, Regular, q
  <2>2. Len(q.todo) \in DOMAIN q.todo
    BY <2>1, RangeEmpty
  <2>3. q.todo[Len(q.todo)] \in Range(q.todo)
    BY <2>2 DEF Range
  <2>4. q.todo[Len(q.todo)] \in {Do("receive"), Leave("user")}
    BY <1>3, <2>1, <2>3 DEF Shaped, Kept
  <2>5. Do("receive") \notin Opening /\ Leave("user") \notin Opening
    BY DEF Opening, Checks, Enters, Check, Enter, Leave, Do
  <2> QED
    BY <2>1, <2>3, <2>4, <2>5 DEF Shaped
<1> QED
  BY <1>1, <1>2, <1>3 DEF q

\* The loop goes on, or the chat ends, whatever it was about.
LEMMA TalkOK ==
    ASSUME NEW B, NEW q \in RequestType(B), q.kind = "chat", q.barred = {},
           q.connection # NoConnection, NEW s \in {Loop, TooLarge, Input, Finally}
    PROVE  RequestOK([q EXCEPT !.todo = s], B)
<1> DEFINE p == [q EXCEPT !.todo = s]
<1>1. Planned("chat", s) /\ Range(s) \subseteq Talking
  BY Chats
<1>2. s \in Seq(Step) /\ s # <<>> /\ Shaped("chat", s)
  BY <1>1 DEF Planned
<1>3. /\ p \in RequestType(B) /\ p.kind = "chat" /\ p.todo = s /\ p.barred = {}
      /\ p.connection # NoConnection
  BY <1>2 DEF RequestType
<1>4. Talking \cap Checks = {}
  BY DEF Talking, Checks, Guards, Leaves, Check, Guard, Leave, Do
<1> HIDE DEF p
<1>5. Regular(p)
  BY <1>1, <1>2, <1>3, <1>4 DEF Regular
<1>6. RequestOK(p, B)
  BY <1>2, <1>3, <1>5 DEF RequestOK
<1> QED
  BY <1>6 DEF p

\* A step other than Enter and Register is done, and is not the last.
LEMMA AdvanceOK ==
    ASSUME NEW B, NEW q, RequestOK(q, B), q.todo # <<>>, Tail(q.todo) # <<>>,
           Head(q.todo) \notin Enters, \A k \in q.barred : Head(q.todo) # Check(k)
    PROVE  RequestOK([q EXCEPT !.todo = Tail(@)], B)
<1> DEFINE p == [q EXCEPT !.todo = Tail(@)]
           s == q.todo
           t == Tail(q.todo)
<1>1. s \in Seq(Step) /\ s # <<>> /\ Shaped(q.kind, s)
  BY DEF RequestOK, RequestType, Regular
<1>2. t \in Seq(Step) /\ Range(s) = {Head(s)} \cup Range(t)
  BY <1>1, TailFacts
<1>3. Shaped(q.kind, t)
  BY <1>1, ShapedTail
<1>4. /\ p \in RequestType(B) /\ p.kind = q.kind /\ p.todo = t /\ p.barred = q.barred
      /\ p.connection = q.connection /\ t # <<>> /\ q.kind # "none"
  BY <1>2 DEF RequestType, RequestOK
<1>5. /\ \A k \in q.barred : Check(k) \in Range(s) /\ Check(k) # Head(s)
      /\ Head(s) \notin Enters /\ Regular(q)
  BY DEF RequestOK, Regular
<1> HIDE DEF p, s, t
<1>6. /\ \A k \in q.barred : Check(k) \in Range(t)
      /\ q.kind # "chat" => q.connection = NoConnection
      /\ q.kind = "chat" /\ q.connection = NoConnection => Range(t) \cap Enters # {}
      /\ Range(t) \cap Checks # {} => q.connection = NoConnection
  <2>1. /\ q.kind # "chat" => q.connection = NoConnection
        /\ q.kind = "chat" /\ q.connection = NoConnection => Range(s) \cap Enters # {}
        /\ Range(s) \cap Checks # {} => q.connection = NoConnection
    BY <1>5 DEF Regular, s
  <2> QED
    BY <1>2, <1>5, <2>1
<1>7. Regular(p)
  BY <1>3, <1>4, <1>6 DEF Regular
<1>8. RequestOK(p, B)
  BY <1>4, <1>7 DEF RequestOK
<1> QED
  BY <1>8 DEF p

\* The connection is counted.
LEMMA EnterOK ==
    ASSUME NEW B, NEW q, RequestOK(q, B), q.todo # <<>>, Head(q.todo) \in Enters,
           NEW c \in Connection
    PROVE  /\ RequestOK([q EXCEPT !.connection = c, !.todo = Tail(@)], B)
           /\ q.kind = "chat" /\ Tail(q.todo) # <<>>
<1> DEFINE p == [q EXCEPT !.connection = c, !.todo = Tail(@)]
           s == q.todo
           t == Tail(q.todo)
<1>1. s \in Seq(Step) /\ s # <<>> /\ Shaped(q.kind, s)
  BY DEF RequestOK, RequestType, Regular
<1>2. t \in Seq(Step) /\ Range(s) = {Head(s)} \cup Range(t)
  BY <1>1, TailFacts
<1>3. /\ Enters \cap Asking = {} /\ Enters \cap Talking = {} /\ Enters \cap Checks = {}
      /\ Enters \cap {Do("register"), Do("receive"), Leave("user")} = {}
  BY DEF Enters, Asking, Talking, Checks, Guards, Leaves, Enter, Check, Guard, Leave, Do
<1>4. q.kind = "chat"
  BY <1>1, <1>2, <1>3 DEF Shaped
<1>5. Shaped("chat", t) /\ t # <<>> /\ Range(t) \cap Checks = {}
  BY <1>1, <1>3, <1>4, ShapedTail
<1>6. /\ p \in RequestType(B) /\ p.kind = "chat" /\ p.todo = t /\ p.barred = q.barred
      /\ p.connection = c /\ c # NoConnection
  BY <1>2, <1>4, RequestsAssumption DEF RequestType, RequestOK
<1>7. q.barred = {}
  <2>1. ASSUME NEW k \in q.barred
        PROVE  FALSE
    <3>1. k \in Identity => Check(k) \in Checks
      BY DEF Checks
    <3>2. Check(k) \in Range(s)
      BY DEF RequestOK, Regular
    <3>3. Check(k) \in Range(t)
      BY <1>2, <3>2 DEF Enters, Enter, Check
    <3>4. Check(k) \in Checks
      <4>1. Check(k) \in Opening \cup Talking
        BY <1>1, <1>4, <3>2 DEF Shaped
      <4> QED
        BY <4>1 DEF Opening, Talking, Checks, Guards, Enters, Leaves, Check, Enter, Guard, Leave, Do
    <3> QED
      BY <1>5, <3>3, <3>4
  <2> QED
    BY <2>1
<1> HIDE DEF p, s, t
<1>8. Regular(p)
  BY <1>5, <1>6, <1>7 DEF Regular
<1>9. RequestOK(p, B)
  BY <1>5, <1>6, <1>8 DEF RequestOK
<1> QED
  BY <1>4, <1>5, <1>9 DEF p, t

\* A chat that registers goes on with its loop.
LEMMA RegisterOK ==
    ASSUME NEW B, NEW q, RequestOK(q, B), q.todo # <<>>, Head(q.todo) = Do("register")
    PROVE  /\ q.kind = "chat" /\ q.barred = {} /\ q.connection # NoConnection
           /\ RequestOK([q EXCEPT !.todo = Loop, !.barred = {}], B)
<1> DEFINE s == q.todo
<1>1. s \in Seq(Step) /\ s # <<>> /\ Shaped(q.kind, s) /\ q \in RequestType(B)
  BY DEF RequestOK, RequestType, Regular
<1>2. Range(s) = {Do("register")}
  <2>1. Tail(s) = <<>>
    BY <1>1, ShapedTail
  <2>2. Range(<<>>) = {}
    BY DEF Range
  <2> QED
    BY <1>1, <2>1, <2>2, TailFacts
<1> HIDE DEF s
<1>3. /\ Do("register") \notin Asking /\ Do("register") \notin Enters
      /\ \A k : Check(k) # Do("register")
  BY DEF Asking, Checks, Guards, Enters, Check, Guard, Enter, Do
<1>4. /\ q.kind = "chat" /\ q.connection # NoConnection
  BY <1>1, <1>2, <1>3 DEF Shaped, RequestOK, Regular, s
<1>5. q.barred = {}
  BY <1>2, <1>3 DEF RequestOK, Regular, s
<1>6. [q EXCEPT !.todo = Loop, !.barred = {}] = [q EXCEPT !.todo = Loop]
  BY <1>1, <1>5 DEF RequestType
<1>7. RequestOK([q EXCEPT !.todo = Loop], B)
  BY <1>1, <1>4, <1>5, TalkOK
<1> QED
  BY <1>4, <1>5, <1>6, <1>7

\* A request that comes has all of its plan to make.
LEMMA ArriveOK ==
    ASSUME NEW B \in SUBSET Identity, NEW kind \in Kinds, NEW scoped \in BOOLEAN,
           kind = "chat" => scoped, kind = "refresh" => ~scoped
    PROVE  RequestOK([None EXCEPT !.kind = kind, !.todo = PlanOf(kind, scoped),
                                  !.barred = B \cap Carried(kind, scoped)], B)
<1> DEFINE s == PlanOf(kind, scoped)
           p == [None EXCEPT !.kind = kind, !.todo = s, !.barred = B \cap Carried(kind, scoped)]
<1>1. /\ s \in Seq(Step) /\ s # <<>> /\ Shaped(kind, s)
      /\ \A k \in Carried(kind, scoped) : Check(k) \in Range(s)
      /\ kind = "chat" => Enter("ip") \in Range(s)
  BY Plans DEF Planned
<1> HIDE DEF s
<1>2. /\ p \in RequestType(B) /\ p.kind = kind /\ p.todo = s /\ p.connection = NoConnection
      /\ p.barred \subseteq Carried(kind, scoped) /\ kind # "none"
  BY <1>1 DEF None, RequestType, Kinds
<1>3. Enter("ip") \in Enters
  BY DEF Enters
<1> HIDE DEF p
<1>4. RequestOK(p, B)
  BY <1>1, <1>2, <1>3 DEF RequestOK, Regular
<1> QED
  BY <1>4 DEF p, s

\* Blocks of other identities disturb no request.
LEMMA MoreBlocked ==
    ASSUME NEW B, NEW B2, B \subseteq B2, NEW q, RequestOK(q, B)
    PROVE  RequestOK(q, B2)
  BY DEF RequestOK, RequestType
-------------------------------------------------------------------------------
(***************************************************************************)
(* Types, and what is left of each request.                                *)
(***************************************************************************)
AllOK == request \in [Request -> RequestType(blocked)] /\ \A r \in Request : RequestOK(request[r], blocked)

\* r becomes another request, or none.
Becomes(r) ==
    /\ blocked \subseteq blocked' /\ blocked' \subseteq Identity
    /\ \E q : request' = [request EXCEPT ![r] = q] /\ RequestOK(q, blocked')

\* One request takes a step, the others none.
LEMMA BecomesOK ==
    ASSUME AllOK, NEW r \in Request, Becomes(r)
    PROVE  AllOK'
<1>1. PICK q : request' = [request EXCEPT ![r] = q] /\ RequestOK(q, blocked')
  BY DEF Becomes
<1>2. \A p \in Request : RequestOK(request[p], blocked')
  BY MoreBlocked DEF AllOK, Becomes
<1>3. \A p \in Request : request'[p] = IF p = r THEN q ELSE request[p]
  BY <1>1 DEF AllOK
<1>4. \A p \in Request : RequestOK(request'[p], blocked')
  BY <1>1, <1>2, <1>3
<1>5. request' \in [Request -> RequestType(blocked')]
  BY <1>1, <1>4 DEF AllOK, RequestOK
<1> QED
  BY <1>4, <1>5 DEF AllOK

\* A step that raises: a chat that was registered cleans up, any other request ends.
LEMMA Raising ==
    ASSUME AllOK, NEW r \in Request, Raise(r),
           blocked \subseteq blocked', blocked' \subseteq Identity
    PROVE  Becomes(r)
<1>1. RequestOK(request[r], blocked')
  BY MoreBlocked DEF AllOK
<1>2. CASE Chatting(r)
  <2>1. Finally # <<>>
    BY Chats DEF Planned
  <2>2. request' = [request EXCEPT ![r] = [request[r] EXCEPT !.todo = Finally]]
    BY <1>2, <2>1 DEF Raise, Proceed, Become
  <2>3. RequestOK([request[r] EXCEPT !.todo = Finally], blocked')
    <3>1. request[r].kind = "chat" /\ Range(request[r].todo) \subseteq Talking
      BY <1>1, <1>2, ChattingIsInLoop
    <3>2. request[r].barred = {} /\ request[r].connection # NoConnection
      BY <1>1, <3>1, InLoop
    <3> QED
      BY <1>1, <3>1, <3>2, TalkOK DEF RequestOK
  <2> QED
    BY <2>2, <2>3 DEF Becomes
<1>3. CASE ~ Chatting(r)
  <2>1. request' = [request EXCEPT ![r] = None]
    BY <1>3 DEF Raise, Proceed, Become
  <2> QED
    BY <2>1, NoneOK DEF Becomes
<1> QED
  BY <1>2, <1>3

\* A step that is done.
LEMMA Advancing ==
    ASSUME AllOK, NEW r \in Request, request[r].todo # <<>>, Advance(r),
           Head(request[r].todo) \notin Enters,
           \A k \in request[r].barred : Head(request[r].todo) # Check(k),
           blocked \subseteq blocked', blocked' \subseteq Identity
    PROVE  Becomes(r)
<1>1. RequestOK(request[r], blocked')
  BY MoreBlocked DEF AllOK
<1>2. CASE Tail(request[r].todo) = <<>>
  <2>1. request' = [request EXCEPT ![r] = None]
    BY <1>2 DEF Advance, Proceed, Become
  <2> QED
    BY <2>1, NoneOK DEF Becomes
<1>3. CASE Tail(request[r].todo) # <<>>
  <2>1. request' = [request EXCEPT ![r] = [request[r] EXCEPT !.todo = Tail(request[r].todo)]]
    BY <1>3 DEF Advance, Proceed, Become
  <2> QED
    BY <1>1, <1>3, <2>1, AdvanceOK DEF Becomes
<1> QED
  BY <1>2, <1>3

\* Every step of a request.
RequestStep(r) ==
    \/ \E kind \in Kinds, scoped \in BOOLEAN : Arrive(r, kind, scoped)
    \/ \E k \in Identity : CheckBlocked(r, k) \/ PassGuard(r, k)
    \/ \E k \in {"ip", "user"} : EnterConnection(r, k) \/ LeaveConnection(r, k)
    \/ Respond(r) \/ Fail(r) \/ Register(r) \/ TakeSlot(r) \/ Receive(r) \/ Answer(r)

\* Every step of a request leaves it a plan the code has.
LEMMA RequestSteps ==
    ASSUME AllOK, blocked \subseteq Identity, active \in [{"ip", "user"} -> SUBSET Connection],
           NEW r \in Request, RequestStep(r)
    PROVE  Becomes(r)
<1>1. RequestOK(request[r], blocked) /\ request[r] \in RequestType(blocked)
  BY DEF AllOK
<1>2. \A k \in Identity : Block(k) => blocked \subseteq blocked' /\ blocked' \subseteq Identity
  BY DEF Block
<1>3. /\ \A k, l : Guard(k) # Check(l) /\ Guard(k) \notin Enters
      /\ \A k, l : Leave(k) # Check(l) /\ Leave(k) \notin Enters
      /\ \A k, l : (Check(k) = Check(l) => k = l) /\ Check(k) \notin Enters
      /\ \A op \in {"slot", "receive", "answer", "respond"} :
            Do(op) \notin Enters /\ \A k : Do(op) # Check(k)
  BY DEF Enters, Check, Guard, Enter, Leave, Do
<1>4. ASSUME NEW kind \in Kinds, NEW scoped \in BOOLEAN, Arrive(r, kind, scoped)
      PROVE  Becomes(r)
  BY <1>4, ArriveOK DEF Arrive, Become, Becomes
<1>5. ASSUME NEW k \in Identity, CheckBlocked(r, k)
      PROVE  Becomes(r)
  <2>1. /\ request[r].todo # <<>> /\ Head(request[r].todo) = Check(k)
        /\ blocked \subseteq blocked' /\ blocked' \subseteq Identity
    BY <1>2, <1>5 DEF CheckBlocked, IsAt
  <2>2. CASE k \in blocked'
    BY <1>5, <2>1, <2>2, Raising DEF CheckBlocked
  <2>3. CASE k \notin blocked'
    <3>1. k \notin request[r].barred
      BY <1>1, <2>1, <2>3 DEF RequestType
    <3>2. Head(request[r].todo) \notin Enters /\ \A l \in request[r].barred : Head(request[r].todo) # Check(l)
      BY <1>3, <2>1, <3>1
    <3>3. Advance(r)
      BY <1>5, <2>3 DEF CheckBlocked
    <3> QED
      BY <2>1, <3>2, <3>3, Advancing
  <2> QED
    BY <2>2, <2>3
<1>6. ASSUME NEW k \in Identity, PassGuard(r, k)
      PROVE  Becomes(r)
  <2>1. /\ request[r].todo # <<>> /\ Head(request[r].todo) = Guard(k)
        /\ blocked \subseteq blocked' /\ blocked' \subseteq Identity
    BY <1>2, <1>6 DEF PassGuard, IsAt
  <2>2. CASE Advance(r)
    BY <1>3, <2>1, <2>2, Advancing
  <2>3. CASE Raise(r)
    BY <2>1, <2>3, Raising
  <2> QED
    BY <1>6, <2>2, <2>3 DEF PassGuard
<1>7. ASSUME NEW k \in {"ip", "user"}, EnterConnection(r, k)
      PROVE  Becomes(r)
  <2>1. PICK c \in ConnectionOf(r) :
          /\ IsAt(r, Enter(k))
          /\ \/ Raise(r) /\ Block(k)
             \/ /\ Become(r, [request[r] EXCEPT !.connection = c, !.todo = Tail(@)])
                /\ UNCHANGED blocked
    BY <1>7 DEF EnterConnection
  <2>2. c \in Connection
    BY <1>1 DEF ConnectionOf, Held, RequestType
  <2>3. request[r].todo # <<>> /\ Head(request[r].todo) = Enter(k) /\ Enter(k) \in Enters /\ k \in Identity
    BY <2>1 DEF IsAt, Enters, Identity
  <2>4. CASE Raise(r) /\ Block(k)
    BY <1>2, <2>3, <2>4, Raising
  <2>5. CASE /\ Become(r, [request[r] EXCEPT !.connection = c, !.todo = Tail(@)])
             /\ UNCHANGED blocked
    BY <1>1, <2>2, <2>3, <2>5, EnterOK DEF Become, Becomes
  <2> QED
    BY <2>1, <2>4, <2>5
<1>8. ASSUME NEW k \in {"ip", "user"}, LeaveConnection(r, k)
      PROVE  Becomes(r)
  BY <1>3, <1>8, Advancing DEF LeaveConnection, IsAt
<1>9. CASE Respond(r) \/ TakeSlot(r) \/ Answer(r)
  BY <1>3, <1>9, Advancing DEF Respond, TakeSlot, Answer, IsAt
<1>10. CASE Fail(r)
  BY <1>10, Raising DEF Fail
<1>11. CASE Register(r)
  BY <1>1, <1>11, RegisterOK DEF Register, IsAt, Become, Becomes
<1>12. CASE Receive(r)
  <2>1. PICK s \in {Loop, TooLarge, Input} : Proceed(r, s)
    BY <1>12 DEF Receive
  <2>2. s # <<>> /\ request' = [request EXCEPT ![r] = [request[r] EXCEPT !.todo = s]]
    BY <2>1, Chats DEF Planned, Proceed, Become
  <2>3. Do("receive") \notin Asking \cup Opening
    BY DEF Asking, Opening, Checks, Guards, Enters, Check, Guard, Enter, Do
  <2>4. Do("receive") \in Range(request[r].todo)
    BY <1>1, <1>12, TailFacts DEF Receive, IsAt, RequestType
  <2>5. request[r].kind = "chat" /\ Range(request[r].todo) \subseteq Talking
    BY <1>1, <2>3, <2>4 DEF RequestOK, Regular, Shaped
  <2>6. request[r].barred = {} /\ request[r].connection # NoConnection
    BY <1>1, <2>5, InLoop
  <2>7. RequestOK([request[r] EXCEPT !.todo = s], blocked)
    BY <1>1, <2>5, <2>6, TalkOK
  <2> QED
    BY <1>12, <2>2, <2>7 DEF Receive, Becomes
<1> QED
  BY <1>4, <1>5, <1>6, <1>7, <1>8, <1>9, <1>10, <1>11, <1>12 DEF RequestStep
-------------------------------------------------------------------------------
(***************************************************************************)
(* The process starts and stops in an order that suits whoever runs.       *)
(***************************************************************************)
PlanStep == {"start", "load", "stop"} \X Part

\* What a part uses is a part.
LEMMA UsesParts == \A part : Uses(part) \subseteq Part
  BY DEF Uses, Part, Clients, Observers, Pruners

\* The start-up starts every part once, after what it uses.
LEMMA StartupPlan ==
    /\ Startup \in Seq(PlanStep) /\ Len(Startup) = 14 /\ Once(Startup) /\ StartsAfter(Startup)
    /\ \A part \in Part : <<"start", part>> \in Range(Startup) /\ <<"stop", part>> \notin Range(Startup)
    /\ \A part \in Part : <<"load", part>> \in Range(Startup) <=> part \in Observers
<1>1. /\ Len(Startup) = 14
      /\ Startup[1] = <<"start", "mongodb">> /\ Startup[2] = <<"start", "qdrant">>
      /\ Startup[3] = <<"start", "openai">> /\ Startup[4] = <<"start", "registry">>
      /\ Startup[5] = <<"start", "bus">> /\ Startup[6] = <<"start", "forwarder">>
      /\ Startup[7] = <<"start", "ip">> /\ Startup[8] = <<"load", "ip">>
      /\ Startup[9] = <<"start", "token">> /\ Startup[10] = <<"load", "token">>
      /\ Startup[11] = <<"start", "user">> /\ Startup[12] = <<"load", "user">>
      /\ Startup[13] = <<"start", "limiter_store_pruner">>
      /\ Startup[14] = <<"start", "user_data_pruner">>
  BY DEF Startup
<1>2. Startup \in Seq(PlanStep)
  BY DEF Startup, PlanStep, Part, Observers, Pruners, Clients
<1>3. DOMAIN Startup = 1 .. 14
  BY <1>1, <1>2
<1>4. Once(Startup)
  BY <1>1, <1>3 DEF Once
<1>5. StartsAfter(Startup)
  BY <1>1, <1>3 DEF StartsAfter, Uses, Observers
<1>6. \A part \in Part : <<"start", part>> \in Range(Startup)
  BY <1>1, <1>3 DEF Range, Part, Observers, Pruners, Clients
<1>7. \A part \in Part : <<"stop", part>> \notin Range(Startup)
  BY <1>1, <1>3 DEF Range
<1>8. \A part \in Part : <<"load", part>> \in Range(Startup) <=> part \in Observers
  BY <1>1, <1>3 DEF Range, Observers
<1> QED
  BY <1>1, <1>2, <1>4, <1>5, <1>6, <1>7, <1>8

\* The shutdown stops every part once, before what it uses.
LEMMA ShutdownPlan ==
    /\ Shutdown \in Seq(PlanStep) /\ Len(Shutdown) = 11 /\ Once(Shutdown) /\ StopsBefore(Shutdown)
    /\ \A part \in Part : /\ <<"stop", part>> \in Range(Shutdown)
                          /\ <<"start", part>> \notin Range(Shutdown)
                          /\ <<"load", part>> \notin Range(Shutdown)
<1>1. /\ Len(Shutdown) = 11
      /\ Shutdown[1] = <<"stop", "limiter_store_pruner">>
      /\ Shutdown[2] = <<"stop", "user_data_pruner">>
      /\ Shutdown[3] = <<"stop", "ip">> /\ Shutdown[4] = <<"stop", "token">>
      /\ Shutdown[5] = <<"stop", "user">> /\ Shutdown[6] = <<"stop", "forwarder">>
      /\ Shutdown[7] = <<"stop", "bus">> /\ Shutdown[8] = <<"stop", "registry">>
      /\ Shutdown[9] = <<"stop", "openai">> /\ Shutdown[10] = <<"stop", "qdrant">>
      /\ Shutdown[11] = <<"stop", "mongodb">>
  BY DEF Shutdown
<1>2. Shutdown \in Seq(PlanStep)
  BY DEF Shutdown, PlanStep, Part, Observers, Pruners, Clients
<1>3. DOMAIN Shutdown = 1 .. 11
  BY <1>1, <1>2
<1>4. Once(Shutdown)
  BY <1>1, <1>3 DEF Once
<1>5. StopsBefore(Shutdown)
  BY <1>1, <1>3 DEF StopsBefore, Uses, Observers
<1>6. \A part \in Part : <<"stop", part>> \in Range(Shutdown)
  BY <1>1, <1>3 DEF Range, Part, Observers, Pruners, Clients
<1>7. \A part \in Part : <<"start", part>> \notin Range(Shutdown) /\ <<"load", part>> \notin Range(Shutdown)
  BY <1>1, <1>3 DEF Range
<1> QED
  BY <1>1, <1>2, <1>4, <1>5, <1>6, <1>7

\* One step of a plan is done.
LEMMA PlanTail ==
    ASSUME NEW s \in Seq(PlanStep), s # <<>>, Once(s)
    PROVE  /\ Tail(s) \in Seq(PlanStep) /\ Len(Tail(s)) <= Len(s)
           /\ Range(Tail(s)) = Range(s) \ {Head(s)} /\ Head(s) \in Range(s) /\ Once(Tail(s))
           /\ StartsAfter(s) => StartsAfter(Tail(s))
           /\ StopsBefore(s) => StopsBefore(Tail(s))
           /\ \A part, q : /\ StartsAfter(s) /\ Head(s) = <<"start", part>>
                           /\ <<"start", q>> \in Range(Tail(s))
                           => q \notin Uses(part)
           /\ \A part, q : /\ StopsBefore(s) /\ Head(s) = <<"stop", part>>
                           /\ <<"stop", q>> \in Range(Tail(s))
                           => part \notin Uses(q)
<1> DEFINE t == Tail(s)
<1>1. /\ Head(s) = s[1] /\ Head(s) \in Range(s) /\ t \in Seq(PlanStep)
      /\ Len(t) = Len(s) - 1 /\ Len(s) \in Nat \ {0}
      /\ DOMAIN s = 1 .. Len(s) /\ DOMAIN t = 1 .. Len(s) - 1
      /\ \A i \in DOMAIN t : t[i] = s[i + 1] /\ i + 1 \in DOMAIN s
      /\ Range(s) = {Head(s)} \cup Range(t)
  BY TailFacts
<1> HIDE DEF t
<1>2. 1 \in DOMAIN s /\ \A i \in DOMAIN t : i \in Nat /\ i > 0
  BY <1>1
<1>3. ASSUME NEW x \in Range(t)
      PROVE  \E i \in DOMAIN s : i > 1 /\ x = s[i]
  <2>1. PICK i \in DOMAIN t : x = t[i]
    BY DEF Range
  <2>2. i + 1 \in DOMAIN s /\ i + 1 > 1 /\ x = s[i + 1]
    BY <1>1, <1>2, <2>1
  <2> QED
    BY <2>2
<1>4. Head(s) \notin Range(t)
  BY <1>1, <1>2, <1>3 DEF Once
<1>5. Once(t)
  <2> SUFFICES ASSUME NEW i \in DOMAIN t, NEW j \in DOMAIN t, t[i] = t[j]
               PROVE  i = j
    BY DEF Once
  <2>1. i + 1 = j + 1
    BY <1>1 DEF Once
  <2> QED
    BY <1>2, <2>1
<1>6. StartsAfter(s) => StartsAfter(t)
  <2> SUFFICES ASSUME StartsAfter(s), NEW i \in DOMAIN t, NEW j \in DOMAIN t,
                      t[i][1] = "start", t[j][1] = "start", t[j][2] \in Uses(t[i][2])
               PROVE  j < i
    BY DEF StartsAfter
  <2>1. j + 1 < i + 1
    BY <1>1 DEF StartsAfter
  <2> QED
    BY <1>2, <2>1
<1>7. StopsBefore(s) => StopsBefore(t)
  <2> SUFFICES ASSUME StopsBefore(s), NEW i \in DOMAIN t, NEW j \in DOMAIN t,
                      t[i][1] = "stop", t[j][1] = "stop", t[j][2] \in Uses(t[i][2])
               PROVE  i < j
    BY DEF StopsBefore
  <2>1. i + 1 < j + 1
    BY <1>1 DEF StopsBefore
  <2> QED
    BY <1>2, <2>1
<1>8. ASSUME NEW part, NEW q, StartsAfter(s), Head(s) = <<"start", part>>,
             <<"start", q>> \in Range(t), q \in Uses(part)
      PROVE  FALSE
  <2>1. PICK i \in DOMAIN s : i > 1 /\ <<"start", q>> = s[i]
    BY <1>3, <1>8
  <2>2. s[i][1] = "start" /\ s[i][2] = q /\ s[1][1] = "start" /\ s[1][2] = part
    BY <1>1, <1>8, <2>1
  <2>3. i < 1
    BY <1>2, <1>8, <2>2 DEF StartsAfter
  <2> QED
    BY <1>1, <2>1, <2>3
<1>9. ASSUME NEW part, NEW q, StopsBefore(s), Head(s) = <<"stop", part>>,
             <<"stop", q>> \in Range(t), part \in Uses(q)
      PROVE  FALSE
  <2>1. PICK i \in DOMAIN s : i > 1 /\ <<"stop", q>> = s[i]
    BY <1>3, <1>9
  <2>2. s[i][1] = "stop" /\ s[i][2] = q /\ s[1][1] = "stop" /\ s[1][2] = part
    BY <1>1, <1>9, <2>1
  <2>3. i < 1
    BY <1>2, <1>9, <2>2 DEF StopsBefore
  <2> QED
    BY <1>1, <2>1, <2>3
<1>10. Range(t) = Range(s) \ {Head(s)} /\ Len(t) <= Len(s)
  BY <1>1, <1>4
<1> QED
  BY <1>1, <1>5, <1>6, <1>7, <1>8, <1>9, <1>10 DEF t

\* The requests do not matter to the process.
LifecycleStep ==
    \/ Startstop
    \/ BeginShutdown
    \/ Restart

\* A step of the process is no longer left to do.
LEMMA RestTail ==
    ASSUME LifecycleTypeOK, Staged, NEW op, NEW part, IsNext(op, part)
    PROVE  /\ plan \in Seq(PlanStep) /\ plan # <<>> /\ Head(plan) = <<op, part>>
           /\ phase \in {"starting", "stopping"}
           /\ <<op, part>> \in PlanStep /\ <<op, part>> \in Range(plan)
           /\ \A op2 : {q \in Part : <<op2, q>> \in Range(Tail(plan))}
                        = Rest(op2) \ (IF op2 = op THEN {part} ELSE {})
<1>1. plan \in Seq(PlanStep) /\ plan # <<>> /\ Head(plan) = <<op, part>> /\ Once(plan)
  BY DEF LifecycleTypeOK, PlanStep, IsNext, Staged
<1>2. phase \in {"starting", "stopping"}
  BY <1>1 DEF Staged, LifecycleTypeOK
<1>3. Range(Tail(plan)) = Range(plan) \ {Head(plan)} /\ Head(plan) \in Range(plan)
  BY <1>1, PlanTail
<1>4. <<op, part>> \in PlanStep
  BY <1>1
<1>5. ASSUME NEW op2
      PROVE  {q \in Part : <<op2, q>> \in Range(Tail(plan))}
                = Rest(op2) \ (IF op2 = op THEN {part} ELSE {})
  BY <1>1, <1>3 DEF Rest
<1> QED
  BY <1>1, <1>2, <1>3, <1>4, <1>5

\* A part that starts finds what it uses.
LEMMA StartOK ==
    ASSUME LifecycleTypeOK, Staged, NEW part \in Part, Start(part)
    PROVE  LifecycleTypeOK' /\ Staged'
<1>1. /\ plan \in Seq(PlanStep) /\ plan # <<>> /\ Head(plan) = <<"start", part>>
      /\ phase \in {"starting", "stopping"} /\ <<"start", part>> \in Range(plan)
      /\ \A op2 : {q \in Part : <<op2, q>> \in Range(Tail(plan))}
                        = Rest(op2) \ (IF op2 = "start" THEN {part} ELSE {})
  BY RestTail DEF Start
<1>2. phase = "starting" /\ phase' = phase /\ plan' = Tail(plan) /\ loaded' = loaded
  BY <1>1 DEF Staged, Rest, Start
<1>3. up' = up \cup {part} /\ tasks' = tasks \cup ({part} \cap Background)
  BY DEF Start
<1>4. /\ Rest("stop") = {} /\ StartsAfter(plan) /\ Once(plan)
      /\ up = Part \ Rest("start") /\ tasks = up \cap Background
      /\ loaded = Observers \ Rest("load") /\ Rest("load") \subseteq Observers
      /\ \A p \in tasks : Uses(p) \subseteq up
  BY <1>2 DEF Staged
<1>5. /\ plan' \in Seq(PlanStep) /\ Len(plan') <= Len(plan) /\ Once(plan') /\ StartsAfter(plan')
      /\ \A q : <<"start", q>> \in Range(plan') => q \notin Uses(part)
  BY <1>1, <1>2, <1>4, PlanTail
<1>6. /\ Rest("stop")' = {} /\ Rest("start")' = Rest("start") \ {part}
      /\ Rest("load")' = Rest("load")
  <2>1. /\ Rest("stop")' = {q \in Part : <<"stop", q>> \in Range(Tail(plan))}
        /\ Rest("start")' = {q \in Part : <<"start", q>> \in Range(Tail(plan))}
        /\ Rest("load")' = {q \in Part : <<"load", q>> \in Range(Tail(plan))}
    BY <1>2 DEF Rest
  <2>2. {q \in Part : <<"stop", q>> \in Range(Tail(plan))} = Rest("stop")
    BY <1>1
  <2>3. {q \in Part : <<"start", q>> \in Range(Tail(plan))} = Rest("start") \ {part}
    BY <1>1
  <2>4. {q \in Part : <<"load", q>> \in Range(Tail(plan))} = Rest("load")
    BY <1>1
  <2> QED
    BY <1>4, <2>1, <2>2, <2>3, <2>4
<1>7. up' = Part \ Rest("start")' /\ tasks' = up' \cap Background
  BY <1>3, <1>4, <1>6
<1>8. Uses(part) \subseteq up'
  BY <1>5, <1>7, UsesParts DEF Rest
<1>9. \A p \in tasks' : Uses(p) \subseteq up'
  BY <1>3, <1>4, <1>8
<1>10. LifecycleTypeOK'
  <2>1. Len(plan') <= Len(Startup)
    BY <1>1, <1>5, StartupPlan DEF LifecycleTypeOK
  <2> QED
    BY <1>2, <1>4, <1>5, <1>7, <2>1 DEF LifecycleTypeOK, PlanStep
<1>11. Staged'
  BY <1>2, <1>4, <1>5, <1>6, <1>7, <1>9 DEF Staged
<1> QED
  BY <1>10, <1>11

\* An observer loads its blocks after it has started.
LEMMA LoadOK ==
    ASSUME LifecycleTypeOK, Staged, NEW part \in Part, Load(part)
    PROVE  LifecycleTypeOK' /\ Staged'
<1>1. /\ plan \in Seq(PlanStep) /\ plan # <<>> /\ Head(plan) = <<"load", part>>
      /\ phase \in {"starting", "stopping"} /\ <<"load", part>> \in Range(plan)
      /\ \A op2 : {q \in Part : <<op2, q>> \in Range(Tail(plan))}
                        = Rest(op2) \ (IF op2 = "load" THEN {part} ELSE {})
  BY RestTail DEF Load
<1>2. phase = "starting" /\ phase' = phase /\ plan' = Tail(plan) /\ up' = up /\ tasks' = tasks
  BY <1>1 DEF Staged, Rest, Load
<1>3. loaded' = loaded \cup {part}
  BY DEF Load
<1>4. /\ Rest("stop") = {} /\ StartsAfter(plan) /\ Once(plan)
      /\ up = Part \ Rest("start") /\ tasks = up \cap Background
      /\ loaded = Observers \ Rest("load") /\ \A p \in tasks : Uses(p) \subseteq up
      /\ Rest("load") \subseteq Observers
  BY <1>2 DEF Staged
<1>5. /\ plan' \in Seq(PlanStep) /\ Len(plan') <= Len(plan) /\ Once(plan') /\ StartsAfter(plan')
  BY <1>1, <1>2, <1>4, PlanTail
<1>6. /\ Rest("stop")' = {} /\ Rest("start")' = Rest("start")
      /\ Rest("load")' = Rest("load") \ {part}
  <2>1. /\ Rest("stop")' = {q \in Part : <<"stop", q>> \in Range(Tail(plan))}
        /\ Rest("start")' = {q \in Part : <<"start", q>> \in Range(Tail(plan))}
        /\ Rest("load")' = {q \in Part : <<"load", q>> \in Range(Tail(plan))}
    BY <1>2 DEF Rest
  <2>2. {q \in Part : <<"stop", q>> \in Range(Tail(plan))} = Rest("stop")
    BY <1>1
  <2>3. {q \in Part : <<"start", q>> \in Range(Tail(plan))} = Rest("start")
    BY <1>1
  <2>4. {q \in Part : <<"load", q>> \in Range(Tail(plan))} = Rest("load") \ {part}
    BY <1>1
  <2> QED
    BY <1>4, <2>1, <2>2, <2>3, <2>4
<1>7. part \in Rest("load")
  BY <1>1 DEF Rest
<1>8. loaded' = Observers \ Rest("load")'
  BY <1>3, <1>4, <1>6, <1>7
<1>10. LifecycleTypeOK'
  <2>1. Len(plan') <= Len(Startup)
    BY <1>1, <1>5, StartupPlan DEF LifecycleTypeOK
  <2> QED
    BY <1>2, <1>5, <1>8, <2>1 DEF LifecycleTypeOK, PlanStep
<1>11. Staged'
  BY <1>2, <1>4, <1>5, <1>6, <1>8 DEF Staged
<1> QED
  BY <1>10, <1>11

\* A part that stops is used by no other.
LEMMA StopOK ==
    ASSUME LifecycleTypeOK, Staged, NEW part \in Part, Stop(part)
    PROVE  LifecycleTypeOK' /\ Staged'
<1>1. /\ plan \in Seq(PlanStep) /\ plan # <<>> /\ Head(plan) = <<"stop", part>>
      /\ phase \in {"starting", "stopping"} /\ <<"stop", part>> \in Range(plan)
      /\ \A op2 : {q \in Part : <<op2, q>> \in Range(Tail(plan))}
                        = Rest(op2) \ (IF op2 = "stop" THEN {part} ELSE {})
  BY RestTail DEF Stop
<1>2. phase = "stopping" /\ phase' = phase /\ plan' = Tail(plan)
  BY <1>1 DEF Staged, Rest, Stop
<1>3. up' = up \ {part} /\ tasks' = tasks \ {part} /\ loaded' = loaded \ {part}
  BY DEF Stop
<1>4. /\ Rest("start") = {} /\ Rest("load") = {} /\ StopsBefore(plan) /\ Once(plan)
      /\ up = Rest("stop") /\ tasks = up \cap Background
      /\ \A p \in tasks : Uses(p) \subseteq up
  BY <1>2 DEF Staged
<1>5. /\ plan' \in Seq(PlanStep) /\ Len(plan') <= Len(plan) /\ Once(plan') /\ StopsBefore(plan')
      /\ \A q : <<"stop", q>> \in Range(plan') => part \notin Uses(q)
  BY <1>1, <1>2, <1>4, PlanTail
<1>6. /\ Rest("start")' = {} /\ Rest("load")' = {} /\ Rest("stop")' = Rest("stop") \ {part}
  <2>1. /\ Rest("stop")' = {q \in Part : <<"stop", q>> \in Range(Tail(plan))}
        /\ Rest("start")' = {q \in Part : <<"start", q>> \in Range(Tail(plan))}
        /\ Rest("load")' = {q \in Part : <<"load", q>> \in Range(Tail(plan))}
    BY <1>2 DEF Rest
  <2>2. {q \in Part : <<"stop", q>> \in Range(Tail(plan))} = Rest("stop") \ {part}
    BY <1>1
  <2>3. {q \in Part : <<"start", q>> \in Range(Tail(plan))} = Rest("start")
    BY <1>1
  <2>4. {q \in Part : <<"load", q>> \in Range(Tail(plan))} = Rest("load")
    BY <1>1
  <2> QED
    BY <1>4, <2>1, <2>2, <2>3, <2>4
<1>7. up' = Rest("stop")' /\ tasks' = up' \cap Background
  BY <1>3, <1>4, <1>6
<1>8. \A p \in tasks' : part \notin Uses(p)
  BY <1>5, <1>7 DEF Rest
<1>9. \A p \in tasks' : Uses(p) \subseteq up'
  BY <1>3, <1>4, <1>8
<1>10. LifecycleTypeOK'
  <2>1. Len(plan') <= Len(Startup)
    BY <1>1, <1>5, StartupPlan DEF LifecycleTypeOK
  <2>2. up' \subseteq Part /\ loaded' \subseteq Observers
    BY <1>3 DEF LifecycleTypeOK
  <2> QED
    BY <1>2, <1>5, <1>7, <2>1, <2>2 DEF LifecycleTypeOK, PlanStep
<1>11. Staged'
  BY <1>2, <1>5, <1>6, <1>7, <1>9 DEF Staged
<1> QED
  BY <1>10, <1>11

\* A plan that is broken off, or done, or none.
LEMMA NoPlanOK ==
    ASSUME LifecycleTypeOK, Staged, plan' = <<>>, loaded' = loaded,
           phase' \in {"ended", "failed"}, up' \subseteq Part, tasks' \subseteq up' \cap Background,
           \A part \in tasks' : Uses(part) \subseteq up'
    PROVE  LifecycleTypeOK' /\ Staged'
<1>1. Len(<<>>) = 0 /\ <<>> \in Seq(PlanStep) /\ DOMAIN <<>> = {}
  OBVIOUS
<1>2. LifecycleTypeOK'
  BY <1>1, StartupPlan DEF LifecycleTypeOK, PlanStep
<1>3. Once(plan')
  BY <1>1 DEF Once
<1>4. Staged'
  BY <1>3 DEF Staged
<1> QED
  BY <1>2, <1>4

\* A start or a stop that raises ends the process.
LEMMA BreakOK ==
    ASSUME LifecycleTypeOK, Staged, NEW part \in Part, Break,
           \/ UNCHANGED <<up, tasks>>
           \/ up' = up \cup {part} /\ UNCHANGED tasks
           \/ up' = up \ {part} /\ tasks' = tasks \ {part} /\ part \in Pruners
    PROVE  LifecycleTypeOK' /\ Staged'
<1>1. plan' = <<>> /\ loaded' = loaded /\ phase' = "failed"
  BY DEF Break
<1>2. up' \subseteq Part /\ tasks' \subseteq up' \cap Background
  BY DEF LifecycleTypeOK
<1>3. \A p : part \in Pruners => part \notin Uses(p)
  BY DEF Pruners, Uses
<1>4. \A p \in tasks' : Uses(p) \subseteq up'
  BY <1>3 DEF Staged
<1> QED
  BY <1>1, <1>2, <1>4, NoPlanOK

\* Every step of the process.
LEMMA LifecycleSteps ==
    ASSUME LifecycleTypeOK, Staged, [LifecycleStep]_lifecycle
    PROVE  LifecycleTypeOK' /\ Staged'
<1>1. CASE \E part \in Part : Start(part) \/ Load(part) \/ Stop(part)
  BY <1>1, StartOK, LoadOK, StopOK
<1>2. ASSUME NEW part \in Part,
             ClientFails(part) \/ LoadFails(part) \/ CloseFails(part) \/ StopPrunerFails(part)
      PROVE  LifecycleTypeOK' /\ Staged'
  BY <1>2, BreakOK DEF ClientFails, LoadFails, CloseFails, StopPrunerFails
<1>3. CASE ConnectFails
  <2>1. "mongodb" \in Part
    BY DEF Part, Clients
  <2> QED
    BY <1>3, <2>1, BreakOK DEF ConnectFails
<1>4. CASE Serve
  <2>1. Rest("start") = {} /\ Rest("load") = {}
    BY <1>4 DEF Serve, Rest, Range
  <2>2. phase = "starting" /\ plan = <<>> /\ plan' = plan /\ phase' = "serving"
        /\ UNCHANGED <<up, tasks, loaded>>
    BY <1>4 DEF Serve
  <2>3. up = Part /\ tasks = Background /\ loaded = Observers
    BY <2>1, <2>2 DEF Staged, Part, Background
  <2>4. LifecycleTypeOK'
    BY <2>2 DEF LifecycleTypeOK
  <2>5. Staged'
    BY <2>2, <2>3 DEF Staged, Once
  <2> QED
    BY <2>4, <2>5
<1>5. CASE End
  BY <1>5, NoPlanOK DEF End, LifecycleTypeOK, Staged
<1>6. CASE BeginShutdown
  <2>1. phase = "serving" /\ plan' = Shutdown /\ phase' = "stopping"
        /\ UNCHANGED <<up, tasks, loaded>>
    BY <1>6 DEF BeginShutdown
  <2>2. up = Part /\ tasks = Background /\ loaded = Observers /\ tasks = up \cap Background
    BY <2>1 DEF Staged, Part, Background
  <2>3. Rest("start")' = {} /\ Rest("load")' = {} /\ Rest("stop")' = Part
    BY <2>1, ShutdownPlan DEF Rest
  <2>4. LifecycleTypeOK'
    BY <2>1, ShutdownPlan, StartupPlan DEF LifecycleTypeOK, PlanStep
  <2>5. Staged'
    BY <2>1, <2>2, <2>3, ShutdownPlan DEF Staged
  <2> QED
    BY <2>4, <2>5
<1>7. CASE Restart
  <2>1. /\ phase' = "starting" /\ plan' = Startup /\ up' = {} /\ tasks' = {} /\ loaded' = {}
    BY <1>7 DEF Restart
  <2>2. Rest("stop")' = {} /\ Rest("start")' = Part /\ Rest("load")' = Observers
    BY <2>1, StartupPlan DEF Rest, Part
  <2>3. LifecycleTypeOK'
    BY <2>1, StartupPlan DEF LifecycleTypeOK, PlanStep
  <2>4. Staged'
    BY <2>1, <2>2, StartupPlan DEF Staged
  <2> QED
    BY <2>3, <2>4
<1>8. CASE UNCHANGED lifecycle
  BY <1>8 DEF lifecycle, LifecycleTypeOK, Staged, Rest
<1> QED
  BY <1>1, <1>2, <1>3, <1>4, <1>5, <1>6, <1>7, <1>8 DEF LifecycleStep, Startstop

\* Before the process starts, nothing is up.
LEMMA LifecycleInitOK ==
    ASSUME LifecycleInit
    PROVE  LifecycleTypeOK /\ Staged
<1>1. Rest("stop") = {} /\ Rest("start") = Part /\ Rest("load") = Observers
  BY StartupPlan DEF Rest, Part, LifecycleInit
<1>2. LifecycleTypeOK
  BY StartupPlan DEF LifecycleTypeOK, PlanStep, LifecycleInit
<1>3. Staged
  BY <1>1, StartupPlan DEF Staged, LifecycleInit
<1> QED
  BY <1>2, <1>3
-------------------------------------------------------------------------------
(***************************************************************************)
(* Every step keeps the types and what is known of each request and of the *)
(* process.                                                                *)
(***************************************************************************)
Orderly == TypeOK /\ AllRegular /\ Staged /\ Quiet

\* What is not in a request.
CountersOK ==
    /\ blocked \subseteq Identity
    /\ active \in [{"ip", "user"} -> SUBSET Connection]
    /\ refused \subseteq Connection
    /\ level \in 0 .. MaxMessages
    /\ pruned \in BOOLEAN
    /\ excess \in 0 .. Limit + 1

\* The limits are numbers.
LEMMA LimitIsNat == Limit \in Nat /\ MaxMessages \in Nat /\ Cardinality(Request) \in Nat
  BY RequestsAssumption, FS_CardinalityType DEF Limit

\* Orderly, request by request.
LEMMA OrderlyIs ==
    TypeOK /\ AllRegular <=> LifecycleTypeOK /\ AllOK /\ CountersOK
<1>1. TypeOK <=> /\ LifecycleTypeOK /\ CountersOK
                 /\ request \in [Request -> RequestType(blocked)]
                 /\ \A r \in Request : (request[r].kind = "none") = (request[r].todo = <<>>)
  BY DEF TypeOK, CountersOK, RequestType
<1>2. AllOK <=> /\ request \in [Request -> RequestType(blocked)]
                /\ \A r \in Request : (request[r].kind = "none") = (request[r].todo = <<>>)
                /\ AllRegular
  BY DEF AllOK, RequestOK, AllRegular
<1> QED
  BY <1>1, <1>2

\* No step of a request is made by one that is not there, but to come.
LEMMA StepOfOne ==
    ASSUME NEW r \in Request, RequestStep(r), phase # "serving"
    PROVE  request[r] # None
<1>1. None.todo = <<>>
  BY DEF None
<1> QED
  BY <1>1 DEF RequestStep, Arrive, CheckBlocked, PassGuard, EnterConnection, LeaveConnection,
              Respond, Fail, Register, TakeSlot, Receive, Answer, IsAt

\* A step of a request keeps the types of what all of them share.
LEMMA RequestStepCounters ==
    ASSUME AllOK, CountersOK, NEW r \in Request, RequestStep(r)
    PROVE  CountersOK'
<1>1. MaxMessages \in Nat /\ Limit \in Nat
  BY LimitIsNat
<1>2. request[r].connection \in Connection \cup {NoConnection}
  BY DEF AllOK, RequestType
<1>3. Held(r) \subseteq Connection
  BY <1>2 DEF Held
<1>4. ConnectionOf(r) \subseteq Connection
  BY <1>3 DEF ConnectionOf
<1>5. blocked' \subseteq Identity
  <2>1. Becomes(r)
    BY RequestSteps DEF CountersOK
  <2> QED
    BY <2>1 DEF Becomes
<1>6. active' \in [{"ip", "user"} -> SUBSET Connection] /\ refused' \subseteq Connection
  <2>1. ASSUME NEW k \in {"ip", "user"}, EnterConnection(r, k)
        PROVE  active' \in [{"ip", "user"} -> SUBSET Connection] /\ refused' \subseteq Connection
    BY <1>4, <2>1 DEF EnterConnection, CountersOK
  <2>2. ASSUME NEW k \in {"ip", "user"}, LeaveConnection(r, k)
        PROVE  active' \in [{"ip", "user"} -> SUBSET Connection] /\ refused' \subseteq Connection
    BY <2>2 DEF LeaveConnection, CountersOK
  <2>3. CASE Fail(r)
    BY <1>3, <2>3 DEF Fail, CountersOK
  <2> QED
    BY <2>1, <2>2, <2>3 DEF CountersOK, RequestStep, Arrive, CheckBlocked, PassGuard, Respond,
                            Register, TakeSlot, Receive, Answer, connections
<1>7. level' \in 0 .. MaxMessages /\ pruned' \in BOOLEAN /\ excess' \in 0 .. Limit + 1
  <2>1. CASE TakeSlot(r)
    BY <1>1, <2>1 DEF TakeSlot, CountersOK
  <2>2. CASE Receive(r)
    BY <1>1, <2>2 DEF Receive, CountersOK
  <2> QED
    BY <2>1, <2>2 DEF CountersOK, RequestStep, Arrive, CheckBlocked, PassGuard, EnterConnection,
                      LeaveConnection, Respond, Fail, Register, Answer, limiters
<1> QED
  BY <1>5, <1>6, <1>7 DEF CountersOK

\* Blocks that end, connections that are forgotten.
LEMMA UnblockOK ==
    ASSUME AllOK, CountersOK, NEW k \in Identity, Unblock(k)
    PROVE  AllOK' /\ CountersOK'
<1>1. blocked' = blocked \ {k}
  BY DEF Unblock
<1>2. \A r \in Request : request'[r] = [request[r] EXCEPT !.barred = @ \ {k}]
  BY DEF Unblock
<1>3. ASSUME NEW r \in Request
      PROVE  RequestOK(request'[r], blocked')
  <2> DEFINE q == request[r]
  <2>1. RequestOK(q, blocked) /\ q \in RequestType(blocked) /\ Regular(q)
    BY DEF AllOK, RequestOK
  <2> HIDE DEF q
  <2> DEFINE p == [q EXCEPT !.barred = @ \ {k}]
  <2>2. /\ p \in RequestType(blocked \ {k}) /\ p.kind = q.kind /\ p.todo = q.todo
        /\ p.connection = q.connection /\ p.barred \subseteq q.barred
    BY <2>1 DEF RequestType
  <2> HIDE DEF p
  <2>3. Regular(p)
    BY <2>1, <2>2 DEF Regular
  <2>4. RequestOK(p, blocked \ {k})
    BY <2>1, <2>2, <2>3 DEF RequestOK
  <2> QED
    BY <1>1, <1>2, <2>4 DEF p, q
<1>4. request' \in [Request -> RequestType(blocked')]
  BY <1>3 DEF Unblock, RequestOK
<1>5. AllOK'
  BY <1>3, <1>4 DEF AllOK
<1>6. CountersOK'
  BY <1>1 DEF Unblock, CountersOK, connections, limiters
<1> QED
  BY <1>5, <1>6

\* A cleanup forgets connections, not requests.
LEMMA ForgetOK ==
    ASSUME AllOK, CountersOK, NEW k \in {"ip", "user"}, Forget(k)
    PROVE  AllOK' /\ CountersOK'
<1>1. blocked' = blocked
  BY DEF Forget
<1>2. \A r \in Request : request'[r] = IF request[r].connection \in active[k]
                                       THEN [request[r] EXCEPT !.uncounted = @ \cup {k}]
                                       ELSE request[r]
  BY DEF Forget
<1>3. ASSUME NEW r \in Request
      PROVE  RequestOK(request'[r], blocked')
  <2> DEFINE q == request[r]
  <2>1. RequestOK(q, blocked) /\ q \in RequestType(blocked) /\ Regular(q)
    BY DEF AllOK, RequestOK
  <2> HIDE DEF q
  <2> DEFINE p == [q EXCEPT !.uncounted = @ \cup {k}]
  <2>2. /\ p \in RequestType(blocked) /\ p.kind = q.kind /\ p.todo = q.todo
        /\ p.connection = q.connection /\ p.barred = q.barred
    BY <2>1 DEF RequestType
  <2> HIDE DEF p
  <2>3. Regular(p)
    BY <2>1, <2>2 DEF Regular
  <2>4. RequestOK(p, blocked)
    BY <2>1, <2>2, <2>3 DEF RequestOK
  <2> QED
    BY <1>1, <1>2, <2>1, <2>4 DEF p, q
<1>4. request' \in [Request -> RequestType(blocked')]
  BY <1>3 DEF Forget, RequestOK
<1>5. AllOK'
  BY <1>3, <1>4 DEF AllOK
<1>6. CountersOK'
  BY DEF Forget, CountersOK, limiters
<1> QED
  BY <1>5, <1>6

\* A restart begins with nothing.
LEMMA RestartOK ==
    ASSUME AllOK, CountersOK, RestartAll
    PROVE  AllOK' /\ CountersOK'
<1>1. request' = [r \in Request |-> None] /\ blocked' \subseteq blocked
  BY DEF RestartAll
<1>2. RequestOK(None, blocked') /\ None \in RequestType(blocked')
  BY NoneOK DEF RequestOK
<1>3. AllOK'
  BY <1>1, <1>2 DEF AllOK
<1>4. blocked' \subseteq Identity
  BY <1>1 DEF CountersOK
<1>5. /\ active' = [k \in {"ip", "user"} |-> {}] /\ refused' = {}
      /\ level' = 0 /\ pruned' = FALSE /\ excess' = 0
  BY DEF RestartAll
<1>6. 0 \in 0 .. MaxMessages /\ 0 \in 0 .. Limit + 1
  BY LimitIsNat
<1>7. CountersOK'
  BY <1>4, <1>5, <1>6 DEF CountersOK
<1> QED
  BY <1>3, <1>7

\* Everything else leaves the requests and blocks alone.
Around ==
    \/ Startstop /\ UNCHANGED requests
    \/ Prune \/ Leak \/ Shut
    \/ UNCHANGED vars

\* The steps around the requests.
LEMMA AroundOK ==
    ASSUME AllOK, CountersOK, Around
    PROVE  /\ AllOK' /\ CountersOK'
           /\ UNCHANGED <<request, blocked, active, refused>>
<1>1. UNCHANGED <<request, blocked, active, refused>>
  BY DEF Around, Prune, Leak, Shut, requests, vars, connections
<1>2. AllOK'
  BY <1>1 DEF AllOK
<1>3. CASE Prune \/ Leak
  <2>1. level \in 0 .. MaxMessages /\ pruned \in BOOLEAN /\ excess \in 0 .. Limit + 1
    BY DEF CountersOK
  <2>2. CASE Prune
    <3>1. level' = 0 /\ excess' = 0 /\ pruned' = TRUE
      BY <2>2 DEF Prune, DeleteLimiter
    <3> QED
      BY <1>1, <1>2, <3>1, LimitIsNat DEF CountersOK
  <2>3. CASE Leak
    <3>1. /\ level' = IF level > 0 THEN level - 1 ELSE 0
          /\ excess' = IF excess > 0 THEN excess - 1 ELSE 0
          /\ pruned' = pruned
      BY <2>3 DEF Leak
    <3>2. level' \in 0 .. MaxMessages /\ excess' \in 0 .. Limit + 1
      BY <2>1, <3>1, LimitIsNat
    <3> QED
      BY <1>1, <1>2, <2>1, <3>1, <3>2 DEF CountersOK
  <2> QED
    BY <1>3, <2>2, <2>3
<1>4. CASE UNCHANGED requests
  BY <1>1, <1>2, <1>4 DEF CountersOK, requests
<1> QED
  BY <1>1, <1>2, <1>3, <1>4 DEF Around, Shut, vars

\* The steps, and what they do to the process.
LEMMA NextIs ==
    ASSUME [Next]_vars
    PROVE  \/ \E r \in Request : RequestStep(r)
           \/ \E k \in Identity : Unblock(k)
           \/ \E k \in {"ip", "user"} : Forget(k)
           \/ RestartAll
           \/ Around
<1>1. CASE UNCHANGED vars
  BY <1>1 DEF Around
<1>2. CASE Next
  BY <1>2 DEF Next, RequestStep, Around
<1> QED
  BY <1>1, <1>2

\* Every step is one of the process, or leaves the process alone.
LEMMA NextOfProcess ==
    ASSUME [Next]_vars
    PROVE  [LifecycleStep]_lifecycle
  BY DEF Next, Arrive, CheckBlocked, PassGuard, EnterConnection, LeaveConnection, Respond, Fail,
         Register, TakeSlot, Receive, Answer, Unblock, Forget, Prune, Leak, Shut, RestartAll,
         LifecycleStep, vars

\* Requests come while the process serves, and have ended before it stops.
LEMMA QuietKept ==
    ASSUME Orderly, [Next]_vars
    PROVE  Quiet'
<1>1. CASE RestartAll
  BY <1>1 DEF RestartAll, Quiet
<1>2. CASE Shut
  BY <1>2 DEF Shut, Quiet, requests
<1>3. CASE Startstop /\ UNCHANGED requests
  <2>1. phase # "serving"
    <3>1. phase = "serving" => plan = <<>>
      BY DEF Orderly, Staged
    <3> QED
      BY <1>3, <3>1 DEF Startstop, Start, Load, ClientFails, LoadFails, Stop, CloseFails,
                        StopPrunerFails, ConnectFails, Serve, End, IsNext
  <2> QED
    BY <1>3, <2>1 DEF Orderly, Quiet, requests
<1>4. ASSUME NEW r \in Request, RequestStep(r)
      PROVE  Quiet'
  <2>1. phase' = phase
    BY <1>4 DEF RequestStep, Arrive, CheckBlocked, PassGuard, EnterConnection, LeaveConnection,
                Respond, Fail, Register, TakeSlot, Receive, Answer, lifecycle
  <2>2. phase = "serving"
    BY <1>4, StepOfOne DEF Orderly, Quiet
  <2> QED
    BY <2>1, <2>2 DEF Quiet
<1>5. ASSUME NEW k, Unblock(k)
      PROVE  Quiet'
  <2>1. phase' = phase /\ request' = [r \in Request |-> [request[r] EXCEPT !.barred = @ \ {k}]]
    BY <1>5 DEF Unblock, lifecycle
  <2>2. [None EXCEPT !.barred = @ \ {k}] = None
    <3>1. None.barred = {} /\ None \in RequestType({})
      BY DEF None, RequestType
    <3> QED
      BY <3>1 DEF RequestType
  <2> QED
    BY <2>1, <2>2 DEF Quiet, Orderly
<1>6. ASSUME NEW k \in {"ip", "user"}, Forget(k)
      PROVE  Quiet'
  <2>1. /\ phase' = phase
        /\ \A r \in Request : request[r].connection \notin active[k] => request'[r] = request[r]
    BY <1>6 DEF Forget, lifecycle
  <2>2. None.connection \notin active[k]
    BY RequestsAssumption DEF None, Orderly, TypeOK
  <2> QED
    BY <2>1, <2>2 DEF Quiet, Orderly
<1>7. CASE Prune \/ Leak \/ UNCHANGED vars
  BY <1>7 DEF Prune, Leak, vars, requests, lifecycle, Orderly, Quiet
<1> QED
  BY <1>1, <1>2, <1>3, <1>4, <1>5, <1>6, <1>7, NextIs DEF Around

\* Initially there is no request and nothing is up.
LEMMA OrderlyInit ==
    ASSUME Init
    PROVE  Orderly
<1>1. LifecycleTypeOK /\ Staged
  BY LifecycleInitOK DEF Init
<1>2. request = [r \in Request |-> None] /\ blocked = {}
  BY DEF Init
<1>3. AllOK
  <2>1. RequestOK(None, {}) /\ None \in RequestType({})
    BY NoneOK DEF RequestOK
  <2> QED
    BY <1>2, <2>1 DEF AllOK
<1>4. CountersOK
  <2>1. /\ active = [k \in {"ip", "user"} |-> {}] /\ refused = {}
        /\ level = 0 /\ pruned = FALSE /\ excess = 0
    BY DEF Init
  <2>2. 0 \in 0 .. MaxMessages /\ 0 \in 0 .. Limit + 1
    BY LimitIsNat
  <2> QED
    BY <1>2, <2>1, <2>2 DEF CountersOK
<1>5. Quiet
  BY <1>2 DEF Quiet
<1> QED
  BY <1>1, <1>3, <1>4, <1>5, OrderlyIs DEF Orderly

\* Every step keeps the plans in order.
LEMMA OrderlyStep ==
    ASSUME Orderly, [Next]_vars
    PROVE  Orderly'
<1>1. LifecycleTypeOK /\ AllOK /\ CountersOK /\ Staged
  BY OrderlyIs DEF Orderly
<1>2. LifecycleTypeOK' /\ Staged'
  BY <1>1, NextOfProcess, LifecycleSteps
<1>3. AllOK' /\ CountersOK'
  <2>1. ASSUME NEW r \in Request, RequestStep(r)
        PROVE  AllOK' /\ CountersOK'
    BY <1>1, <2>1, RequestSteps, BecomesOK, RequestStepCounters DEF CountersOK
  <2> QED
    BY <1>1, <2>1, NextIs, UnblockOK, ForgetOK, RestartOK, AroundOK
<1>4. Quiet'
  BY QuietKept
<1>5. (TypeOK /\ AllRegular)' <=> LifecycleTypeOK' /\ AllOK' /\ CountersOK'
  <2>1. TypeOK' <=> /\ LifecycleTypeOK' /\ CountersOK'
                    /\ request' \in [Request -> RequestType(blocked')]
                    /\ \A r \in Request : (request'[r].kind = "none") = (request'[r].todo = <<>>)
    BY DEF TypeOK, CountersOK, RequestType
  <2>2. AllOK' <=> /\ request' \in [Request -> RequestType(blocked')]
                   /\ \A r \in Request : (request'[r].kind = "none") = (request'[r].todo = <<>>)
                   /\ AllRegular'
    BY DEF AllOK, RequestOK, AllRegular
  <2> QED
    BY <2>1, <2>2
<1> QED
  BY <1>2, <1>3, <1>4, <1>5 DEF Orderly

(***************************************************************************)
(* The types, the shape of what each request has left to do, and the order *)
(* in which parts come up and go hold in every state: of as many requests, *)
(* connections and messages as the constants say.                          *)
(***************************************************************************)
THEOREM AlwaysOrderly == Spec => []Orderly
<1>1. Init => Orderly
  BY OrderlyInit
<1>2. Orderly /\ [Next]_vars => Orderly'
  BY OrderlyStep
<1> QED
  BY <1>1, <1>2, PTL DEF Spec

\* Every variable keeps its type: api/main.py's globals, the observers' records of
\* connections and blocks, the limiter of the user's messages.
THEOREM TypeCorrect == Spec => []TypeOK
<1>1. Orderly => TypeOK
  BY DEF Orderly
<1> QED
  BY <1>1, AlwaysOrderly, PTL

(***************************************************************************)
(* A background task never runs without what it uses, and no request runs  *)
(* in a process that is not complete, whichever start-up or shutdown step  *)
(* fails: the lifespan of api/main.py.                                     *)
(***************************************************************************)
THEOREM UsersHavePartsHolds == Spec => []UsersHaveParts
<1>1. Orderly => UsersHaveParts
  BY DEF Orderly, Staged, Quiet, UsersHaveParts
<1> QED
  BY <1>1, AlwaysOrderly, PTL

(***************************************************************************)
(* The handler runs, or the chat is registered, for none of the identities *)
(* of a request that have been blocked since it came: the checks of its    *)
(* dependencies are all before it, and none passes a block.                *)
(***************************************************************************)
THEOREM BlockedAreShutOutHolds == Spec => BlockedAreShutOut
<1>1. ASSUME Orderly, NEW r \in Request, Serving(r)
      PROVE  request[r].barred = {}
  <2>1. RequestOK(request[r], blocked)
    BY <1>1, OrderlyIs DEF Orderly, AllOK
  <2>2. CASE Register(r)
    BY <2>1, <2>2, RegisterOK DEF Register, IsAt
  <2>3. CASE Respond(r)
    <3> DEFINE s == request[r].todo
    <3>1. /\ s \in Seq(Step) /\ s # <<>> /\ Head(s) = Do("respond")
          /\ Shaped(request[r].kind, s) /\ \A k \in request[r].barred : Check(k) \in Range(s)
      BY <2>1, <2>3 DEF Respond, IsAt, RequestOK, RequestType, Regular
    <3> HIDE DEF s
    <3>2. Range(s) = {Do("respond")}
      <4>1. Tail(s) = <<>>
        BY <3>1, ShapedTail
      <4>2. Range(<<>>) = {}
        BY DEF Range
      <4> QED
        BY <3>1, <4>1, <4>2, TailFacts
    <3>3. \A k : Check(k) # Do("respond")
      BY DEF Check, Do
    <3> QED
      BY <3>1, <3>2, <3>3
  <2> QED
    BY <1>1, <2>2, <2>3 DEF Serving
<1>2. Orderly /\ [Next]_vars => [\A r \in Request : Serving(r) => request[r].barred = {}]_vars
  BY <1>1
<1> QED
  BY <1>2, AlwaysOrderly, PTL DEF Spec, BlockedAreShutOut
-------------------------------------------------------------------------------
(***************************************************************************)
(* What a step of a request does to what the other invariants count: its   *)
(* connection, whether it is inside its chat, and what it is about to do.  *)
(***************************************************************************)
\* Nobody new is inside, and connections and their counting stay, or go together.
Stays(p, q) ==
    /\ q = None \/ (q.connection = p.connection /\ q.uncounted = p.uncounted)
    /\ \A k \in {"ip", "user"} : Inside(q, k) => Inside(p, k)

Others(r) == \A x \in Request \ {r} : request'[x] = request[x]

Begins(q, step) == q.todo # <<>> /\ Head(q.todo) = step

\* A handler without a request is at no step.
LEMMA NoneIs ==
    /\ None.todo = <<>> /\ None.connection = NoConnection /\ None.kind = "none"
    /\ None.uncounted = {}
    /\ \A k : ~ Inside(None, k)
    /\ \A step : ~ Begins(None, step)
  BY DEF None, Inside, Begins

\* What a step that raises does to who is connected.
LEMMA RaiseEffect ==
    ASSUME AllOK, NEW r \in Request, Raise(r)
    PROVE  /\ Others(r) /\ Stays(request[r], request'[r])
           /\ ~ Begins(request'[r], Leave("user")) /\ ~ Begins(request'[r], Do("receive"))
           /\ request'[r] = None => ~ Chatting(r)
<1>1. request[r] \in RequestType(blocked)
  BY DEF AllOK
<1>2. CASE Chatting(r)
  <2>1. Finally # <<>> /\ Head(Finally) = Leave("ip")
    BY DEF Finally
  <2>2. request' = [request EXCEPT ![r] = [request[r] EXCEPT !.todo = Finally]]
    BY <1>2, <2>1 DEF Raise, Proceed, Become
  <2>3. request'[r] = [request[r] EXCEPT !.todo = Finally] /\ Others(r)
    BY <2>2 DEF AllOK, Others
  <2>4. /\ request'[r].todo = Finally /\ request'[r].connection = request[r].connection
        /\ request'[r].uncounted = request[r].uncounted
    BY <1>1, <2>3 DEF RequestType
  <2>5. Leave("ip") \in Leaves /\ Leave("ip") # Leave("user") /\ Leave("ip") # Do("receive")
    BY DEF Leaves, Leave, Do
  <2>6. request'[r] # None
    BY <2>1, <2>4, NoneIs
  <2> QED
    BY <2>1, <2>3, <2>4, <2>5, <2>6 DEF Stays, Inside, Begins
<1>3. CASE ~ Chatting(r)
  <2>1. request' = [request EXCEPT ![r] = None]
    BY <1>3 DEF Raise, Proceed, Become
  <2>2. request'[r] = None /\ Others(r)
    BY <2>1 DEF AllOK, Others
  <2> QED
    BY <1>3, <2>2, NoneIs DEF Stays
<1> QED
  BY <1>2, <1>3

\* What a step that is done does to who is connected.
LEMMA AdvanceEffect ==
    ASSUME AllOK, NEW r \in Request, Advance(r), request[r].todo # <<>>,
           Head(request[r].todo) \notin Enters
    PROVE  /\ Others(r) /\ Stays(request[r], request'[r])
           /\ Begins(request'[r], Leave("user")) => Begins(request[r], Leave("ip"))
           /\ Begins(request'[r], Do("receive")) => Begins(request[r], Do("slot"))
           /\ request'[r] = None =>
                 \/ request[r].kind # "chat"
                 \/ Head(request[r].todo) \in {Do("register"), Do("receive"), Leave("user")}
           /\ Begins(request[r], Leave("user")) => request'[r] = None
<1> DEFINE p == request[r]
           s == request[r].todo
           t == Tail(s)
<1>1. s \in Seq(Step) /\ s # <<>> /\ Shaped(p.kind, s) /\ p \in RequestType(blocked)
  BY DEF AllOK, RequestOK, RequestType, Regular
<1>2. /\ Head(s) \in {Do("respond"), Do("register")} => t = <<>>
      /\ Head(s) \in Leaves /\ t # <<>> => Head(s) = Leave("ip") /\ Head(t) = Leave("user")
      /\ Head(s) # Do("slot") /\ t # <<>> => Head(t) # Do("receive")
      /\ Head(s) # Leave("ip") /\ t # <<>> => Head(t) # Leave("user")
      /\ p.kind = "chat" /\ Head(s) \notin {Do("register"), Do("receive"), Leave("user")} => t # <<>>
      /\ Range(s) = {Head(s)} \cup Range(t)
  BY <1>1, ShapedTail, TailFacts
<1>3. /\ Leave("user") \in Leaves /\ Leave("ip") # Leave("user")
      /\ \A k \in {"ip", "user"} : Enter(k) \in Enters
  BY DEF Leaves, Leave, Enters
<1>4. CASE t = <<>>
  <2>1. request' = [request EXCEPT ![r] = None]
    BY <1>4 DEF Advance, Proceed, Become
  <2>2. request'[r] = None /\ Others(r)
    BY <2>1 DEF AllOK, Others
  <2> QED
    BY <1>2, <1>4, <2>2, NoneIs DEF Stays
<1>5. CASE t # <<>>
  <2>1. request' = [request EXCEPT ![r] = [request[r] EXCEPT !.todo = Tail(request[r].todo)]]
    BY <1>5 DEF Advance, Proceed, Become
  <2>2. request'[r] = [request[r] EXCEPT !.todo = Tail(request[r].todo)] /\ Others(r)
    BY <2>1 DEF AllOK, Others
  <2>3. /\ request'[r].todo = t /\ request'[r].connection = p.connection
        /\ request'[r].uncounted = p.uncounted /\ request'[r].kind = p.kind
    BY <1>1, <2>2 DEF RequestType
  <2> HIDE DEF p, s, t
  <2>4. request'[r] # None
    BY <1>5, <2>3, NoneIs
  <2>5. \A k \in {"ip", "user"} : Inside(request'[r], k) => Inside(p, k)
    <3>1. p.todo = s /\ Head(s) \notin Enters
      BY DEF p, s
    <3> QED
      BY <1>2, <1>3, <1>5, <2>3, <3>1 DEF Inside
  <2>6. Stays(p, request'[r])
    BY <2>3, <2>5 DEF Stays
  <2>7. Begins(request'[r], Leave("user")) => Begins(p, Leave("ip"))
    BY <1>1, <1>2, <2>3 DEF Begins, p, s
  <2>8. Begins(request'[r], Do("receive")) => Begins(p, Do("slot"))
    BY <1>1, <1>2, <2>3 DEF Begins, p, s
  <2>9. ~ Begins(p, Leave("user"))
    BY <1>2, <1>3, <1>5 DEF Begins, p, s
  <2> QED
    BY <2>2, <2>4, <2>6, <2>7, <2>8, <2>9 DEF p
<1> QED
  BY <1>4, <1>5

\* Every step of a request but EnterConnection.
PlainStep(r) ==
    \/ \E kind \in Kinds, scoped \in BOOLEAN : Arrive(r, kind, scoped)
    \/ \E k \in Identity : CheckBlocked(r, k) \/ PassGuard(r, k)
    \/ \E k \in {"ip", "user"} : LeaveConnection(r, k)
    \/ Respond(r) \/ Fail(r) \/ Register(r) \/ TakeSlot(r) \/ Receive(r) \/ Answer(r)

\* It leaves a connection behind only where that is not counted, or was refused.
Effect(r) ==
    /\ Others(r) /\ Stays(request[r], request'[r])
    /\ Begins(request'[r], Leave("user")) => LeaveConnection(r, "ip")
    /\ Begins(request'[r], Do("receive")) => TakeSlot(r)
    /\ request'[r] = None =>
          \/ request[r].connection \in refused' \cup {NoConnection}
          \/ LeaveConnection(r, "user")

\* Steps that neither enter nor leave: their effect.
LEMMA PlainEffect ==
    ASSUME AllOK, NEW r \in Request, PlainStep(r)
    PROVE  Effect(r)
<1> DEFINE p == request[r]
<1>1. /\ p \in RequestType(blocked) /\ Shaped(p.kind, p.todo) /\ p.todo \in Seq(Step)
      /\ p.kind # "chat" => p.connection = NoConnection
      /\ Range(p.todo) \cap Checks # {} => p.connection = NoConnection
  BY DEF AllOK, RequestOK, RequestType, Regular
<1>2. /\ \A k : Guard(k) \notin Enters /\ Leave(k) \notin Enters /\ Check(k) \notin Enters
      /\ \A k : Guard(k) \notin {Do("register"), Do("receive"), Leave("user")}
      /\ \A k : Guard(k) # Leave("ip") /\ Guard(k) # Do("slot")
      /\ \A k : Check(k) # Leave("ip") /\ Check(k) # Do("slot")
      /\ \A k, l : Leave(k) # Do("slot") /\ (Leave(k) = Leave(l) => k = l)
      /\ \A k : Leave(k) \notin {Do("register"), Do("receive")}
      /\ \A op : Do(op) \notin Enters /\ \A k \in {"ip", "user"} : Do(op) # Leave(k)
      /\ \A op, op2 : Do(op) = Do(op2) => op = op2
      /\ \A k \in Identity : Check(k) \in Checks
  <2> USE DEF Enters, Check, Guard, Enter, Leave, Do, Checks
  <2>1. \A k : Guard(k) \notin Enters /\ Leave(k) \notin Enters /\ Check(k) \notin Enters
    OBVIOUS
  <2>8. \A k : Leave(k) # Do("slot")
    OBVIOUS
  <2>2. /\ \A k : Guard(k) \notin {Do("register"), Do("receive"), Leave("user")}
        /\ \A k : Guard(k) # Leave("ip") /\ Guard(k) # Do("slot")
        /\ \A k : Check(k) # Leave("ip") /\ Check(k) # Do("slot")
    OBVIOUS
  <2>3. \A k, l : Leave(k) = Leave(l) => k = l
    OBVIOUS
  <2>4. \A k : Leave(k) \notin {Do("register"), Do("receive")}
    OBVIOUS
  <2>5. \A op : Do(op) \notin Enters /\ \A k \in {"ip", "user"} : Do(op) # Leave(k)
    OBVIOUS
  <2>6. \A op, op2 : Do(op) = Do(op2) => op = op2
    OBVIOUS
  <2>7. \A k \in Identity : Check(k) \in Checks
    OBVIOUS
  <2> HIDE DEF Enters, Check, Guard, Enter, Leave, Do, Checks
  <2> QED
    BY <2>1, <2>2, <2>3, <2>4, <2>5, <2>6, <2>7, <2>8
<1>3. ASSUME NEW kind \in Kinds, NEW scoped \in BOOLEAN, Arrive(r, kind, scoped)
      PROVE  Effect(r)
  <2> DEFINE s == PlanOf(kind, scoped)
  <2>2. /\ Head(s) = Check("ip") /\ s # <<>> /\ s \in Seq(Step)
        /\ kind = "chat" => \A k \in {"ip", "user"} : Enter(k) \in Range(s)
    <3>1. /\ kind = "chat" => scoped
          /\ kind = "refresh" => ~scoped
      BY <1>3 DEF Arrive
    <3> QED
      BY <3>1, Plans DEF Planned
  <2> HIDE DEF s
  <2> DEFINE q == [None EXCEPT !.kind = kind, !.todo = s, !.barred = blocked \cap Carried(kind, scoped)]
  <2>3. /\ q.kind = kind /\ q.todo = s /\ q.connection = NoConnection /\ q.uncounted = {}
    BY DEF None
  <2>4. request'[r] = q /\ Others(r)
    BY <1>3 DEF Arrive, Become, AllOK, Others, s
  <2> HIDE DEF q
  <2>5. Stays(request[r], q)
    <3>1. request[r] = None
      BY <1>3 DEF Arrive
    <3> QED
      BY <2>2, <2>3, <3>1, NoneIs DEF Stays, Inside
  <2>6. /\ ~ Begins(q, Leave("user")) /\ ~ Begins(q, Do("receive")) /\ q # None
    <3>1. Check("ip") # Leave("user") /\ Check("ip") # Do("receive")
      BY DEF Check, Leave, Do
    <3> QED
      BY <2>2, <2>3, <3>1, NoneIs DEF Begins
  <2> QED
    BY <2>4, <2>5, <2>6 DEF Effect
<1>4. ASSUME NEW k \in Identity, CheckBlocked(r, k)
      PROVE  Effect(r)
  <2>1. p.todo # <<>> /\ Head(p.todo) = Check(k)
    BY <1>4 DEF CheckBlocked, IsAt
  <2>2. p.connection = NoConnection
    <3>1. Head(p.todo) \in Range(p.todo)
      BY <1>1, <2>1, TailFacts
    <3> QED
      BY <1>1, <1>2, <2>1, <3>1
  <2>3. CASE Raise(r)
    BY <2>2, <2>3, RaiseEffect DEF Effect
  <2>4. CASE Advance(r)
    BY <1>2, <2>1, <2>2, <2>4, AdvanceEffect DEF Effect, Begins
  <2> QED
    BY <1>4, <2>3, <2>4 DEF CheckBlocked
<1>5. ASSUME NEW k \in Identity, PassGuard(r, k)
      PROVE  Effect(r)
  <2>1. p.todo # <<>> /\ Head(p.todo) = Guard(k)
    BY <1>5 DEF PassGuard, IsAt
  <2>2. CASE Raise(r)
    <3>1. p.kind = "chat" => Chatting(r)
      <4>1. Head(p.todo) \in Range(p.todo)
        BY <1>1, <2>1, TailFacts
      <4>2. Guard(k) \notin Opening /\ Guard(k) \notin Leaves
        BY DEF Opening, Checks, Enters, Leaves, Check, Guard, Enter, Leave, Do
      <4>3. RequestOK(request[r], blocked)
        BY DEF AllOK
      <4> QED
        BY <1>1, <2>1, <4>1, <4>2, <4>3, ChattingIsInLoop DEF Shaped
    <3> QED
      BY <1>1, <2>2, <3>1, RaiseEffect DEF Effect
  <2>3. CASE Advance(r)
    BY <1>1, <1>2, <2>1, <2>3, AdvanceEffect DEF Effect, Begins
  <2> QED
    BY <1>5, <2>2, <2>3 DEF PassGuard
<1>6. ASSUME NEW k \in {"ip", "user"}, LeaveConnection(r, k)
      PROVE  Effect(r)
  <2>1. p.todo # <<>> /\ Head(p.todo) = Leave(k) /\ Advance(r)
    BY <1>6 DEF LeaveConnection, IsAt
  <2>2. /\ Others(r) /\ Stays(p, request'[r])
        /\ Begins(request'[r], Leave("user")) => Begins(p, Leave("ip"))
        /\ Begins(request'[r], Do("receive")) => Begins(p, Do("slot"))
        /\ request'[r] = None => p.kind # "chat" \/ Head(p.todo) = Leave("user")
    BY <1>2, <2>1, AdvanceEffect
  <2>3. Begins(request'[r], Leave("user")) => LeaveConnection(r, "ip")
    BY <1>2, <1>6, <2>1, <2>2 DEF Begins
  <2>4. ~ Begins(request'[r], Do("receive"))
    BY <1>2, <2>1, <2>2 DEF Begins
  <2>5. request'[r] = None => p.connection = NoConnection \/ LeaveConnection(r, "user")
    BY <1>1, <1>2, <1>6, <2>1, <2>2
  <2> QED
    BY <2>2, <2>3, <2>4, <2>5 DEF Effect
<1>7. CASE Respond(r) \/ TakeSlot(r) \/ Answer(r)
  <2>1. /\ p.todo # <<>> /\ Head(p.todo) \in {Do("respond"), Do("slot"), Do("answer")} /\ Advance(r)
        /\ Head(p.todo) = Do("slot") => TakeSlot(r)
    BY <1>2, <1>7 DEF Respond, TakeSlot, Answer, IsAt
  <2>2. /\ Others(r) /\ Stays(p, request'[r])
        /\ Begins(request'[r], Leave("user")) => Begins(p, Leave("ip"))
        /\ Begins(request'[r], Do("receive")) => Begins(p, Do("slot"))
        /\ request'[r] = None =>
              p.kind # "chat" \/ Head(p.todo) \in {Do("register"), Do("receive"), Leave("user")}
    BY <1>2, <2>1, AdvanceEffect
  <2>3. ~ Begins(request'[r], Leave("user"))
    BY <1>2, <2>1, <2>2 DEF Begins
  <2>4. Begins(request'[r], Do("receive")) => TakeSlot(r)
    BY <1>2, <2>1, <2>2 DEF Begins
  <2>5. request'[r] = None => p.connection = NoConnection
    BY <1>1, <1>2, <2>1, <2>2
  <2> QED
    BY <2>2, <2>3, <2>4, <2>5 DEF Effect
<1>8. CASE Fail(r)
  <2>1. Raise(r) /\ (~ Chatting(r) => Held(r) \subseteq refused')
    BY <1>8 DEF Fail
  <2>2. p.connection \in Held(r) \cup {NoConnection}
    BY DEF Held
  <2> QED
    BY <2>1, <2>2, RaiseEffect DEF Effect
<1>9. ASSUME NEW s \in {Loop, TooLarge, Input}, p.kind = "chat", p.todo # <<>>,
             Head(p.todo) \in {Do("register"), Do("receive")},
             \/ request' = [request EXCEPT ![r] = [request[r] EXCEPT !.todo = s]]
             \/ request' = [request EXCEPT ![r] = [request[r] EXCEPT !.todo = s, !.barred = {}]]
      PROVE  Effect(r)
  <2>1. /\ Planned("chat", s) /\ Range(s) \subseteq Talking
        /\ Head(s) # Do("receive") /\ Head(s) # Leave("user")
    BY Chats
  <2>2. /\ request'[r].todo = s /\ request'[r].connection = p.connection
        /\ request'[r].uncounted = p.uncounted /\ Others(r)
    <3>1. CASE request' = [request EXCEPT ![r] = [request[r] EXCEPT !.todo = s]]
      <4>1. request'[r] = [p EXCEPT !.todo = s] /\ Others(r)
        BY <3>1 DEF AllOK, Others
      <4> QED
        BY <1>1, <4>1 DEF RequestType
    <3>2. CASE request' = [request EXCEPT ![r] = [request[r] EXCEPT !.todo = s, !.barred = {}]]
      <4>1. request'[r] = [p EXCEPT !.todo = s, !.barred = {}] /\ Others(r)
        BY <3>2 DEF AllOK, Others
      <4> QED
        BY <1>1, <4>1 DEF RequestType
    <3> QED
      BY <1>9, <3>1, <3>2
  <2>3. s # <<>>
    BY <2>1 DEF Planned
  <2>4. \A k \in {"ip", "user"} : Inside(p, k)
    <3>1. Head(p.todo) \notin Leaves
      BY <1>9 DEF Leaves, Leave, Do
    <3>2. ASSUME NEW k \in {"ip", "user"}
          PROVE  Enter(k) \notin Range(p.todo)
      <4>1. Do("receive") \notin Opening /\ Enter(k) \notin Talking /\ Enter(k) # Do("register")
        BY DEF Opening, Talking, Checks, Enters, Guards, Leaves, Check, Guard, Enter, Leave, Do
      <4>2. Head(p.todo) \in Range(p.todo)
        BY <1>1, <1>9, TailFacts
      <4>3. CASE Head(p.todo) = Do("receive")
        BY <1>1, <1>9, <4>1, <4>2, <4>3 DEF Shaped
      <4>4. CASE Head(p.todo) = Do("register")
        <5>1. Tail(p.todo) = <<>>
          BY <1>1, <1>9, <4>4, ShapedTail
        <5>2. Range(<<>>) = {}
          BY DEF Range
        <5>3. Range(p.todo) = {Head(p.todo)} \cup Range(Tail(p.todo))
          BY <1>1, <1>9, TailFacts
        <5> QED
          BY <4>1, <4>4, <5>1, <5>2, <5>3
      <4> QED
        BY <1>9, <4>3, <4>4
    <3> QED
      BY <1>9, <3>1, <3>2 DEF Inside
  <2>5. request'[r] # None
    BY <2>2, <2>3, NoneIs
  <2> QED
    BY <2>1, <2>2, <2>4, <2>5 DEF Effect, Stays, Begins
<1>10. CASE Register(r)
  <2>1. p.todo # <<>> /\ Head(p.todo) = Do("register")
    BY <1>10 DEF Register, IsAt
  <2>2. p.kind = "chat"
    BY <2>1, RegisterOK DEF AllOK
  <2>3. request' = [request EXCEPT ![r] = [request[r] EXCEPT !.todo = Loop, !.barred = {}]]
    BY <1>10 DEF Register, Become
  <2> QED
    BY <1>9, <2>1, <2>2, <2>3
<1>11. CASE Receive(r)
  <2>1. p.todo # <<>> /\ Head(p.todo) = Do("receive")
    BY <1>11 DEF Receive, IsAt
  <2>2. p.kind = "chat"
    <3>1. Do("receive") \notin Asking
      BY DEF Asking, Checks, Guards, Check, Guard, Do
    <3>2. Head(p.todo) \in Range(p.todo)
      BY <1>1, <2>1, TailFacts
    <3> QED
      BY <1>1, <2>1, <3>1, <3>2 DEF Shaped
  <2>3. PICK s \in {Loop, TooLarge, Input} : Proceed(r, s)
    BY <1>11 DEF Receive
  <2>4. s # <<>>
    BY Chats DEF Planned
  <2>5. request' = [request EXCEPT ![r] = [request[r] EXCEPT !.todo = s]]
    BY <2>3, <2>4 DEF Proceed, Become
  <2> QED
    BY <1>9, <2>1, <2>2, <2>5
<1> QED
  BY <1>3, <1>4, <1>5, <1>6, <1>7, <1>8, <1>10, <1>11 DEF PlainStep

\* A connection is that of the request already, or nobody's.
LEMMA EnterEffect ==
    ASSUME AllOK, NEW r \in Request, NEW k \in {"ip", "user"}, EnterConnection(r, k)
    PROVE  \E c \in Connection :
              /\ \/ c = request[r].connection
                 \/ /\ request[r].connection = NoConnection
                    /\ c \notin active["ip"] \cup active["user"]
                    /\ \A x \in Request : request[x].connection # c
              /\ active' = [active EXCEPT ![k] = @ \cup {c}]
              /\ Others(r) /\ refused \subseteq refused'
              /\ Begins(request[r], Enter(k))
              /\ \/ request'[r] = None /\ c \in refused'
                 \/ /\ request'[r].connection = c
                    /\ request'[r].uncounted = request[r].uncounted
                    /\ \A l \in {"ip", "user"} \ {k} :
                          Inside(request'[r], l) => Inside(request[r], l)
                    /\ ~ Begins(request'[r], Leave("user"))
                    /\ ~ Begins(request'[r], Do("receive"))
                    /\ ~ (Cardinality(active'[k]) > MaxConnections[k])
<1> DEFINE p == request[r]
<1>1. PICK c \in ConnectionOf(r) :
        /\ IsAt(r, Enter(k))
        /\ active' = [active EXCEPT ![k] = @ \cup {c}]
        /\ IF Cardinality(active'[k]) > MaxConnections[k]
           THEN Raise(r) /\ Block(k) /\ refused' = refused \cup {c}
           ELSE /\ Become(r, [request[r] EXCEPT !.connection = c, !.todo = Tail(@)])
                /\ UNCHANGED <<blocked, refused>>
  BY DEF EnterConnection
<1>2. /\ p \in RequestType(blocked) /\ Shaped(p.kind, p.todo) /\ RequestOK(p, blocked)
      /\ p.todo \in Seq(Step) /\ p.todo # <<>> /\ Head(p.todo) = Enter(k) /\ Enter(k) \in Enters
  BY <1>1 DEF AllOK, RequestOK, RequestType, Regular, IsAt, Enters
<1>3. /\ c \in Connection
      /\ \/ c = p.connection
         \/ /\ p.connection = NoConnection
            /\ c \notin active["ip"] \cup active["user"]
            /\ \A x \in Request : request[x].connection # c
  <2>1. CASE Held(r) # {}
    BY <1>1, <1>2, <2>1 DEF ConnectionOf, Held, RequestType
  <2>2. CASE Held(r) = {}
    <3>1. p.connection = NoConnection
      BY <2>2 DEF Held
    <3>2. c \in Connection \ (active["ip"] \cup active["user"]
                                 \cup {request[q].connection : q \in Request})
      BY <1>1, <2>2 DEF ConnectionOf
    <3> QED
      BY <3>1, <3>2
  <2> QED
    BY <2>1, <2>2
<1>4. Begins(p, Enter(k))
  BY <1>2 DEF Begins
<1>5. CASE Cardinality(active'[k]) > MaxConnections[k]
  <2>1. Raise(r) /\ refused' = refused \cup {c}
    BY <1>1, <1>5
  <2>2. ~ Chatting(r)
    <3>1. Enter(k) \in Range(p.todo) /\ Enter(k) \notin Talking
      <4>1. Enter(k) \in Range(p.todo)
        BY <1>2, TailFacts
      <4>2. Enter(k) \notin Talking
        BY DEF Talking, Guards, Leaves, Enter, Guard, Leave, Do
      <4> QED
        BY <4>1, <4>2
    <3> QED
      BY <1>2, <3>1, ChattingIsInLoop
  <2>3. request'[r] = None /\ Others(r)
    <3>1. request' = [request EXCEPT ![r] = None]
      BY <2>1, <2>2 DEF Raise, Proceed, Become
    <3> QED
      BY <3>1 DEF AllOK, Others
  <2> QED
    BY <1>1, <1>3, <1>4, <2>1, <2>3
<1>6. CASE ~ (Cardinality(active'[k]) > MaxConnections[k])
  <2>1. /\ request' = [request EXCEPT ![r] = [request[r] EXCEPT !.connection = c, !.todo = Tail(@)]]
        /\ refused' = refused
    BY <1>1, <1>6 DEF Become
  <2>2. request'[r] = [p EXCEPT !.connection = c, !.todo = Tail(@)] /\ Others(r)
    BY <2>1 DEF AllOK, Others
  <2>3. /\ request'[r].connection = c /\ request'[r].todo = Tail(p.todo)
        /\ request'[r].uncounted = p.uncounted /\ request'[r].kind = p.kind
    BY <1>2, <2>2 DEF RequestType
  <2> DEFINE t == Tail(p.todo)
  <2>4. Range(p.todo) = {Enter(k)} \cup Range(t)
    BY <1>2, TailFacts
  <2>5. \A l \in {"ip", "user"} \ {k} : Inside(request'[r], l) => Inside(p, l)
    <3>1. /\ \A l \in {"ip", "user"} \ {k} : Enter(l) # Enter(k)
          /\ Enter(k) \notin Leaves
      BY DEF Enter, Leaves, Leave
    <3> QED
      BY <1>2, <2>3, <2>4, <3>1 DEF Inside
  <2>6. t # <<>> => Head(t) # Leave("user") /\ Head(t) # Do("receive")
    <3>1. Enter(k) # Leave("ip") /\ Enter(k) # Do("slot")
      BY DEF Enter, Leave, Do
    <3> QED
      BY <1>2, <3>1, ShapedTail
  <2>7. ~ Begins(request'[r], Leave("user")) /\ ~ Begins(request'[r], Do("receive"))
    BY <2>3, <2>6 DEF Begins
  <2> QED
    BY <1>1, <1>3, <1>4, <1>6, <2>1, <2>2, <2>3, <2>5, <2>7
<1> QED
  BY <1>5, <1>6
-------------------------------------------------------------------------------
(***************************************************************************)
(* The connections: whose they are, and which of them count.               *)
(***************************************************************************)
Connected == Distinct /\ LeftOne /\ CountedAreOpen /\ EnteredCount

\* Whoever counts is a connection.
LEMMA ActiveIsConnection ==
    ASSUME CountersOK, NEW k \in {"ip", "user"}
    PROVE  active[k] \subseteq Connection /\ NoConnection \notin active[k]
  BY RequestsAssumption DEF CountersOK

\* Where nobody enters and connections only stop counting, the count is kept.
LEMMA FewerEntered ==
    ASSUME CountersOK, EnteredCount, NEW k \in {"ip", "user"}, active'[k] \subseteq active[k],
           Entered(k)' \subseteq Entered(k),
           \A x \in Entered(k)' : request'[x].connection \in active'[k]
    PROVE  /\ IsFiniteSet(active'[k])
           /\ \A x \in Entered(k)' : request'[x].connection \in active'[k]
           /\ Cardinality(Entered(k)') <= MaxConnections[k]
<1>1. IsFiniteSet(active'[k])
  BY FS_Subset DEF EnteredCount
<1>2. Entered(k) \subseteq Request
  BY DEF Entered
<1>3. IsFiniteSet(Entered(k)) /\ Cardinality(Entered(k)) \in Nat
  BY <1>2, RequestsAssumption, FS_Subset, FS_CardinalityType
<1>4. Cardinality(Entered(k)') <= Cardinality(Entered(k)) /\ Cardinality(Entered(k)') \in Nat
  BY <1>3, FS_Subset, FS_CardinalityType
<1>5. Cardinality(Entered(k)) <= MaxConnections[k] /\ MaxConnections[k] \in Nat
  BY RequestsAssumption DEF EnteredCount
<1>6. Cardinality(Entered(k)') <= MaxConnections[k]
  BY <1>3, <1>4, <1>5
<1> QED
  BY <1>1, <1>6

\* Steps that neither enter nor leave keep the counts.
LEMMA PlainConnected ==
    ASSUME AllOK, CountersOK, Connected, NEW r \in Request, PlainStep(r)
    PROVE  Connected'
<1> DEFINE p == request[r]
           q == request'[r]
<1>1. /\ \A x \in Request \ {r} : request'[x] = request[x]
      /\ q = None \/ (q.connection = p.connection /\ q.uncounted = p.uncounted)
      /\ \A k \in {"ip", "user"} : Inside(q, k) => Inside(p, k)
      /\ Begins(q, Leave("user")) => LeaveConnection(r, "ip")
      /\ q = None => p.connection \in refused' \cup {NoConnection} \/ LeaveConnection(r, "user")
  BY PlainEffect DEF Effect, Others, Stays
<1>2. \/ active' = active
      \/ \E k \in {"ip", "user"} : LeaveConnection(r, k) /\ active' = [active EXCEPT ![k] = @ \ Held(r)]
  BY DEF PlainStep, Arrive, CheckBlocked, PassGuard, Respond, Fail, Register, TakeSlot, Receive,
         Answer, LeaveConnection, connections
<1>3. \A k \in {"ip", "user"} : LeaveConnection(r, k) =>
          /\ active' = [active EXCEPT ![k] = @ \ Held(r)]
          /\ Begins(p, Leave(k)) /\ \A l \in {"ip", "user"} : ~ Inside(p, l)
  BY DEF LeaveConnection, IsAt, Begins, Inside, Leaves
<1>4. refused \subseteq refused'
  BY DEF PlainStep, Arrive, CheckBlocked, PassGuard, Respond, Fail, Register, TakeSlot, Receive,
         Answer, LeaveConnection, connections
<1>5. /\ \A x \in Request : request'[x] = None \/ request'[x].connection = request[x].connection
      /\ None.connection = NoConnection /\ \A k : ~ Inside(None, k)
      /\ \A step : ~ Begins(None, step)
  BY <1>1, NoneIs
<1>6. \A k \in {"ip", "user"} : active'[k] \subseteq active[k] /\ NoConnection \notin active[k]
  BY <1>2, ActiveIsConnection DEF CountersOK
<1>7. Held(r) = {p.connection} \ {NoConnection}
  BY DEF Held
<1>8. /\ \A x, y \in Request :
            request[x].connection = request[y].connection /\ request[x].connection # NoConnection => x = y
      /\ \A x \in Request : Begins(request[x], Leave("user")) =>
            request[x].connection \notin active["ip"]
      /\ \A k \in {"ip", "user"} :
            active[k] \subseteq refused \cup {request[x].connection : x \in Request}
      /\ EnteredCount
  BY DEF Connected, Distinct, LeftOne, CountedAreOpen, IsAt, Begins
<1> HIDE DEF p, q
<1>9. Distinct'
  BY <1>5, <1>8 DEF Distinct
<1>10. LeftOne'
  <2> SUFFICES ASSUME NEW x \in Request, Begins(request'[x], Leave("user"))
               PROVE  request'[x].connection \notin active'["ip"]
    BY DEF LeftOne, IsAt, Begins
  <2>1. request'[x].connection = request[x].connection
    BY <1>5
  <2>2. CASE x # r
    BY <1>1, <1>6, <1>8, <2>1, <2>2
  <2>3. CASE x = r
    <3>1. active' = [active EXCEPT !["ip"] = @ \ Held(r)]
      BY <1>1, <1>3, <2>3 DEF q
    <3>2. active'["ip"] = active["ip"] \ Held(r)
      BY <3>1 DEF CountersOK
    <3> QED
      BY <1>6, <1>7, <2>1, <2>3, <3>2 DEF p
  <2> QED
    BY <2>2, <2>3
<1>11. CountedAreOpen'
  <2> SUFFICES ASSUME NEW k \in {"ip", "user"}, NEW z \in active'[k], z \notin refused'
               PROVE  \E x \in Request : z = request'[x].connection
    BY DEF CountedAreOpen
  <2>1. z \in active[k] /\ z # NoConnection
    BY <1>6
  <2>2. PICK x \in Request : z = request[x].connection
    BY <1>4, <1>8, <2>1
  <2>3. CASE request'[x] # None
    BY <1>5, <2>2, <2>3
  <2>4. CASE request'[x] = None
    <3>1. x = r
      BY <1>1, <1>5, <2>1, <2>2, <2>4
    <3>2. LeaveConnection(r, "user")
      BY <1>1, <2>1, <2>2, <2>4, <3>1 DEF p, q
    <3>3. active' = [active EXCEPT !["user"] = @ \ Held(r)] /\ Begins(p, Leave("user"))
      BY <1>3, <3>2
    <3>4. z \notin active["ip"]
      BY <1>8, <2>2, <3>1, <3>3 DEF p
    <3>5. z \in Held(r)
      BY <1>7, <2>1, <2>2, <3>1 DEF p
    <3> QED
      BY <2>1, <3>3, <3>4, <3>5 DEF CountersOK
  <2> QED
    BY <2>3, <2>4
<1>12. EnteredCount'
  <2> SUFFICES ASSUME NEW k \in {"ip", "user"}
               PROVE  /\ IsFiniteSet(active'[k])
                      /\ \A x \in Entered(k)' : request'[x].connection \in active'[k]
                      /\ Cardinality(Entered(k)') <= MaxConnections[k]
    BY DEF EnteredCount
  <2>1. ASSUME NEW x \in Entered(k)'
        PROVE  x \in Entered(k) /\ request'[x].connection \in active'[k]
    <3>1. x \in Request /\ Inside(request'[x], k) /\ k \notin request'[x].uncounted
      BY DEF Entered
    <3>2. request'[x] # None
      BY <1>5, <3>1
    <3>3. /\ Inside(request[x], k) /\ request'[x].uncounted = request[x].uncounted
          /\ request'[x].connection = request[x].connection
      BY <1>1, <1>5, <3>1, <3>2 DEF p, q
    <3>4. x \in Entered(k)
      BY <3>1, <3>3 DEF Entered
    <3>5. request[x].connection \in active[k]
      BY <1>8, <3>4 DEF EnteredCount
    <3>6. request[x].connection \in active'[k]
      <4>1. CASE active' = active
        BY <3>5, <4>1
      <4>2. ASSUME NEW l \in {"ip", "user"}, LeaveConnection(r, l)
            PROVE  request[x].connection \in active'[k]
        <5>1. x # r
          BY <1>3, <3>3, <4>2 DEF p
        <5>2. request[x].connection \notin Held(r)
          BY <1>7, <1>8, <3>1, <5>1 DEF p
        <5> QED
          BY <1>3, <3>5, <4>2, <5>2 DEF CountersOK
      <4> QED
        BY <1>2, <4>1, <4>2
    <3> QED
      BY <3>3, <3>4, <3>6
  <2>2. Entered(k)' \subseteq Entered(k) /\ active'[k] \subseteq active[k]
    BY <1>6, <2>1
  <2> QED
    BY <1>8, <2>1, <2>2, FewerEntered
<1> QED
  BY <1>9, <1>10, <1>11, <1>12 DEF Connected

\* A chat enters where there is room.
LEMMA EnterConnected ==
    ASSUME AllOK, CountersOK, Connected, NEW r \in Request, NEW k \in {"ip", "user"},
           EnterConnection(r, k)
    PROVE  Connected'
<1> DEFINE p == request[r]
           q == request'[r]
<1>1. PICK c \in Connection :
        /\ \/ c = p.connection
           \/ /\ p.connection = NoConnection
              /\ c \notin active["ip"] \cup active["user"]
              /\ \A x \in Request : request[x].connection # c
        /\ active' = [active EXCEPT ![k] = @ \cup {c}]
        /\ Others(r) /\ refused \subseteq refused'
        /\ Begins(p, Enter(k))
        /\ \/ q = None /\ c \in refused'
           \/ /\ q.connection = c
              /\ q.uncounted = p.uncounted
              /\ \A l \in {"ip", "user"} \ {k} : Inside(q, l) => Inside(p, l)
              /\ ~ Begins(q, Leave("user"))
              /\ ~ Begins(q, Do("receive"))
              /\ ~ (Cardinality(active'[k]) > MaxConnections[k])
  BY EnterEffect
<1>2. c # NoConnection /\ \A x \in Request \ {r} : request'[x] = request[x]
  BY <1>1, RequestsAssumption DEF Others
<1>3. None.connection = NoConnection /\ (\A l : ~ Inside(None, l)) /\ \A step : ~ Begins(None, step)
  BY NoneIs
<1>4. /\ active'[k] = active[k] \cup {c}
      /\ \A l \in {"ip", "user"} \ {k} : active'[l] = active[l]
      /\ \A l \in {"ip", "user"} : NoConnection \notin active[l]
  BY <1>1, ActiveIsConnection DEF CountersOK
<1>5. /\ \A x, y \in Request :
            request[x].connection = request[y].connection /\ request[x].connection # NoConnection => x = y
      /\ \A x \in Request : Begins(request[x], Leave("user")) =>
            request[x].connection \notin active["ip"]
      /\ \A l \in {"ip", "user"} :
            active[l] \subseteq refused \cup {request[x].connection : x \in Request}
      /\ EnteredCount
  BY DEF Connected, Distinct, LeftOne, CountedAreOpen, IsAt, Begins
<1>6. \A x \in Request \ {r} : request[x].connection # c
  BY <1>1, <1>2, <1>5
<1>7. q.connection = c \/ q = None
  BY <1>1
<1> HIDE DEF p, q
<1>8. Distinct'
  <2> SUFFICES ASSUME NEW x \in Request, NEW y \in Request,
                      request'[x].connection = request'[y].connection,
                      request'[x].connection # NoConnection
               PROVE  x = y
    BY DEF Distinct
  <2>1. CASE x # r /\ y # r
    BY <1>2, <1>5, <2>1
  <2>2. CASE x = r /\ y # r
    BY <1>2, <1>3, <1>6, <1>7, <2>2 DEF q
  <2>3. CASE x # r /\ y = r
    BY <1>2, <1>3, <1>6, <1>7, <2>3 DEF q
  <2> QED
    BY <2>1, <2>2, <2>3
<1>9. LeftOne'
  <2> SUFFICES ASSUME NEW x \in Request, Begins(request'[x], Leave("user"))
               PROVE  request'[x].connection \notin active'["ip"]
    BY DEF LeftOne, IsAt, Begins
  <2>1. x # r
    BY <1>1, <1>3 DEF q
  <2>2. request[x].connection # c /\ request[x].connection \notin active["ip"]
    BY <1>2, <1>5, <1>6, <2>1
  <2> QED
    BY <1>2, <1>4, <2>1, <2>2
<1>10. CountedAreOpen'
  <2> SUFFICES ASSUME NEW l \in {"ip", "user"}, NEW z \in active'[l], z \notin refused'
               PROVE  \E x \in Request : z = request'[x].connection
    BY DEF CountedAreOpen
  <2>1. CASE z = c
    BY <1>1, <2>1 DEF q
  <2>2. CASE z # c
    <3>1. z \in active[l]
      BY <1>4, <2>2
    <3>2. PICK x \in Request : z = request[x].connection
      BY <1>1, <1>5, <3>1
    <3>3. x # r
      BY <1>1, <1>4, <2>2, <3>1, <3>2 DEF p
    <3> QED
      BY <1>2, <3>2, <3>3
  <2> QED
    BY <2>1, <2>2
<1>11. ASSUME NEW l \in {"ip", "user"}, NEW x \in Entered(l)', l # k \/ x # r
       PROVE  x \in Entered(l) /\ request'[x].connection \in active[l]
  <2>1. x \in Request /\ Inside(request'[x], l) /\ l \notin request'[x].uncounted
    BY DEF Entered
  <2>2. CASE x # r
    BY <1>2, <1>5, <2>1, <2>2 DEF Entered, EnteredCount
  <2>3. CASE x = r
    <3>1. q # None
      BY <1>3, <2>1, <2>3 DEF q
    <3>2. Inside(p, l) /\ q.uncounted = p.uncounted /\ q.connection = c
      BY <1>1, <1>11, <2>1, <2>3, <3>1 DEF q
    <3>3. r \in Entered(l)
      BY <2>1, <2>3, <3>2 DEF Entered, p, q
    <3>4. p.connection \in active[l]
      BY <1>5, <3>3 DEF EnteredCount, p
    <3>5. c = p.connection
      BY <1>1, <1>4, <3>4
    <3> QED
      BY <2>3, <3>2, <3>3, <3>4, <3>5 DEF q
  <2> QED
    BY <2>2, <2>3
<1>12. ASSUME NEW l \in {"ip", "user"}
       PROVE  /\ IsFiniteSet(active'[l])
              /\ \A x \in Entered(l)' : request'[x].connection \in active'[l]
              /\ Cardinality(Entered(l)') <= MaxConnections[l]
  <2>1. CASE l # k
    BY <1>4, <1>5, <1>11, <2>1, FewerEntered
  <2>2. CASE l = k
    <3>1. IsFiniteSet(active'[k])
      <4>1. IsFiniteSet(active[k])
        BY <1>5 DEF EnteredCount
      <4>2. IsFiniteSet(active[k] \cup {c})
        BY <4>1, FS_AddElement
      <4> QED
        BY <1>4, <4>2
    <3>2. \A x \in Entered(k)' : request'[x].connection \in active'[k]
      <4> SUFFICES ASSUME NEW x \in Entered(k)'
                   PROVE  request'[x].connection \in active'[k]
        OBVIOUS
      <4>1. CASE x # r
        BY <1>4, <1>11, <4>1
      <4>2. CASE x = r
        <5>1. q # None
          BY <1>3, <4>2 DEF Entered, q
        <5> QED
          BY <1>4, <1>7, <4>2, <5>1 DEF q
      <4> QED
        BY <4>1, <4>2
    <3>3. CASE q = None
      <4>1. Entered(k)' \subseteq Entered(k)
        <5> SUFFICES ASSUME NEW x \in Entered(k)'
                     PROVE  x \in Entered(k)
          OBVIOUS
        <5>1. x # r
          BY <1>3, <3>3 DEF Entered, q
        <5> QED
          BY <1>11, <5>1
      <4>2. Entered(k) \subseteq Request
        BY DEF Entered
      <4>3. IsFiniteSet(Entered(k)) /\ Cardinality(Entered(k)) \in Nat
        BY <4>2, RequestsAssumption, FS_Subset, FS_CardinalityType
      <4>4. Cardinality(Entered(k)') <= Cardinality(Entered(k)) /\ Cardinality(Entered(k)') \in Nat
        BY <4>1, <4>3, FS_Subset, FS_CardinalityType
      <4>5. Cardinality(Entered(k)) <= MaxConnections[k] /\ MaxConnections[k] \in Nat
        BY <1>5, RequestsAssumption DEF EnteredCount
      <4> QED
        BY <2>2, <3>1, <3>2, <4>3, <4>4, <4>5
    <3>4. CASE q # None
      <4>1. ~ (Cardinality(active'[k]) > MaxConnections[k])
        BY <1>1, <3>4
      <4>2. Cardinality(active'[k]) \in Nat /\ MaxConnections[k] \in Nat
        BY <3>1, FS_CardinalityType, RequestsAssumption
      <4> DEFINE E == Entered(k)'
                 f == [x \in E |-> request'[x].connection]
      <4>3. f \in Injection(E, active'[k])
        <5>1. f \in [E -> active'[k]]
          BY <3>2
        <5>2. ASSUME NEW x \in E, NEW y \in E, f[x] = f[y]
              PROVE  x = y
          <6>1. x \in Request /\ y \in Request
            BY DEF Entered
          <6>2. request'[x].connection = request'[y].connection
            BY <5>2
          <6>3. request'[x].connection # NoConnection
            BY <1>2, <1>4, <3>2
          <6> QED
            BY <1>8, <6>1, <6>2, <6>3 DEF Distinct
        <5>3. DOMAIN f = E
          OBVIOUS
        <5> HIDE DEF f, E
        <5> QED
          BY <5>1, <5>2, <5>3 DEF Injection, IsInjective
      <4>4. IsFiniteSet(E) /\ Cardinality(E) <= Cardinality(active'[k])
        BY <3>1, <4>3, FS_Injection
      <4>5. Cardinality(E) \in Nat
        BY <4>4, FS_CardinalityType
      <4> HIDE DEF f
      <4>6. Cardinality(E) <= MaxConnections[k]
        BY <4>1, <4>2, <4>4, <4>5
      <4> QED
        BY <2>2, <3>1, <3>2, <4>6
    <3> QED
      BY <3>3, <3>4
  <2> QED
    BY <2>1, <2>2
<1>13. EnteredCount'
  BY <1>12 DEF EnteredCount
<1> QED
  BY <1>8, <1>9, <1>10, <1>13 DEF Connected

\* Nobody enters, leaves or comes: only blocks end, or nothing of the connections.
LEMMA SameConnected ==
    ASSUME CountersOK, Connected, active' = active, refused' = refused,
           \A x \in Request : /\ request'[x].connection = request[x].connection
                              /\ request'[x].uncounted = request[x].uncounted
                              /\ request'[x].kind = request[x].kind
                              /\ request'[x].todo = request[x].todo
    PROVE  Connected'
<1>1. Distinct'
  BY DEF Connected, Distinct
<1>2. LeftOne'
  BY DEF Connected, LeftOne, IsAt
<1>3. CountedAreOpen'
  <2>1. \A k \in {"ip", "user"} : active[k] \subseteq refused \cup {request[x].connection : x \in Request}
    BY DEF Connected, CountedAreOpen
  <2>2. {request'[x].connection : x \in Request} = {request[x].connection : x \in Request}
    OBVIOUS
  <2> QED
    BY <2>1, <2>2 DEF CountedAreOpen
<1>4. \A k : Entered(k)' = Entered(k)
  BY DEF Entered, Inside
<1>5. EnteredCount'
  <2> SUFFICES ASSUME NEW k \in {"ip", "user"}
               PROVE  /\ IsFiniteSet(active'[k])
                      /\ \A x \in Entered(k)' : request'[x].connection \in active'[k]
                      /\ Cardinality(Entered(k)') <= MaxConnections[k]
    BY DEF EnteredCount
  <2>1. \A x \in Entered(k) : x \in Request
    BY DEF Entered
  <2>2. Entered(k)' = Entered(k)
    BY <1>4
  <2> QED
    BY <2>1, <2>2 DEF Connected, EnteredCount
<1> QED
  BY <1>1, <1>2, <1>3, <1>5 DEF Connected

\* What is forgotten is not counted, for the chats that go on.
LEMMA ForgetConnected ==
    ASSUME AllOK, CountersOK, Connected, NEW k \in {"ip", "user"}, Forget(k)
    PROVE  Connected'
<1>1. /\ active' = [active EXCEPT ![k] = {}]
      /\ refused' = refused \cap (active'["ip"] \cup active'["user"])
      /\ \A x \in Request : request'[x] = IF request[x].connection \in active[k]
                                          THEN [request[x] EXCEPT !.uncounted = @ \cup {k}]
                                          ELSE request[x]
  BY DEF Forget
<1>2. ASSUME NEW x \in Request
      PROVE  /\ request'[x].connection = request[x].connection
             /\ request'[x].kind = request[x].kind /\ request'[x].todo = request[x].todo
             /\ request'[x].uncounted = IF request[x].connection \in active[k]
                                        THEN request[x].uncounted \cup {k}
                                        ELSE request[x].uncounted
  <2>1. request[x] \in RequestType(blocked)
    BY DEF AllOK
  <2> QED
    BY <1>1, <2>1 DEF RequestType
<1>3. active'[k] = {} /\ \A l \in {"ip", "user"} \ {k} : active'[l] = active[l]
  BY <1>1 DEF CountersOK
<1>4. Distinct'
  <2> SUFFICES ASSUME NEW x \in Request, NEW y \in Request,
                      request'[x].connection = request'[y].connection,
                      request'[x].connection # NoConnection
               PROVE  x = y
    BY DEF Distinct
  <2>1. request[x].connection = request[y].connection /\ request[x].connection # NoConnection
    BY <1>2
  <2> QED
    BY <2>1 DEF Connected, Distinct
<1>5. LeftOne'
  BY <1>2, <1>3 DEF Connected, LeftOne, IsAt
<1>6. CountedAreOpen'
  <2> SUFFICES ASSUME NEW l \in {"ip", "user"}, NEW z \in active'[l], z \notin refused'
               PROVE  \E x \in Request : z = request'[x].connection
    BY DEF CountedAreOpen
  <2>1. z \in active[l]
    BY <1>3
  <2>2. z \notin refused
    BY <1>1
  <2>3. PICK x \in Request : z = request[x].connection
    BY <2>1, <2>2 DEF Connected, CountedAreOpen
  <2> QED
    BY <1>2, <2>3
<1>7. EnteredCount'
  <2> SUFFICES ASSUME NEW l \in {"ip", "user"}
               PROVE  /\ IsFiniteSet(active'[l])
                      /\ \A x \in Entered(l)' : request'[x].connection \in active'[l]
                      /\ Cardinality(Entered(l)') <= MaxConnections[l]
    BY DEF EnteredCount
  <2>1. ASSUME NEW x \in Entered(l)'
        PROVE  x \in Entered(l) /\ request'[x].connection \in active'[l]
    <3>1. x \in Request /\ Inside(request'[x], l) /\ l \notin request'[x].uncounted
      BY DEF Entered
    <3>2. Inside(request[x], l) /\ l \notin request[x].uncounted
      BY <1>2, <3>1 DEF Inside
    <3>3. x \in Entered(l)
      BY <3>1, <3>2 DEF Entered
    <3>4. request[x].connection \in active[l]
      BY <3>3 DEF Connected, EnteredCount
    <3>5. l # k
      BY <1>2, <3>1, <3>4
    <3> QED
      BY <1>2, <1>3, <3>1, <3>3, <3>4, <3>5
  <2>2. Entered(l)' \subseteq Entered(l) /\ active'[l] \subseteq active[l]
    BY <1>3, <2>1
  <2> QED
    BY <2>1, <2>2, FewerEntered DEF Connected
<1> QED
  BY <1>4, <1>5, <1>6, <1>7 DEF Connected

\* No request, no connection.
LEMMA NothingConnected ==
    ASSUME request = [r \in Request |-> None], active = [k \in {"ip", "user"} |-> {}]
    PROVE  Connected
<1>1. \A r \in Request : request[r] = None
  OBVIOUS
<1>2. Distinct /\ LeftOne
  BY <1>1, NoneIs DEF Distinct, LeftOne, IsAt, Begins
<1>3. CountedAreOpen
  BY DEF CountedAreOpen
<1>4. \A k \in {"ip", "user"} : Entered(k) = {}
  BY <1>1, NoneIs DEF Entered
<1>5. EnteredCount
  BY <1>4, FS_EmptySet, RequestsAssumption DEF EnteredCount
<1> QED
  BY <1>2, <1>3, <1>5 DEF Connected

\* Every step keeps the counts.
LEMMA ConnectedStep ==
    ASSUME Orderly, Connected, [Next]_vars
    PROVE  Connected'
<1>1. AllOK /\ CountersOK
  BY OrderlyIs DEF Orderly
<1>2. ASSUME NEW r \in Request, RequestStep(r)
      PROVE  Connected'
  <2>1. PlainStep(r) \/ \E k \in {"ip", "user"} : EnterConnection(r, k)
    BY <1>2 DEF RequestStep, PlainStep
  <2> QED
    BY <1>1, <2>1, PlainConnected, EnterConnected
<1>3. ASSUME NEW k \in Identity, Unblock(k)
      PROVE  Connected'
  <2>1. /\ active' = active /\ refused' = refused
        /\ \A x \in Request : request'[x] = [request[x] EXCEPT !.barred = @ \ {k}]
    BY <1>3 DEF Unblock, connections
  <2>2. \A x \in Request : request[x] \in RequestType(blocked)
    BY <1>1 DEF AllOK
  <2>3. ASSUME NEW x \in Request
        PROVE  /\ request'[x].connection = request[x].connection
               /\ request'[x].uncounted = request[x].uncounted
               /\ request'[x].kind = request[x].kind
               /\ request'[x].todo = request[x].todo
    <3>1. request[x] \in RequestType(blocked) /\ request'[x] = [request[x] EXCEPT !.barred = @ \ {k}]
      BY <2>1, <2>2
    <3> QED
      BY <3>1 DEF RequestType
  <2> QED
    BY <1>1, <2>1, <2>3, SameConnected
<1>4. CASE RestartAll
  <2>1. request' = [r \in Request |-> None] /\ active' = [k \in {"ip", "user"} |-> {}]
    BY <1>4 DEF RestartAll
  <2>2. \A r \in Request : request'[r] = None
    BY <2>1
  <2>3. Distinct' /\ LeftOne'
    BY <2>2, NoneIs DEF Distinct, LeftOne, IsAt, Begins
  <2>4. CountedAreOpen'
    BY <2>1 DEF CountedAreOpen
  <2>5. \A k \in {"ip", "user"} : Entered(k)' = {}
    BY <2>2, NoneIs DEF Entered
  <2>6. EnteredCount'
    BY <2>1, <2>5, FS_EmptySet, RequestsAssumption DEF EnteredCount
  <2> QED
    BY <2>3, <2>4, <2>6 DEF Connected
<1>5. CASE Around
  <2>1. UNCHANGED <<request, blocked, active, refused>>
    BY <1>1, <1>5, AroundOK
  <2> QED
    BY <1>1, <2>1, SameConnected
<1> QED
  BY <1>1, <1>2, <1>3, <1>4, <1>5, NextIs, ForgetConnected

(***************************************************************************)
(* Each connection is one chat's, each chat that has entered and not begun *)
(* to leave has its connection counted, and there are as many of them at   *)
(* most as add_ws_connection let in.                                       *)
(***************************************************************************)
THEOREM AlwaysConnected == Spec => []Connected
<1>1. Init => Connected
  BY NothingConnected DEF Init
<1>2. Orderly /\ Connected /\ [Next]_vars => Connected'
  BY ConnectedStep
<1> QED
  BY <1>1, <1>2, AlwaysOrderly, PTL DEF Spec

\* Only open chats, and those that a guard refused, count against the limit:
\* what the finally block of api/routes/agent.py takes out again.
THEOREM CountedAreOpenHolds == Spec => []CountedAreOpen
<1>1. Connected => CountedAreOpen
  BY DEF Connected
<1> QED
  BY <1>1, AlwaysConnected, PTL

(***************************************************************************)
(* The chats open at the same time for an IP address or a user are within  *)
(* its limit, but for those whose connections the cleanup forgot: a chat   *)
(* in its try block has entered for both, and those who have entered are   *)
(* no more than the connections that were counted when the last one was.   *)
(***************************************************************************)
THEOREM ConnectionsBoundedHolds == Spec => []ConnectionsBounded
<1>1. ASSUME Orderly, Connected
      PROVE  ConnectionsBounded
  <2> SUFFICES ASSUME NEW k \in {"ip", "user"}
               PROVE  Cardinality({r \in Request : Chatting(r) /\ k \notin request[r].uncounted})
                         <= MaxConnections[k]
    BY DEF ConnectionsBounded
  <2> DEFINE C == {r \in Request : Chatting(r) /\ k \notin request[r].uncounted}
  <2>1. ASSUME NEW r \in C
        PROVE  r \in Entered(k)
    <3>1. RequestOK(request[r], blocked)
      BY <1>1, OrderlyIs DEF Orderly, AllOK
    <3>2. /\ request[r].kind = "chat" /\ Range(request[r].todo) \subseteq Talking
          /\ Head(request[r].todo) \notin Leaves
      BY <3>1, ChattingIsInLoop
    <3>3. Enter(k) \notin Talking
      BY DEF Talking, Guards, Leaves, Enter, Guard, Leave, Do
    <3> QED
      BY <3>2, <3>3 DEF Entered, Inside
  <2>2. Entered(k) \subseteq Request
    BY DEF Entered
  <2>3. IsFiniteSet(Entered(k)) /\ Cardinality(Entered(k)) \in Nat
    BY <2>2, RequestsAssumption, FS_Subset, FS_CardinalityType
  <2>4. C \subseteq Entered(k)
    BY <2>1
  <2> HIDE DEF C
  <2>5. Cardinality(C) <= Cardinality(Entered(k)) /\ Cardinality(C) \in Nat
    BY <2>3, <2>4, FS_Subset, FS_CardinalityType
  <2>6. Cardinality(Entered(k)) <= MaxConnections[k] /\ MaxConnections[k] \in Nat
    BY <1>1, RequestsAssumption DEF Connected, EnteredCount
  <2>7. Cardinality(C) <= MaxConnections[k]
    BY <2>3, <2>5, <2>6
  <2> QED
    BY <2>7 DEF C
<1> QED
  BY <1>1, AlwaysOrderly, AlwaysConnected, PTL
-------------------------------------------------------------------------------
(***************************************************************************)
(* The messages: whoever is about to receive one has taken a slot for it.  *)
(***************************************************************************)
LEMMA PaidIs ==
    /\ Paid = {x \in Request : Begins(request[x], Do("receive"))}
    /\ IsFiniteSet(Paid) /\ Cardinality(Paid) \in Nat
    /\ Cardinality(Paid) <= Cardinality(Request)
<1>1. Paid \subseteq Request
  BY DEF Paid
<1> QED
  BY <1>1, RequestsAssumption, FS_Subset, FS_CardinalityType DEF Paid, IsAt, Begins

\* The slots are finitely many.
LEMMA PaidIsToo ==
    /\ Paid' = {x \in Request : Begins(request'[x], Do("receive"))}
    /\ IsFiniteSet(Paid') /\ Cardinality(Paid') \in Nat
    /\ Cardinality(Paid') <= Cardinality(Request)
<1>1. Paid' \subseteq Request
  BY DEF Paid
<1> QED
  BY <1>1, RequestsAssumption, FS_Subset, FS_CardinalityType DEF Paid, IsAt, Begins

\* Slots that are given up.
LEMMA FewerPaid ==
    ASSUME CountersOK, PaidFor, Paid' \subseteq Paid, UNCHANGED limiters
    PROVE  PaidFor'
<1>1. Cardinality(Paid') <= Cardinality(Paid)
  BY PaidIs, FS_Subset
<1>2. /\ Cardinality(Paid) \in Nat /\ Cardinality(Paid') \in Nat /\ Cardinality(Request) \in Nat
      /\ level \in Nat /\ excess \in Nat
  BY PaidIs, PaidIsToo, LimitIsNat DEF CountersOK
<1>3. level' = level /\ excess' = excess /\ pruned' = pruned
  BY DEF limiters
<1>4. ~ pruned => excess + Cardinality(Paid) <= level + Cardinality(Request)
  BY DEF PaidFor
<1>5. ~ pruned => excess + Cardinality(Paid') <= level + Cardinality(Request)
  BY <1>1, <1>2, <1>4
<1> QED
  BY <1>3, <1>5 DEF PaidFor

\* Every step pays for what it lets in.
LEMMA PaidForStep ==
    ASSUME Orderly, PaidFor, [Next]_vars
    PROVE  PaidFor'
<1> DEFINE n == Cardinality(Request)
<1>1. AllOK /\ CountersOK
  BY OrderlyIs DEF Orderly
<1>2. /\ Cardinality(Paid) \in Nat /\ Cardinality(Paid') \in Nat /\ n \in Nat
      /\ level \in Nat /\ excess \in Nat
      /\ Cardinality(Paid) <= n /\ Cardinality(Paid') <= n
  BY <1>1, PaidIs, PaidIsToo, LimitIsNat DEF CountersOK
<1>3. ~ pruned => excess + Cardinality(Paid) <= level + n
  BY DEF PaidFor
<1>4. ASSUME NEW r \in Request, PlainStep(r), ~ TakeSlot(r), ~ Receive(r)
      PROVE  PaidFor'
  <2>1. Effect(r)
    BY <1>1, <1>4, PlainEffect
  <2>2. Paid' \subseteq Paid
    BY <1>4, <2>1, PaidIs, PaidIsToo DEF Effect, Others
  <2>3. UNCHANGED limiters
    BY <1>4 DEF PlainStep, Arrive, CheckBlocked, PassGuard, LeaveConnection, Respond, Fail,
                Register, Answer, limiters
  <2> QED
    BY <1>1, <2>2, <2>3, FewerPaid
<1>5. ASSUME NEW r \in Request, NEW k \in {"ip", "user"}, EnterConnection(r, k)
      PROVE  PaidFor'
  <2>1. Others(r) /\ ~ Begins(request'[r], Do("receive"))
    BY <1>1, <1>5, EnterEffect, NoneIs
  <2>2. Paid' \subseteq Paid
    BY <2>1, PaidIs, PaidIsToo DEF Others
  <2>3. UNCHANGED limiters
    BY <1>5 DEF EnterConnection
  <2> QED
    BY <1>1, <2>2, <2>3, FewerPaid
<1>6. ASSUME NEW r \in Request, TakeSlot(r)
      PROVE  PaidFor'
  <2>1. Others(r)
    BY <1>1, <1>6, PlainEffect DEF PlainStep, Effect
  <2>2. Paid' \subseteq Paid \cup {r}
    BY <2>1, PaidIs, PaidIsToo DEF Others
  <2>3. /\ IsFiniteSet(Paid \cup {r})
        /\ Cardinality(Paid \cup {r}) \in Nat
        /\ Cardinality(Paid \cup {r}) <= Cardinality(Paid) + 1
    <3>1. IsFiniteSet(Paid)
      BY PaidIs
    <3>2. /\ IsFiniteSet(Paid \cup {r})
          /\ Cardinality(Paid \cup {r}) = IF r \in Paid THEN Cardinality(Paid) ELSE Cardinality(Paid) + 1
      BY <3>1, FS_AddElement
    <3> QED
      BY <1>2, <3>2
  <2>4. Cardinality(Paid') <= Cardinality(Paid \cup {r})
    BY <2>2, <2>3, FS_Subset
  <2>5. pruned' = pruned /\ excess' = excess /\ (pruned \/ level' = level + 1)
    BY <1>6 DEF TakeSlot
  <2>6. ~ pruned => excess + Cardinality(Paid') <= level + 1 + n
    BY <1>2, <1>3, <2>3, <2>4
  <2>7. ~ pruned' => excess' + Cardinality(Paid') <= level' + n
    BY <1>2, <2>5, <2>6
  <2> QED
    BY <2>7 DEF PaidFor
<1>7. ASSUME NEW r \in Request, Receive(r)
      PROVE  PaidFor'
  <2>1. Others(r) /\ (Begins(request'[r], Do("receive")) => TakeSlot(r))
    BY <1>1, <1>7, PlainEffect DEF PlainStep, Effect
  <2>2. ~ TakeSlot(r) /\ r \in Paid
    <3>1. Do("slot") # Do("receive")
      BY DEF Do
    <3> QED
      BY <1>7, <3>1, PaidIs DEF TakeSlot, Receive, IsAt, Begins
  <2>3. Paid' \subseteq Paid \ {r}
    BY <2>1, <2>2, PaidIs, PaidIsToo DEF Others
  <2>4. /\ IsFiniteSet(Paid \ {r}) /\ Cardinality(Paid \ {r}) = Cardinality(Paid) - 1
    BY <2>2, PaidIs, FS_RemoveElement
  <2>5. Cardinality(Paid') <= Cardinality(Paid \ {r})
    BY <2>3, <2>4, FS_Subset
  <2>6. pruned' = pruned /\ level' = level /\ (excess' = excess \/ excess' = excess + 1)
    BY <1>7 DEF Receive
  <2>7. Cardinality(Paid') <= Cardinality(Paid) - 1
    BY <2>4, <2>5
  <2>8. ~ pruned' => excess' + Cardinality(Paid') <= level' + n
    BY <1>2, <1>3, <2>6, <2>7
  <2> QED
    BY <2>8 DEF PaidFor
<1>8. ASSUME NEW k, Unblock(k)
      PROVE  PaidFor'
  <2>1. \A x \in Request : request'[x].todo = request[x].todo
    <3>1. \A x \in Request : request[x] \in RequestType(blocked)
      BY <1>1 DEF AllOK
    <3> SUFFICES ASSUME NEW x \in Request
                 PROVE  request'[x].todo = request[x].todo
      OBVIOUS
    <3>2. request'[x] = [request[x] EXCEPT !.barred = @ \ {k}]
      BY <1>8 DEF Unblock
    <3> QED
      BY <3>1, <3>2 DEF RequestType
  <2>2. Paid' \subseteq Paid
    BY <2>1, PaidIs, PaidIsToo DEF Begins
  <2> QED
    BY <1>1, <1>8, <2>2, FewerPaid DEF Unblock
<1>9. ASSUME NEW k \in {"ip", "user"}, Forget(k)
      PROVE  PaidFor'
  <2>1. \A x \in Request : request'[x].todo = request[x].todo
    <3>1. \A x \in Request : request[x] \in RequestType(blocked)
      BY <1>1 DEF AllOK
    <3> SUFFICES ASSUME NEW x \in Request
                 PROVE  request'[x].todo = request[x].todo
      OBVIOUS
    <3>2. request'[x] = [request[x] EXCEPT !.uncounted = @ \cup {k}] \/ request'[x] = request[x]
      BY <1>9 DEF Forget
    <3> QED
      BY <3>1, <3>2 DEF RequestType
  <2>2. Paid' \subseteq Paid
    BY <2>1, PaidIs, PaidIsToo DEF Begins
  <2> QED
    BY <1>1, <1>9, <2>2, FewerPaid DEF Forget
<1>10. CASE RestartAll
  <2>1. level' = 0 /\ excess' = 0
    BY <1>10 DEF RestartAll
  <2> QED
    BY <1>2, <2>1 DEF PaidFor
<1>11. CASE Prune
  BY <1>11 DEF Prune, DeleteLimiter, PaidFor
<1>12. CASE Leak
  <2>1. /\ level' = IF level > 0 THEN level - 1 ELSE 0
        /\ excess' = IF excess > 0 THEN excess - 1 ELSE 0
        /\ pruned' = pruned /\ request' = request
    BY <1>12 DEF Leak
  <2>2. Paid' = Paid
    BY <2>1 DEF Paid, IsAt
  <2>3. ~ pruned => excess' + Cardinality(Paid) <= level' + n
    BY <1>2, <1>3, <2>1
  <2> QED
    BY <2>1, <2>2, <2>3 DEF PaidFor
<1>13. CASE UNCHANGED requests
  <2>1. Paid' = Paid /\ UNCHANGED limiters
    BY <1>13 DEF requests, Paid, IsAt, limiters
  <2> QED
    BY <1>1, <2>1, FewerPaid
<1>14. ASSUME NEW r \in Request, RequestStep(r)
       PROVE  PaidFor'
  <2>1. PlainStep(r) \/ \E k \in {"ip", "user"} : EnterConnection(r, k)
    BY <1>14 DEF RequestStep, PlainStep
  <2> QED
    BY <1>4, <1>5, <1>6, <1>7, <2>1
<1>15. CASE Around
  BY <1>11, <1>12, <1>13, <1>15 DEF Around, Shut, vars
<1> QED
  BY <1>8, <1>9, <1>10, <1>14, <1>15, NextIs

(***************************************************************************)
(* The chats of a user, opened and closed in any order, receive no more    *)
(* messages than one limiter lets through, but for the one each of them    *)
(* has a slot for: the limiter of AGENT_MESSAGING is taken before each.    *)
(***************************************************************************)
THEOREM AllowanceBoundedHolds == Spec => []AllowanceBounded
<1>1. Init => PaidFor
  <2>1. ASSUME Init
        PROVE  excess = 0 /\ level = 0
    BY <2>1 DEF Init
  <2>2. Cardinality(Paid) \in Nat /\ Cardinality(Request) \in Nat
        /\ Cardinality(Paid) <= Cardinality(Request)
    BY PaidIs, LimitIsNat
  <2> QED
    BY <2>1, <2>2 DEF PaidFor
<1>2. Orderly /\ PaidFor /\ [Next]_vars => PaidFor'
  BY PaidForStep
<1>3. Orderly /\ PaidFor => AllowanceBounded
  <2> SUFFICES ASSUME Orderly, PaidFor, ~ pruned
               PROVE  excess <= Limit
    BY DEF AllowanceBounded
  <2>1. CountersOK
    BY OrderlyIs DEF Orderly
  <2>2. Cardinality(Paid) \in Nat /\ excess \in Nat /\ level \in Nat /\ level <= MaxMessages
    BY <2>1, PaidIs, LimitIsNat DEF CountersOK
  <2>3. excess + Cardinality(Paid) <= level + Cardinality(Request)
    BY DEF PaidFor
  <2> QED
    BY <2>2, <2>3, LimitIsNat DEF Limit
<1> QED
  BY <1>1, <1>2, <1>3, AlwaysOrderly, PTL DEF Spec
===============================================================================
