---------------------------- MODULE ScenariosProofs ----------------------------
(***************************************************************************)
(* What holds of the tables and of the advice for any seed and any number  *)
(* of scenarios, resets and failing statements.  The proofs follow the     *)
(* statements that are left of the running job: which of them must still   *)
(* come for the tables to agree.                                           *)
(***************************************************************************)
EXTENDS Scenarios, SequenceTheorems, FiniteSetTheorems, WellFoundedInduction, TLAPS

TheEvents == {Weather, RoadClosure, PortStrike}
TheTables == {"disruptions", "routes", "carriers", "shipments", "assets"}
TheClosed == {"R05", "R06", "R09", "R13", "R14"}

StatementSet ==
    {Statement(op, x) : op \in {"enter", "delay"}, x \in TheEvents}
    \cup {Statement("close", r) : r \in TheClosed}
    \cup {Statement(op, c) : op \in {"recall", "risk"}, c \in CarrierTargets}
    \cup {Statement(op, a) : op \in {"ground", "move"}, a \in AssetTargets}
    \cup {Statement("surge", "shipments")}
    \cup {Statement(op, t) : op \in {"clear", "seed"}, t \in TheTables}

ResetOps == {"clear", "seed"}

\* A job is all of a reset or has nothing of one.
Uniform(j) ==
    \/ \A i \in 1..Len(j) : j[i].op \in ResetOps
    \/ \A i \in 1..Len(j) : j[i].op \notin ResetOps

\* What is entered is closed later in the job, what is cleared is filled later.
Followed(j) ==
    \A i \in 1..Len(j) :
        /\ j[i].op = "enter" =>
               \A r \in Range(j[i].on.routes) : \E k \in i + 1 .. Len(j) : j[k] = Statement("close", r)
        /\ j[i].op = "clear" => \E k \in i + 1 .. Len(j) : j[k] = Statement("seed", j[i].on)

\* The job of a reset ends with a seed.
EndsWell(j) ==
    j # <<>> => (j[Len(j)].op = "seed" <=> \A i \in 1..Len(j) : j[i].op \in ResetOps)

JobOK(j) == j \in Seq(StatementSet) /\ Uniform(j) /\ Followed(j) /\ EndsWell(j)

\* No route is closed before its event is entered: what is left to close has
\* been entered, or is entered earlier in the job.
EnteredFirst(j) ==
    \A i \in 1..Len(j) : j[i].op = "close" =>
        \E k \in 1 .. i - 1 : j[k].op = "enter" /\ j[i].on \in Range(j[k].on.routes)

SeedsAll(j) == \A t \in TheTables : \E k \in 1..Len(j) : j[k] = Statement("seed", t)

\* Concatenation by places, both halves from one.
LEMMA Places ==
    ASSUME NEW S, NEW a \in Seq(S), NEW b \in Seq(S)
    PROVE  /\ a \o b \in Seq(S) /\ Len(a) \in Nat /\ Len(b) \in Nat
           /\ Len(a \o b) = Len(a) + Len(b)
           /\ \A i \in 1..Len(a) : (a \o b)[i] = a[i]
           /\ \A i \in 1..Len(b) : (a \o b)[Len(a) + i] = b[i]
BY ConcatProperties, LenProperties

LEMMA NothingLeft == Len(<<>>) = 0
<1>1. <<>> \in Seq({}) /\ Len(<<>>) = 0
  BY EmptySeq
<1> QED
  BY <1>1

LEMMA EventsTyped ==
    ASSUME NEW x \in TheEvents
    PROVE  /\ x.routes \in Seq(TheClosed) /\ Len(x.routes) \in {1, 2}
           /\ Range(x.routes) = {x.routes[i] : i \in 1..Len(x.routes)}
           /\ Range(x.routes) \subseteq TheClosed
<1>1. /\ x.routes \in Seq(TheClosed) /\ Len(x.routes) \in {1, 2}
      /\ DOMAIN x.routes = 1..Len(x.routes)
  <2>1. \/ x.routes = <<"R05", "R13">>
        \/ x.routes = <<"R06">>
        \/ x.routes = <<"R09", "R14">>
    BY DEF TheEvents, Weather, RoadClosure, PortStrike
  <2>2. ASSUME NEW p \in TheClosed, NEW q \in TheClosed
        PROVE  /\ <<p, q>> \in Seq(TheClosed) /\ Len(<<p, q>>) = 2 /\ DOMAIN <<p, q>> = 1..2
               /\ <<p>> \in Seq(TheClosed) /\ Len(<<p>>) = 1 /\ DOMAIN <<p>> = 1..1
    OBVIOUS
  <2> QED
    BY <2>1, <2>2 DEF TheClosed
<1> QED
  BY <1>1, ElementOfSeq DEF Range

\* The statements of an event by their place in the job.
LEMMA EventJobIs ==
    ASSUME NEW x \in TheEvents
    PROVE  LET n == Len(x.routes)
               j == EventJob(x)
           IN  /\ j \in Seq(StatementSet) /\ Len(j) = n + 2
               /\ j[1] = Statement("enter", x) /\ j[n + 2] = Statement("delay", x)
               /\ \A i \in 1..n : j[i + 1] = Statement("close", x.routes[i])
<1> DEFINE n == Len(x.routes)
           a == <<Statement("enter", x)>>
           b == [i \in 1..n |-> Statement("close", x.routes[i])]
           c == <<Statement("delay", x)>>
<1>1. n \in Nat /\ \A i \in 1..n : x.routes[i] \in TheClosed
  BY EventsTyped, ElementOfSeq
<1>2. /\ a \in Seq(StatementSet) /\ Len(a) = 1 /\ a[1] = Statement("enter", x)
      /\ c \in Seq(StatementSet) /\ Len(c) = 1 /\ c[1] = Statement("delay", x)
  BY DEF StatementSet
<1>3. b \in Seq(StatementSet) /\ Len(b) = n
  <2>1. \A i \in 1..n : Statement("close", x.routes[i]) \in StatementSet
    BY <1>1 DEF StatementSet
  <2> QED
    BY <1>1, <2>1, SeqDef
<1>4. \A i \in 1..n : b[i] = Statement("close", x.routes[i])
  OBVIOUS
<1>5. EventJob(x) = (a \o b) \o c
  BY DEF EventJob
<1> HIDE DEF a, b, c
<1> PICK ab : ab = a \o b
  OBVIOUS
<1>6. /\ ab \in Seq(StatementSet) /\ Len(ab) = n + 1
      /\ ab[1] = a[1] /\ \A i \in 1..n : ab[i + 1] = b[i]
  <2>1. a \in Seq(StatementSet) /\ b \in Seq(StatementSet)
    BY <1>2, <1>3
  <2>2. /\ ab \in Seq(StatementSet) /\ Len(ab) = Len(a) + Len(b)
        /\ \A i \in 1..Len(a) : ab[i] = a[i]
        /\ \A i \in 1..Len(b) : ab[Len(a) + i] = b[i]
    BY ONLY <2>1, Places, ab = a \o b
  <2> HIDE DEF n
  <2>3. /\ Len(ab) = n + 1 /\ ab[1] = a[1]
        /\ \A i \in 1..n : ab[1 + i] = b[i]
    BY <1>1, <1>2, <1>3, <2>2
  <2> QED
    BY <1>1, <2>2, <2>3
<1>7. /\ ab \o c \in Seq(StatementSet) /\ Len(ab \o c) = Len(ab) + Len(c)
      /\ \A i \in 1..Len(ab) : (ab \o c)[i] = ab[i]
      /\ \A i \in 1..Len(c) : (ab \o c)[Len(ab) + i] = c[i]
  <2>1. ab \in Seq(StatementSet) /\ c \in Seq(StatementSet)
    BY <1>2, <1>6
  <2> QED
    BY ONLY <2>1, Places
<1>8. (ab \o c)[n + 2] = c[1]
  <2>1. (ab \o c)[Len(ab) + 1] = c[1]
    BY <1>2, <1>7
  <2>2. Len(ab) + 1 = n + 2
    BY <1>1, <1>6
  <2> QED
    BY <2>1, <2>2
<1>9. Len(ab \o c) = n + 2
  BY <1>1, <1>2, <1>6, <1>7
<1>10. \A i \in 1..n + 1 : (ab \o c)[i] = ab[i]
  BY <1>6, <1>7
<1> QED
  BY <1>1, <1>2, <1>4, <1>5, <1>6, <1>7, <1>8, <1>9, <1>10

LEMMA EventJobOK ==
    ASSUME NEW x \in TheEvents
    PROVE  /\ JobOK(EventJob(x)) /\ EnteredFirst(EventJob(x)) /\ EventJob(x) # <<>>
           /\ \A i \in 1..Len(EventJob(x)) : EventJob(x)[i].op \notin ResetOps
<1> DEFINE n == Len(x.routes)
           j == EventJob(x)
<1>1. n \in {1, 2} /\ Range(x.routes) = {x.routes[i] : i \in 1..n}
  BY EventsTyped
<1>2. /\ j \in Seq(StatementSet) /\ Len(j) = n + 2
      /\ j[1] = Statement("enter", x) /\ j[n + 2] = Statement("delay", x)
      /\ \A i \in 1..n : j[i + 1] = Statement("close", x.routes[i])
  BY EventJobIs
<1> HIDE DEF j, n
<1>3. \A i \in 1..n + 2 : i = 1 \/ i = n + 2 \/ (i - 1 \in 1..n /\ j[i] = Statement("close", x.routes[i - 1]))
  BY <1>1, <1>2
<1>4. \A i \in 1..Len(j) : j[i].op \notin ResetOps
  BY <1>1, <1>2, <1>3 DEF Statement, ResetOps
<1>5. EnteredFirst(j)
  <2> SUFFICES ASSUME NEW i \in 1..Len(j), j[i].op = "close"
               PROVE  \E k \in 1 .. i - 1 : j[k].op = "enter" /\ j[i].on \in Range(j[k].on.routes)
    BY DEF EnteredFirst
  <2>1. i # 1 /\ i # n + 2
    BY <1>2 DEF Statement
  <2>2. j[i].on \in Range(x.routes) /\ i - 1 \in 1..n
    BY <1>1, <1>2, <1>3, <2>1 DEF Statement
  <2> WITNESS 1 \in 1 .. i - 1
  <2> QED
    BY <1>2, <2>2 DEF Statement
<1>6. Followed(j)
  <2> SUFFICES ASSUME NEW i \in 1..Len(j)
               PROVE  /\ j[i].op = "enter" =>
                             \A r \in Range(j[i].on.routes) :
                                 \E k \in i + 1 .. Len(j) : j[k] = Statement("close", r)
                      /\ j[i].op # "clear"
    BY DEF Followed
  <2>1. j[i].op # "clear"
    BY <1>4 DEF ResetOps
  <2>2. ASSUME j[i].op = "enter", NEW r \in Range(j[i].on.routes)
        PROVE  \E k \in i + 1 .. Len(j) : j[k] = Statement("close", r)
    <3>1. i = 1 /\ j[i].on = x
      BY <2>2, <1>1, <1>2, <1>3 DEF Statement
    <3>2. PICK m \in 1..n : r = x.routes[m]
      BY <2>2, <3>1, <1>1
    <3> QED
      BY <3>1, <3>2, <1>1, <1>2
  <2> QED
    BY <2>1, <2>2
<1>7. Uniform(j) /\ EndsWell(j) /\ j # <<>>
  BY <1>1, <1>2, <1>4 DEF Uniform, EndsWell, ResetOps
<1> QED
  BY <1>2, <1>4, <1>5, <1>6, <1>7 DEF JobOK, j

\* The statements of a reset by their place: five that clear, then a clear and a
\* seed for each table.
LEMMA ResetJobIs ==
    /\ ResetJob \in Seq(StatementSet) /\ Len(ResetJob) = 15
    /\ \A t \in 1..5 : /\ TableNames[t] \in TheTables
                       /\ ResetJob[t] = Statement("clear", TableNames[t])
                       /\ ResetJob[4 + 2 * t] = Statement("clear", TableNames[t])
                       /\ ResetJob[5 + 2 * t] = Statement("seed", TableNames[t])
<1> PICK Clears : Clears = [i \in 1..5 |-> Statement("clear", TableNames[i])]
  OBVIOUS
<1>1. \A t \in 1..5 : TableNames[t] \in TheTables
  BY DEF TableNames, TheTables
<1>2. Clears \in Seq(StatementSet) /\ Len(Clears) = 5
  <2>1. \A t \in 1..5 : Statement("clear", TableNames[t]) \in StatementSet
    BY <1>1 DEF StatementSet
  <2> QED
    BY <2>1, SeqDef
<1>3. SeedJob \in Seq(StatementSet) /\ Len(SeedJob) = 10
  <2>1. \A i \in 1..10 : (i + 1) \div 2 \in 1..5
    OBVIOUS
  <2>2. \A i \in 1..10 : Statement(IF i % 2 = 1 THEN "clear" ELSE "seed",
                                   TableNames[(i + 1) \div 2]) \in StatementSet
    BY <1>1, <2>1 DEF StatementSet
  <2> QED
    BY <2>2, SeqDef DEF SeedJob
<1>4. \A t \in 1..5 : /\ SeedJob[2 * t - 1] = Statement("clear", TableNames[t])
                      /\ SeedJob[2 * t] = Statement("seed", TableNames[t])
  <2>1. /\ 1 % 2 = 1 /\ 3 % 2 = 1 /\ 5 % 2 = 1 /\ 7 % 2 = 1 /\ 9 % 2 = 1
        /\ 2 % 2 = 0 /\ 4 % 2 = 0 /\ 6 % 2 = 0 /\ 8 % 2 = 0 /\ 10 % 2 = 0
    OBVIOUS
  <2>2. /\ 2 \div 2 = 1 /\ 3 \div 2 = 1 /\ 4 \div 2 = 2 /\ 5 \div 2 = 2 /\ 6 \div 2 = 3
        /\ 7 \div 2 = 3 /\ 8 \div 2 = 4 /\ 9 \div 2 = 4 /\ 10 \div 2 = 5 /\ 11 \div 2 = 5
    OBVIOUS
  <2>3. \A i \in 1..10 : SeedJob[i] = Statement(IF i % 2 = 1 THEN "clear" ELSE "seed",
                                                TableNames[(i + 1) \div 2])
    BY DEF SeedJob
  <2>4. /\ SeedJob[1] = Statement("clear", TableNames[1]) /\ SeedJob[2] = Statement("seed", TableNames[1])
        /\ SeedJob[3] = Statement("clear", TableNames[2]) /\ SeedJob[4] = Statement("seed", TableNames[2])
        /\ SeedJob[5] = Statement("clear", TableNames[3]) /\ SeedJob[6] = Statement("seed", TableNames[3])
        /\ SeedJob[7] = Statement("clear", TableNames[4]) /\ SeedJob[8] = Statement("seed", TableNames[4])
        /\ SeedJob[9] = Statement("clear", TableNames[5]) /\ SeedJob[10] = Statement("seed", TableNames[5])
    BY <2>1, <2>2, <2>3
  <2>5. \A t \in 1..5 : t = 1 \/ t = 2 \/ t = 3 \/ t = 4 \/ t = 5
    OBVIOUS
  <2> QED
    BY <2>4, <2>5
<1>5. /\ ResetJob \in Seq(StatementSet) /\ Len(ResetJob) = 15
      /\ \A i \in 1..5 : ResetJob[i] = Clears[i]
      /\ \A i \in 1..10 : ResetJob[5 + i] = SeedJob[i]
  <2>1. /\ Clears \o SeedJob \in Seq(StatementSet)
        /\ Len(Clears \o SeedJob) = Len(Clears) + Len(SeedJob)
        /\ \A i \in 1..Len(Clears) : (Clears \o SeedJob)[i] = Clears[i]
        /\ \A i \in 1..Len(SeedJob) : (Clears \o SeedJob)[Len(Clears) + i] = SeedJob[i]
    <3>1. Clears \in Seq(StatementSet) /\ SeedJob \in Seq(StatementSet)
      BY <1>2, <1>3
    <3> QED
      BY ONLY <3>1, Places
  <2>2. ResetJob = Clears \o SeedJob
    BY DEF ResetJob
  <2>3. \A i \in 1..5 : i \in 1..Len(Clears)
    BY <1>2
  <2>4. \A i \in 1..10 : i \in 1..Len(SeedJob) /\ Len(Clears) + i = 5 + i
    BY <1>2, <1>3
  <2>5. Len(Clears) + Len(SeedJob) = 15
    BY <1>2, <1>3
  <2> QED
    BY <2>1, <2>2, <2>3, <2>4, <2>5
<1>6. \A t \in 1..5 : /\ 2 * t - 1 \in 1..10 /\ 5 + (2 * t - 1) = 4 + 2 * t
                      /\ 2 * t \in 1..10
  OBVIOUS
<1> QED
  BY <1>1, <1>4, <1>5, <1>6

LEMMA ResetJobOK ==
    /\ JobOK(ResetJob) /\ SeedsAll(ResetJob) /\ ResetJob # <<>>
    /\ \A i \in 1..Len(ResetJob) : ResetJob[i].op \in ResetOps
<1>1. \A t \in TheTables : \E u \in 1..5 : t = TableNames[u]
  BY DEF TheTables, TableNames
<1>2. \A i \in 1..15 : \E u \in 1..5 : i = u \/ i = 4 + 2 * u \/ i = 5 + 2 * u
  OBVIOUS
<1>3. ASSUME NEW i \in 1..15
      PROVE  /\ ResetJob[i].op \in ResetOps
             /\ ResetJob[i].op = "clear" =>
                    \E k \in i + 1 .. 15 : ResetJob[k] = Statement("seed", ResetJob[i].on)
  <2> PICK u \in 1..5 : i = u \/ i = 4 + 2 * u \/ i = 5 + 2 * u
    BY <1>2
  <2>1. /\ ResetJob[5 + 2 * u] = Statement("seed", TableNames[u])
        /\ ResetJob[i] \in {Statement("clear", TableNames[u]), Statement("seed", TableNames[u])}
    BY ResetJobIs
  <2>2. i # 5 + 2 * u => 5 + 2 * u \in i + 1 .. 15
    OBVIOUS
  <2> QED
    BY <2>1, <2>2 DEF Statement, ResetOps
<1>4. SeedsAll(ResetJob)
  <2> SUFFICES ASSUME NEW t \in TheTables
               PROVE  \E k \in 1..15 : ResetJob[k] = Statement("seed", t)
    BY ResetJobIs DEF SeedsAll
  <2> PICK u \in 1..5 : t = TableNames[u]
    BY <1>1
  <2>1. 5 + 2 * u \in 1..15
    OBVIOUS
  <2> QED
    BY <2>1, ResetJobIs
<1>5. ResetJob[15].op = "seed"
  <2>1. ResetJob[5 + 2 * 5] = Statement("seed", TableNames[5])
    BY ResetJobIs
  <2> QED
    BY <2>1 DEF Statement
<1>6. Followed(ResetJob) /\ Uniform(ResetJob) /\ EndsWell(ResetJob) /\ ResetJob # <<>>
  <2>1. \A i \in 1..15 : ResetJob[i].op # "enter"
    BY <1>3 DEF ResetOps
  <2>2. Len(ResetJob) = 15
    BY ResetJobIs
  <2>3. Followed(ResetJob)
    BY <1>3, <2>1, <2>2 DEF Followed
  <2>4. \A i \in 1..Len(ResetJob) : ResetJob[i].op \in ResetOps
    BY <1>3, <2>2
  <2>5. ResetJob # <<>>
    <3>1. ASSUME NEW j, j = <<>>
          PROVE  Len(j) = 0
      BY <3>1, NothingLeft
    <3> QED
      BY <2>2, <3>1
  <2> QED
    BY <1>5, <2>2, <2>3, <2>4, <2>5 DEF Uniform, EndsWell
<1> QED
  BY <1>3, <1>4, <1>6, ResetJobIs DEF JobOK

-----------------------------------------------------------------------------
(* The inductive invariant *)

DisruptionSet ==
    Range(SeedDisruptions)
    \cup {[routes |-> Range(x.routes), severity |-> x.severity, status |-> "ACTIVE"] : x \in TheEvents}

Typed ==
    /\ disruptions \in Seq(DisruptionSet)
    /\ DOMAIN routes \in {{}, DOMAIN SeedRoutes} /\ \A r \in DOMAIN routes : routes[r] \in RouteRow
    /\ \A c \in DOMAIN carriers : carriers[c] \in CarrierRow
    /\ DOMAIN shipments \subseteq DOMAIN SeedShipments \cup DOMAIN Surge
    /\ IsFiniteSet(DOMAIN assets)
    /\ failed \in {"nothing", "scenario", "reset"}
    /\ job = <<>> => before = <<>>

IsSeeded(t) ==
    /\ t = "disruptions" => disruptions = SeedDisruptions
    /\ t = "routes" => routes = SeedRoutes
    /\ t = "carriers" => carriers = SeedCarriers
    /\ t = "shipments" => shipments = SeedShipments
    /\ t = "assets" => assets = SeedAssets

Left(statement) == \E k \in 1..Len(job) : job[k] = statement

\* A reset still has to fill what is not as it was seeded.
SeedingOK == Resetting => \A t \in TheTables : IsSeeded(t) \/ Left(Statement("seed", t))

\* A closure is explained, one that is left will be by then.
ClosedOK ==
    Whole =>
        /\ \A r \in DOMAIN routes : routes[r].down => SeedRoutes[r].down \/ Naming(r) # {}
        /\ \A i \in 1..Len(job) : job[i].op = "close" =>
               \/ Naming(job[i].on) # {}
               \/ \E k \in 1 .. i - 1 : job[k].op = "enter" /\ job[i].on \in Range(job[k].on.routes)

Shut(r) == r \in DOMAIN routes => routes[r].down

\* Unless a scenario has failed its routes are shut, or will be.
AvoidedOK ==
    failed = "nothing" /\ ~Resetting =>
        \A i \in Simulated : \A r \in disruptions[i].routes : Shut(r) \/ Left(Statement("close", r))

Inv == Typed /\ JobOK(job) /\ SeedingOK /\ ClosedOK /\ AvoidedOK

-----------------------------------------------------------------------------
LEMMA StatementsTyped ==
    ASSUME NEW z \in StatementSet
    PROVE  /\ z.op = "enter" => z.on \in TheEvents
           /\ z.op \in ResetOps => z.on \in TheTables /\ z = Statement(z.op, z.on)
BY DEF StatementSet, Statement, ResetOps

\* What is left of a job after its first statement is a job.
LEMMA TailOK ==
    ASSUME NEW j, JobOK(j), j # <<>>
    PROVE  /\ JobOK(Tail(j)) /\ Head(j) = j[1] /\ Head(j) \in StatementSet
           /\ Len(j) \in Nat \ {0} /\ Len(Tail(j)) = Len(j) - 1
           /\ \A i \in 1..Len(Tail(j)) : Tail(j)[i] = j[i + 1]
           /\ Tail(j) = <<>> <=> Len(j) = 1
<1>1. /\ Head(j) = j[1] /\ Head(j) \in StatementSet /\ Tail(j) \in Seq(StatementSet)
      /\ Len(j) \in Nat \ {0} /\ Len(Tail(j)) = Len(j) - 1
      /\ \A i \in 1..Len(Tail(j)) : Tail(j)[i] = j[i + 1]
      /\ Tail(j) = <<>> <=> Len(j) = 1
  <2>1. j \in Seq(StatementSet)
    BY DEF JobOK
  <2>2. /\ Head(j) \in StatementSet /\ Tail(j) \in Seq(StatementSet)
        /\ Len(j) \in Nat \ {0} /\ Len(Tail(j)) = Len(j) - 1
        /\ \A i \in 1..Len(Tail(j)) : Tail(j)[i] = j[i + 1]
    BY <2>1, HeadTailProperties, EmptySeq
  <2>3. Head(j) = j[1]
    BY <2>1
  <2>4. Tail(j) = <<>> => Len(Tail(j)) = 0
    BY NothingLeft
  <2>5. Tail(j) # <<>> => Len(Tail(j)) \in Nat \ {0}
    BY <2>2, EmptySeq
  <2> QED
    BY <2>2, <2>3, <2>4, <2>5
<1> PICK n \in Nat \ {0} : n = Len(j)
  BY <1>1
<1> PICK u : u = Tail(j)
  OBVIOUS
<1>2. Len(u) = n - 1 /\ \A i \in 1..n - 1 : i + 1 \in 1..n /\ u[i] = j[i + 1]
  BY <1>1
<1>3. Uniform(u)
  BY <1>2 DEF JobOK, Uniform
<1>4. Followed(u)
  <2> SUFFICES ASSUME NEW i \in 1..Len(u)
               PROVE  /\ u[i].op = "enter" =>
                             \A r \in Range(u[i].on.routes) :
                                 \E k \in i + 1 .. Len(u) : u[k] = Statement("close", r)
                      /\ u[i].op = "clear" =>
                             \E k \in i + 1 .. Len(u) : u[k] = Statement("seed", u[i].on)
    BY DEF Followed
  <2> i \in 1..n - 1
    BY <1>2
  <2>1. ASSUME NEW x, \E k \in i + 2 .. n : j[k] = x
        PROVE  \E k \in i + 1 .. Len(u) : u[k] = x
    <3> PICK k \in i + 2 .. n : j[k] = x
      BY <2>1
    <3>1. k - 1 \in i + 1 .. Len(u) /\ k - 1 \in 1..n - 1 /\ (k - 1) + 1 = k
      BY <1>2
    <3>2. u[k - 1] = x
      BY <1>2, <3>1
    <3> QED
      BY <3>1, <3>2
  <2>2. u[i] = j[i + 1] /\ i + 1 \in 1..n /\ (i + 1) + 1 = i + 2
    BY <1>2
  <2>3. /\ j[i + 1].op = "enter" =>
               \A r \in Range(j[i + 1].on.routes) :
                   \E k \in i + 2 .. n : j[k] = Statement("close", r)
        /\ j[i + 1].op = "clear" =>
               \E k \in i + 2 .. n : j[k] = Statement("seed", j[i + 1].on)
    BY <2>2 DEF JobOK, Followed
  <2>4. ASSUME u[i].op = "enter", NEW r \in Range(u[i].on.routes)
        PROVE  \E k \in i + 1 .. Len(u) : u[k] = Statement("close", r)
    <3>1. \E k \in i + 2 .. n : j[k] = Statement("close", r)
      BY ONLY <2>2, <2>3, <2>4
    <3> QED
      BY ONLY <3>1, <2>1
  <2>5. ASSUME u[i].op = "clear"
        PROVE  \E k \in i + 1 .. Len(u) : u[k] = Statement("seed", u[i].on)
    <3>1. \E k \in i + 2 .. n : j[k] = Statement("seed", u[i].on)
      BY ONLY <2>2, <2>3, <2>5
    <3> QED
      BY ONLY <3>1, <2>1
  <2> QED
    BY ONLY <2>4, <2>5
<1>5. ASSUME u # <<>>
      PROVE  u[Len(u)].op = "seed" <=> \A i \in 1..Len(u) : u[i].op \in ResetOps
  <2>1. n > 1 /\ n - 1 \in 1..n - 1 /\ u[n - 1] = j[n] /\ n \in 1..n
    BY <1>1, <1>2, <1>5
  <2>2. j[n].op = "seed" <=> \A i \in 1..n : j[i].op \in ResetOps
    BY <2>1 DEF JobOK, EndsWell
  <2>3. j[n].op = "seed" => \A i \in 1..n - 1 : u[i].op \in ResetOps
    BY <1>2, <2>2
  <2>4. u[n - 1].op \in ResetOps => \A i \in 1..n : j[i].op \in ResetOps
    BY <2>1 DEF JobOK, Uniform
  <2>5. u[n - 1].op = "seed" <=> \A i \in 1..n - 1 : u[i].op \in ResetOps
    BY <2>1, <2>2, <2>3, <2>4
  <2> QED
    BY <1>2, <2>5
<1>6. EndsWell(u)
  BY ONLY <1>5, Zenon DEF EndsWell
<1> QED
  BY <1>1, <1>3, <1>4, <1>6 DEF JobOK

\* A statement is executed: the rest of its job is left.
LEMMA RestOK ==
    ASSUME Inv, job # <<>>, Done
    PROVE  /\ JobOK(job)' /\ (job' = <<>> => before' = <<>>)
           /\ Head(job) = job[1] /\ Head(job) \in StatementSet
           /\ Len(job) \in Nat \ {0} /\ Len(job') = Len(job) - 1
           /\ \A i \in 1..Len(job') : job'[i] = job[i + 1]
           /\ \A z : Left(z) /\ z # Head(job) => Left(z)'
           /\ Resetting <=> Head(job).op \in ResetOps
           /\ Resetting' => Resetting
           /\ Resetting /\ job' # <<>> => Resetting'
<1>1. job' = Tail(job) /\ JobOK(job)
  BY DEF Done, Inv
<1>2. /\ JobOK(job)' /\ Head(job) = job[1] /\ Head(job) \in StatementSet
      /\ Len(job) \in Nat \ {0} /\ Len(job') = Len(job) - 1
      /\ \A i \in 1..Len(job') : job'[i] = job[i + 1]
      /\ job' = <<>> <=> Len(job) = 1
  BY <1>1, TailOK
<1>3. job' = <<>> => before' = <<>>
  BY <1>2 DEF Done
<1>4. ASSUME NEW z, Left(z), z # Head(job)
      PROVE  Left(z)'
  <2> PICK k \in 1..Len(job) : job[k] = z
    BY <1>4 DEF Left
  <2>1. k # 1
    BY <1>2, <1>4
  <2>2. k - 1 \in 1..Len(job') /\ (k - 1) + 1 = k
    BY <1>2, <2>1
  <2>3. job'[k - 1] = z
    BY <1>2, <2>2
  <2> QED
    BY <2>2, <2>3 DEF Left
<1>5. Resetting <=> \A i \in 1..Len(job) : job[i].op \in ResetOps
  BY <1>1 DEF JobOK, EndsWell, Resetting
<1>6. Resetting <=> Head(job).op \in ResetOps
  BY <1>1, <1>2, <1>5 DEF JobOK, Uniform
<1>7. job' # <<>> => (Resetting' <=> \A i \in 1..Len(job') : job'[i].op \in ResetOps)
  BY <1>2 DEF JobOK, EndsWell, Resetting
<1>8. Resetting /\ job' # <<>> => Resetting'
  BY <1>2, <1>5, <1>7
<1>9. Resetting' => Resetting
  <2> SUFFICES ASSUME Resetting'
               PROVE  Resetting
    OBVIOUS
  <2>1. Len(job) # 1 /\ job' # <<>>
    BY <1>2 DEF Resetting
  <2>2. 1 \in 1..Len(job') /\ job'[1] = job[2] /\ 2 \in 1..Len(job)
    BY <1>2, <2>1
  <2>3. job[2].op \in ResetOps
    BY <1>7, <2>1, <2>2
  <2> QED
    BY <1>1, <1>5, <2>2, <2>3 DEF JobOK, Uniform
<1> QED
  BY <1>2, <1>3, <1>4, <1>6, <1>8, <1>9

\* A statement of a scenario that leaves disruptions and routes alone.
LEMMA OtherOK ==
    ASSUME Inv, job # <<>>, Done, Head(job).op \notin ResetOps \cup {"enter", "close"},
           UNCHANGED <<disruptions, routes, failed>>
    PROVE  JobOK(job)' /\ SeedingOK' /\ ClosedOK' /\ AvoidedOK' /\ (job' = <<>> => before' = <<>>)
<1>1. ~Resetting /\ ~Resetting' /\ JobOK(job)' /\ (job' = <<>> => before' = <<>>)
  BY RestOK
<1>2. SeedingOK'
  BY <1>1 DEF SeedingOK
<1>3. ClosedOK'
  <2> SUFFICES ASSUME Whole
               PROVE  /\ \A r \in DOMAIN routes : routes[r].down => SeedRoutes[r].down \/ Naming(r) # {}
                      /\ \A i \in 1..Len(job') : job'[i].op = "close" =>
                             \/ Naming(job'[i].on) # {}
                             \/ \E k \in 1 .. i - 1 : /\ job'[k].op = "enter"
                                                      /\ job'[i].on \in Range(job'[k].on.routes)
    BY <1>1 DEF ClosedOK, Whole, Naming, Active
  <2>1. ASSUME NEW i \in 1..Len(job'), job'[i].op = "close", Naming(job'[i].on) = {}
        PROVE  \E k \in 1 .. i - 1 : /\ job'[k].op = "enter"
                                     /\ job'[i].on \in Range(job'[k].on.routes)
    <3>1. i + 1 \in 1..Len(job) /\ job[i + 1] = job'[i] /\ i \in Nat
      BY RestOK
    <3> PICK k \in 1 .. i : job[k].op = "enter" /\ job'[i].on \in Range(job[k].on.routes)
      BY <2>1, <3>1 DEF Inv, ClosedOK
    <3>2. k # 1
      BY RestOK
    <3>3. k - 1 \in 1 .. i - 1 /\ k - 1 \in 1..Len(job') /\ (k - 1) + 1 = k
      BY <3>1, <3>2, RestOK
    <3>4. job'[k - 1] = job[k]
      BY <3>3, RestOK
    <3> QED
      BY <3>3, <3>4
  <2> QED
    BY <2>1 DEF Inv, ClosedOK
<1>4. AvoidedOK'
  <2> SUFFICES ASSUME failed = "nothing", NEW i \in Simulated, NEW r \in disruptions[i].routes
               PROVE  Shut(r)' \/ Left(Statement("close", r))'
    BY <1>1 DEF AvoidedOK, Simulated
  <2>1. Shut(r) \/ Left(Statement("close", r))
    BY <1>1 DEF Inv, AvoidedOK
  <2>2. Statement("close", r) # Head(job)
    BY DEF Statement
  <2> QED
    BY <2>1, <2>2, RestOK DEF Shut
<1> QED
  BY <1>1, <1>2, <1>3, <1>4

LEMMA OthersOK ==
    ASSUME Inv, Delay \/ Recall \/ Risk \/ Ground \/ Move \/ AddSurge
    PROVE  Inv'
<1>1. /\ job # <<>> /\ Done /\ Head(job).op \notin ResetOps \cup {"enter", "close"}
      /\ UNCHANGED <<disruptions, routes, failed>>
  BY DEF Delay, Recall, Risk, Ground, Move, AddSurge, Doing, ResetOps
<1>2. \A c \in DOMAIN carriers' : carriers'[c] \in CarrierRow
  <2>1. CASE Recall
    BY <2>1 DEF Inv, Typed, CarrierRow, Recall
  <2>2. CASE UNCHANGED carriers
    BY <2>2 DEF Inv, Typed
  <2> QED
    BY <2>1, <2>2 DEF Delay, Risk, Ground, Move, AddSurge
<1>3. DOMAIN shipments' \subseteq DOMAIN SeedShipments \cup DOMAIN Surge
  BY DEF Inv, Typed, Delay, Recall, Risk, Ground, Move, AddSurge
<1>4. DOMAIN assets' = DOMAIN assets
  BY DEF Delay, Recall, Risk, Ground, Move, AddSurge
<1>5. JobOK(job)' /\ SeedingOK' /\ ClosedOK' /\ AvoidedOK' /\ (job' = <<>> => before' = <<>>)
  BY <1>1, OtherOK
<1>6. Typed'
  BY <1>1, <1>2, <1>3, <1>4, <1>5 DEF Inv, Typed
<1> QED
  BY <1>5, <1>6 DEF Inv

LEMMA SeedTyped ==
    /\ SeedDisruptions \in Seq(DisruptionSet)
    /\ \A d \in DisruptionSet : d.status \in {"ACTIVE", "MONITORING"}
<1>1. SeedDisruptions \in Seq(DisruptionSet)
  BY ScenarioAssumption, SeqMonotonic DEF DisruptionSet
<1>2. \A d \in Range(SeedDisruptions) : d.status \in {"ACTIVE", "MONITORING"}
  BY ScenarioAssumption DEF Range
<1> QED
  BY <1>1, <1>2 DEF DisruptionSet

\* Every disruption of the table is open.
LEMMA AllOpen ==
    ASSUME Inv
    PROVE  /\ Active = 1..Len(disruptions) /\ Len(disruptions) \in Nat
           /\ \A r : Naming(r) = {i \in 1..Len(disruptions) : r \in disruptions[i].routes}
<1>1. /\ DOMAIN disruptions = 1..Len(disruptions) /\ Len(disruptions) \in Nat
      /\ \A i \in 1..Len(disruptions) : disruptions[i] \in DisruptionSet
  BY LenProperties, ElementOfSeq DEF Inv, Typed
<1>2. Active = 1..Len(disruptions)
  BY <1>1, SeedTyped DEF Active
<1> QED
  BY <1>1, <1>2 DEF Naming

LEMMA AllOpenImplied ==
    Inv => \A r : Naming(r) = {i \in 1..Len(disruptions) : r \in disruptions[i].routes}
BY AllOpen

LEMMA AllOpenPrimed ==
    Inv' => (\A r : Naming(r) = {i \in 1..Len(disruptions) : r \in disruptions[i].routes})'
BY AllOpenImplied, PTL

LEMMA EnterOK ==
    ASSUME Inv, Enter
    PROVE  Inv'
<1> DEFINE x == Head(job).on
           row == [routes |-> Range(x.routes), severity |-> x.severity, status |-> "ACTIVE"]
           n == Len(disruptions)
<1>1. /\ job # <<>> /\ Done /\ Head(job).op = "enter"
      /\ disruptions' = Append(disruptions, row)
      /\ UNCHANGED <<routes, carriers, shipments, assets, failed, begun>>
  BY DEF Enter, Doing, On
<1>2. /\ ~Resetting /\ ~Resetting' /\ JobOK(job)' /\ (job' = <<>> => before' = <<>>)
      /\ Head(job) = job[1] /\ x \in TheEvents
  BY <1>1, RestOK, StatementsTyped DEF ResetOps
<1>3. row \in DisruptionSet
  BY <1>2 DEF DisruptionSet
<1>4. /\ n \in Nat /\ disruptions' \in Seq(DisruptionSet) /\ Len(disruptions') = n + 1
      /\ disruptions'[n + 1] = row /\ \A i \in 1..n : disruptions'[i] = disruptions[i]
  BY <1>1, <1>3, LenProperties, AppendProperties DEF Inv, Typed
<1> HIDE DEF n
<1>5. Typed'
  BY <1>1, <1>2, <1>4 DEF Inv, Typed
<1>6. SeedingOK'
  BY <1>2 DEF SeedingOK
<1> DEFINE Open == {q \in DOMAIN disruptions' : disruptions'[q].status \in {"ACTIVE", "MONITORING"}}
           Named(r) == {q \in Open : r \in disruptions'[q].routes}
<1>7. ASSUME NEW r, Naming(r) # {} \/ r \in Range(x.routes)
      PROVE  Named(r) # {}
  <2>1. DOMAIN disruptions' = 1..n + 1 /\ DOMAIN disruptions = 1..n
    BY <1>4, LenProperties DEF Inv, Typed, n
  <2>2. CASE Naming(r) # {}
    BY <1>4, <2>1, <2>2 DEF Naming, Active
  <2>3. CASE r \in Range(x.routes)
    <3>1. row.status = "ACTIVE" /\ row.routes = Range(x.routes)
      OBVIOUS
    <3>2. n + 1 \in 1..n + 1
      BY <1>4
    <3> QED
      BY <1>4, <2>1, <2>3, <3>1, <3>2
  <2> QED
    BY <1>7, <2>2, <2>3
<1>8. ClosedOK'
  <2> SUFFICES ASSUME Whole
               PROVE  /\ \A r \in DOMAIN routes :
                             routes[r].down => SeedRoutes[r].down \/ Named(r) # {}
                      /\ \A i \in 1..Len(job') : job'[i].op = "close" =>
                             \/ Named(job'[i].on) # {}
                             \/ \E k \in 1 .. i - 1 : /\ job'[k].op = "enter"
                                                      /\ job'[i].on \in Range(job'[k].on.routes)
    BY <1>1, <1>2 DEF ClosedOK, Whole, Naming, Active
  <2> HIDE DEF Named
  <2>1. ASSUME NEW i \in 1..Len(job'), job'[i].op = "close", Named(job'[i].on) = {}
        PROVE  \E k \in 1 .. i - 1 : /\ job'[k].op = "enter"
                                     /\ job'[i].on \in Range(job'[k].on.routes)
    <3>1. i + 1 \in 1..Len(job) /\ job[i + 1] = job'[i] /\ i \in Nat
      BY <1>1, RestOK
    <3>2. Naming(job'[i].on) = {} /\ job'[i].on \notin Range(x.routes)
      BY <1>7, <2>1
    <3> PICK k \in 1 .. i : job[k].op = "enter" /\ job'[i].on \in Range(job[k].on.routes)
      BY <2>1, <3>1, <3>2 DEF Inv, ClosedOK
    <3>3. k # 1
      BY <1>2, <3>2
    <3>4. k - 1 \in 1 .. i - 1 /\ k - 1 \in 1..Len(job') /\ (k - 1) + 1 = k
      BY <3>1, <3>3, <1>1, RestOK
    <3>5. job'[k - 1] = job[k]
      BY <3>4, <1>1, RestOK
    <3> QED
      BY <3>4, <3>5
  <2>2. ASSUME NEW r \in DOMAIN routes, routes[r].down
        PROVE  SeedRoutes[r].down \/ Named(r) # {}
    BY <1>7, <2>2 DEF Inv, ClosedOK
  <2> QED
    BY <2>1, <2>2
<1>9. AvoidedOK'
  <2> SUFFICES ASSUME failed = "nothing", NEW i \in Len(SeedDisruptions) + 1 .. n + 1,
                      NEW r \in disruptions'[i].routes
               PROVE  Shut(r) \/ Left(Statement("close", r))'
    BY <1>1, <1>2, <1>4 DEF AvoidedOK, Simulated, Shut
  <2>0. Len(SeedDisruptions) \in Nat
    BY SeedTyped, LenProperties
  <2>1. Statement("close", r) # Head(job)
    BY <1>1 DEF Statement
  <2>2. Shut(r) \/ Left(Statement("close", r))
    <3>1. CASE i \in 1..n
      <4>1. i \in Simulated /\ r \in disruptions[i].routes
        BY <1>4, <2>0, <3>1 DEF Simulated, n
      <4> QED
        BY <1>2, <4>1 DEF Inv, AvoidedOK
    <3>2. CASE i = n + 1
      <4>1. r \in Range(x.routes)
        BY <1>4, <3>2
      <4>2. 1 \in 1..Len(job) /\ job[1].op = "enter" /\ job[1].on = x /\ Len(job) \in Nat
        BY <1>1, <1>2, RestOK
      <4>3. \E k \in 2..Len(job) : job[k] = Statement("close", r)
        BY <4>1, <4>2 DEF Inv, JobOK, Followed
      <4> QED
        BY <4>2, <4>3 DEF Left
    <3> QED
      BY <1>4, <2>0, <3>1, <3>2
  <2> QED
    BY <1>1, <2>1, <2>2, RestOK
<1> QED
  BY <1>2, <1>5, <1>6, <1>8, <1>9 DEF Inv

LEMMA CloseOK ==
    ASSUME Inv, Close
    PROVE  Inv'
<1> DEFINE z == Head(job).on
<1>1. /\ job # <<>> /\ Done /\ Head(job).op = "close"
      /\ routes' = [r \in DOMAIN routes |->
                       IF r = z THEN [routes[r] EXCEPT !.down = TRUE] ELSE routes[r]]
      /\ UNCHANGED <<disruptions, carriers, shipments, assets, failed, begun>>
  BY DEF Close, Doing, On
<1>2. /\ ~Resetting /\ ~Resetting' /\ JobOK(job)' /\ (job' = <<>> => before' = <<>>)
      /\ Head(job) = job[1] /\ Len(job) \in Nat \ {0} /\ Head(job) \in StatementSet
  BY <1>1, RestOK DEF ResetOps
<1> HIDE DEF z
<1>3. /\ DOMAIN routes' = DOMAIN routes
      /\ \A r \in DOMAIN routes : routes'[r] \in RouteRow /\ (r = z => routes'[r].down)
      /\ \A r \in DOMAIN routes : r # z => routes'[r] = routes[r]
  BY <1>1 DEF Inv, Typed, RouteRow
<1>4. Typed' /\ SeedingOK'
  BY <1>1, <1>2, <1>3 DEF Inv, Typed, SeedingOK
<1>5. ClosedOK'
  <2> SUFFICES ASSUME Whole
               PROVE  /\ \A r \in DOMAIN routes : routes'[r].down => SeedRoutes[r].down \/ Naming(r) # {}
                      /\ \A i \in 1..Len(job') : job'[i].op = "close" =>
                             \/ Naming(job'[i].on) # {}
                             \/ \E k \in 1 .. i - 1 : /\ job'[k].op = "enter"
                                                      /\ job'[i].on \in Range(job'[k].on.routes)
    BY <1>1, <1>2, <1>3 DEF ClosedOK, Whole, Naming, Active
  <2>1. Naming(z) # {}
    BY <1>1, <1>2 DEF Inv, ClosedOK, z
  <2>2. ASSUME NEW i \in 1..Len(job'), job'[i].op = "close", Naming(job'[i].on) = {}
        PROVE  \E k \in 1 .. i - 1 : /\ job'[k].op = "enter"
                                     /\ job'[i].on \in Range(job'[k].on.routes)
    <3>1. i + 1 \in 1..Len(job) /\ job[i + 1] = job'[i] /\ i \in Nat
      BY <1>1, RestOK
    <3> PICK k \in 1 .. i : job[k].op = "enter" /\ job'[i].on \in Range(job[k].on.routes)
      BY <2>2, <3>1 DEF Inv, ClosedOK
    <3>2. k # 1
      BY <1>1, <1>2
    <3>3. k - 1 \in 1 .. i - 1 /\ k - 1 \in 1..Len(job') /\ (k - 1) + 1 = k
      BY <1>1, <3>1, <3>2, RestOK
    <3>4. job'[k - 1] = job[k]
      BY <1>1, <3>3, RestOK
    <3> QED
      BY <3>3, <3>4
  <2>3. ASSUME NEW r \in DOMAIN routes, routes'[r].down
        PROVE  SeedRoutes[r].down \/ Naming(r) # {}
    BY <1>3, <2>1, <2>3 DEF Inv, ClosedOK
  <2> QED
    BY <2>2, <2>3
<1>6. AvoidedOK'
  <2> SUFFICES ASSUME failed = "nothing", NEW i \in Simulated, NEW r \in disruptions[i].routes
               PROVE  Shut(r)' \/ Left(Statement("close", r))'
    BY <1>1, <1>2 DEF AvoidedOK, Simulated
  <2>1. Shut(r) \/ Left(Statement("close", r))
    BY <1>2 DEF Inv, AvoidedOK
  <2>2. Shut(r) => Shut(r)'
    BY <1>3 DEF Shut
  <2>3. Statement("close", r) = Head(job) => r = z
    BY DEF Statement, z
  <2>4. r = z => Shut(r)'
    BY <1>3 DEF Shut
  <2> QED
    BY <1>1, <2>1, <2>2, <2>3, <2>4, RestOK
<1> QED
  BY <1>2, <1>4, <1>5, <1>6 DEF Inv

-----------------------------------------------------------------------------
(* Resets and failures *)

LEMMA ClearTableOK ==
    ASSUME Inv, ClearTable
    PROVE  Inv'
<1> PICK t : t = Head(job).on
  OBVIOUS
<1>1. /\ job # <<>> /\ Done /\ Head(job).op = "clear" /\ UNCHANGED <<failed, begun>>
  BY DEF ClearTable, Doing
<1>2. /\ Resetting /\ JobOK(job)' /\ (job' = <<>> => before' = <<>>)
      /\ Head(job) = job[1] /\ Len(job) \in Nat \ {0} /\ Len(job') = Len(job) - 1
      /\ t \in TheTables
  BY <1>1, RestOK, StatementsTyped DEF ResetOps
<1>3. \E k \in 2..Len(job) : job[k] = Statement("seed", t)
  <2>1. 1 \in 1..Len(job) /\ job[1].op = "clear" /\ job[1].on = t
    BY <1>1, <1>2
  <2> QED
    BY <2>1 DEF Inv, JobOK, Followed
<1>4. Left(Statement("seed", t)) /\ Statement("seed", t) # Head(job)
  BY <1>1, <1>2, <1>3 DEF Left, Statement
<1>5. Left(Statement("seed", t))'
  BY <1>1, <1>4, RestOK
<1>6. Resetting'
  <2>1. Len(job') # 0
    BY <1>2, <1>3
  <2>2. job' # <<>>
    BY <2>1, NothingLeft
  <2> QED
    BY <1>1, <1>2, <2>2, RestOK
<1>7. Typed'
  <2>1. DOMAIN <<>> = {} /\ IsFiniteSet({}) /\ <<>> \in Seq(DisruptionSet)
    BY FS_EmptySet, EmptySeq
  <2>2. /\ disruptions' \in {disruptions, <<>>} /\ routes' \in {routes, <<>>}
        /\ carriers' \in {carriers, <<>>} /\ shipments' \in {shipments, <<>>}
        /\ assets' \in {assets, <<>>}
    BY DEF ClearTable, Becomes
  <2>3. disruptions' \in Seq(DisruptionSet)
    BY <2>1, <2>2 DEF Inv, Typed
  <2>4. DOMAIN routes' \in {{}, DOMAIN SeedRoutes} /\ \A r \in DOMAIN routes' : routes'[r] \in RouteRow
    BY <2>1, <2>2 DEF Inv, Typed
  <2>5. \A c \in DOMAIN carriers' : carriers'[c] \in CarrierRow
    BY <2>1, <2>2 DEF Inv, Typed
  <2>6. DOMAIN shipments' \subseteq DOMAIN SeedShipments \cup DOMAIN Surge
    BY <2>1, <2>2 DEF Inv, Typed
  <2>7. IsFiniteSet(DOMAIN assets')
    BY <2>1, <2>2 DEF Inv, Typed
  <2> QED
    BY <1>1, <1>2, <2>3, <2>4, <2>5, <2>6, <2>7 DEF Inv, Typed
<1>8. SeedingOK'
  <2> SUFFICES ASSUME NEW u \in TheTables
               PROVE  IsSeeded(u)' \/ Left(Statement("seed", u))'
    BY DEF SeedingOK
  <2>1. CASE u = t
    BY <1>5, <2>1
  <2>2. CASE u # t
    <3>1. IsSeeded(u) => IsSeeded(u)'
      BY <2>2 DEF IsSeeded, ClearTable, Becomes, On
    <3>2. Statement("seed", u) # Head(job)
      BY <1>1 DEF Statement
    <3> QED
      BY <1>1, <1>2, <3>1, <3>2, RestOK DEF Inv, SeedingOK
  <2> QED
    BY <2>1, <2>2
<1> QED
  BY <1>2, <1>6, <1>7, <1>8 DEF Inv, ClosedOK, AvoidedOK, Whole

\* The last statement of a reset leaves the seeded tables.
LEMMA LastSeed ==
    ASSUME Inv, SeedTable, Len(job) = 1
    PROVE  Seeded'
<1>1. job # <<>> /\ Done /\ Head(job).op = "seed"
  BY DEF SeedTable, Doing
<1>2. Resetting /\ Head(job) = job[1]
  BY <1>1, RestOK DEF ResetOps
<1>3. ASSUME NEW u \in TheTables
      PROVE  IsSeeded(u) \/ u = On
  <2>1. Left(Statement("seed", u)) => Statement("seed", u) = Head(job)
    BY <1>2 DEF Left
  <2> QED
    BY <1>2, <2>1 DEF Inv, SeedingOK, Statement, On
<1>4. ASSUME NEW u \in TheTables
      PROVE  IsSeeded(u)'
  <2>1. IsSeeded(u) \/ u = On
    BY <1>3
  <2> QED
    BY <2>1 DEF IsSeeded, SeedTable, Becomes
<1>5. TheTables = {"disruptions", "routes", "carriers", "shipments", "assets"}
  BY DEF TheTables
<1> QED
  BY <1>4, <1>5 DEF Seeded, IsSeeded

\* The seeded tables are as the invariant wants them.
LEMMA SeededOK ==
    Seeded /\ job = <<>> /\ before = <<>> /\ failed \in {"nothing", "scenario", "reset"} => Inv
<1> SUFFICES ASSUME Seeded, job = <<>>, before = <<>>, failed \in {"nothing", "scenario", "reset"}
             PROVE  Inv
  OBVIOUS
<1>1. Len(job) = 0 /\ job \in Seq(StatementSet)
  BY NothingLeft, EmptySeq
<1>2. JobOK(job)
  BY <1>1 DEF JobOK, Uniform, Followed, EndsWell
<1>3. Typed
  BY SeedTyped, ScenarioAssumption DEF Seeded, Typed
<1>4. Simulated = {}
  <2>1. Len(SeedDisruptions) \in Nat
    BY SeedTyped, LenProperties
  <2> QED
    BY <2>1 DEF Simulated, Seeded
<1> QED
  BY <1>1, <1>2, <1>3, <1>4 DEF Inv, SeedingOK, ClosedOK, AvoidedOK, Resetting, Seeded

LEMMA SeededPrimed ==
    (Seeded /\ job = <<>> /\ before = <<>> /\ failed \in {"nothing", "scenario", "reset"} => Inv)'
BY SeededOK, PTL

LEMMA SeedTableOK ==
    ASSUME Inv, SeedTable
    PROVE  Inv'
<1>1. /\ job # <<>> /\ Done /\ Head(job).op = "seed"
      /\ failed' = IF Len(job) = 1 THEN "nothing" ELSE failed
  BY DEF SeedTable, Doing
<1>2. /\ Resetting /\ JobOK(job)' /\ (job' = <<>> => before' = <<>>)
      /\ Len(job) \in Nat \ {0} /\ Len(job') = Len(job) - 1
  BY <1>1, RestOK DEF ResetOps
<1>3. CASE Len(job) = 1
  <2>1. job' = <<>>
    BY <1>1, <1>3, TailOK DEF Inv, Done
  <2>2. Seeded' /\ before' = <<>> /\ failed' = "nothing"
    BY <1>1, <1>2, <1>3, <2>1, LastSeed
  <2> QED
    BY <2>1, <2>2, SeededPrimed
<1>4. CASE Len(job) # 1
  <2>1. Resetting'
    <3>1. Len(job') # 0
      BY <1>2, <1>4
    <3>2. job' # <<>>
      BY <3>1, NothingLeft
    <3> QED
      BY <1>1, <1>2, <3>2, RestOK
  <2>2. Typed'
    <3>1. /\ disruptions' \in {disruptions, SeedDisruptions} /\ routes' \in {routes, SeedRoutes}
          /\ carriers' \in {carriers, SeedCarriers} /\ shipments' \in {shipments, SeedShipments}
          /\ assets' \in {assets, SeedAssets}
      BY DEF SeedTable, Becomes
    <3>2. disruptions' \in Seq(DisruptionSet)
      BY <3>1, SeedTyped DEF Inv, Typed
    <3>3. DOMAIN routes' \in {{}, DOMAIN SeedRoutes} /\ \A r \in DOMAIN routes' : routes'[r] \in RouteRow
      BY <3>1, ScenarioAssumption DEF Inv, Typed
    <3>4. \A c \in DOMAIN carriers' : carriers'[c] \in CarrierRow
      BY <3>1, ScenarioAssumption DEF Inv, Typed
    <3>5. DOMAIN shipments' \subseteq DOMAIN SeedShipments \cup DOMAIN Surge
      BY <3>1 DEF Inv, Typed
    <3>6. IsFiniteSet(DOMAIN assets')
      BY <3>1, ScenarioAssumption DEF Inv, Typed
    <3> QED
      BY <1>1, <1>2, <1>4, <3>2, <3>3, <3>4, <3>5, <3>6 DEF Inv, Typed
  <2>3. SeedingOK'
    <3> SUFFICES ASSUME NEW u \in TheTables
                 PROVE  IsSeeded(u)' \/ Left(Statement("seed", u))'
      BY DEF SeedingOK
    <3>1. IsSeeded(u) \/ u = On => IsSeeded(u)'
      BY DEF IsSeeded, SeedTable, Becomes
    <3>2. Statement("seed", u) = Head(job) => u = On
      BY DEF Statement, On
    <3> QED
      BY <1>1, <1>2, <3>1, <3>2, RestOK DEF Inv, SeedingOK
  <2> QED
    BY <1>2, <2>1, <2>2, <2>3 DEF Inv, ClosedOK, AvoidedOK, Whole
<1> QED
  BY <1>3, <1>4

LEMMA StatementFailsOK ==
    ASSUME Inv, StatementFails
    PROVE  Inv'
<1> USE DEF StatementFails
<1>1. Len(job') = 0 /\ job' \in Seq(StatementSet) /\ ~Resetting'
  BY NothingLeft, EmptySeq DEF Resetting
<1>2. JobOK(job)'
  BY <1>1 DEF JobOK, Uniform, Followed, EndsWell
<1>3. Typed' /\ SeedingOK'
  BY <1>1 DEF Inv, Typed, SeedingOK, tables
<1>4. ClosedOK'
  <2> SUFFICES ASSUME Whole'
               PROVE  \A r \in DOMAIN routes : routes[r].down => SeedRoutes[r].down \/ Naming(r) # {}
    BY <1>1 DEF ClosedOK, Naming, Active, tables
  <2>1. Whole
    BY DEF Whole
  <2> QED
    BY <2>1 DEF Inv, ClosedOK
<1>5. AvoidedOK'
  BY DEF AvoidedOK
<1> QED
  BY <1>2, <1>3, <1>4, <1>5 DEF Inv

-----------------------------------------------------------------------------
(* Handlers that begin *)

LEMMA BeginOK ==
    ASSUME Inv, job = <<>>, job' # <<>>, JobOK(job)', UNCHANGED <<tables, failed>>,
           \/ /\ \A i \in 1..Len(job') : job'[i].op \notin ResetOps
              /\ EnteredFirst(job)'
           \/ /\ \A i \in 1..Len(job') : job'[i].op \in ResetOps
              /\ SeedsAll(job)'
    PROVE  Inv'
<1>1. Len(job) = 0 /\ ~Resetting
  BY NothingLeft DEF Resetting
<1>2. Len(job') \in Nat \ {0}
  BY EmptySeq DEF JobOK
<1>3. UNCHANGED <<disruptions, routes, carriers, shipments, assets, failed>>
  BY DEF tables
<1>4. Typed'
  BY <1>3 DEF Inv, Typed
<1>5. Resetting' <=> \A i \in 1..Len(job') : job'[i].op \in ResetOps
  BY DEF JobOK, EndsWell, Resetting
<1>6. CASE \A i \in 1..Len(job') : job'[i].op \in ResetOps
  <2>1. Resetting' /\ SeedsAll(job)'
    BY <1>2, <1>5, <1>6
  <2>2. SeedingOK'
    BY <2>1 DEF SeedingOK, SeedsAll, Left
  <2> QED
    BY <1>4, <2>1, <2>2 DEF Inv, ClosedOK, AvoidedOK, Whole
<1>7. CASE (\A i \in 1..Len(job') : job'[i].op \notin ResetOps) /\ EnteredFirst(job)'
  <2>1. ~Resetting'
    BY <1>2, <1>5, <1>7
  <2>2. ClosedOK'
    BY <1>1, <1>3, <1>7, <2>1 DEF Inv, ClosedOK, EnteredFirst, Whole, Naming, Active
  <2>3. AvoidedOK'
    <3> SUFFICES ASSUME failed = "nothing", NEW i \in Simulated, NEW r \in disruptions[i].routes
                 PROVE  Shut(r)
      BY <1>3, <2>1 DEF AvoidedOK, Simulated, Shut
    <3>1. ~Left(Statement("close", r))
      BY <1>1 DEF Left
    <3> QED
      BY <1>1, <3>1 DEF Inv, AvoidedOK
  <2> QED
    BY <1>4, <2>1, <2>2, <2>3 DEF Inv, SeedingOK
<1> QED
  BY <1>6, <1>7

\* A job of one or two statements that neither enter, close, clear nor seed.
LEMMA ShortJobOK ==
    ASSUME NEW j \in Seq(StatementSet), Len(j) \in {1, 2},
           \A i \in 1..Len(j) : j[i].op \notin ResetOps \cup {"enter", "close"}
    PROVE  /\ JobOK(j) /\ EnteredFirst(j) /\ j # <<>>
           /\ \A i \in 1..Len(j) : j[i].op \notin ResetOps
<1>1. j # <<>> /\ Len(j) \in 1..Len(j)
  BY NothingLeft
<1>2. Uniform(j) /\ Followed(j) /\ EnteredFirst(j)
  BY DEF Uniform, Followed, EnteredFirst, ResetOps
<1>3. EndsWell(j)
  BY <1>1 DEF EndsWell, ResetOps
<1> QED
  BY <1>1, <1>2, <1>3 DEF JobOK

LEMMA BegunOK ==
    ASSUME Inv, Begun
    PROVE  Inv'
<1>1. job = <<>> /\ UNCHANGED <<tables, failed>>
  BY DEF Begun, ApplyEvent, ApplyCarrierUnavailable, ApplyFleetUnavailable,
         ApplyDemandIncrease, Redeploy, Reset, BeginScenario, Begin
<1>2. CASE Reset
  BY <1>1, <1>2, ResetJobOK, BeginOK DEF Reset, Begin
<1>3. CASE ApplyEvent
  <2> PICK x \in TheEvents : job' = EventJob(x)
    BY <1>3 DEF ApplyEvent, BeginScenario, Begin, TheEvents
  <2> QED
    BY <1>1, EventJobOK, BeginOK
<1>4. CASE ApplyCarrierUnavailable \/ ApplyFleetUnavailable \/ ApplyDemandIncrease \/ Redeploy
  <2>1. /\ job' \in Seq(StatementSet) /\ Len(job') \in {1, 2}
        /\ \A i \in 1..Len(job') : job'[i].op \notin ResetOps \cup {"enter", "close"}
    <3>1. CASE ApplyCarrierUnavailable
      <4> PICK c \in CarrierTargets : job' = <<Statement("recall", c), Statement("risk", c)>>
        BY <3>1 DEF ApplyCarrierUnavailable, BeginScenario, Begin, RecallJob
      <4>1. Statement("recall", c) \in StatementSet /\ Statement("risk", c) \in StatementSet
        BY DEF StatementSet
      <4>2. job' \in Seq(StatementSet) /\ Len(job') = 2
        BY <4>1
      <4>3. \A i \in 1..2 : job'[i].op \in {"recall", "risk"}
        BY DEF Statement
      <4> QED
        BY <4>2, <4>3 DEF ResetOps
    <3>2. CASE ApplyFleetUnavailable \/ ApplyDemandIncrease \/ Redeploy
      <4> PICK z \in StatementSet : job' = <<z>> /\ z.op \in {"ground", "surge", "move"}
        BY <3>2 DEF ApplyFleetUnavailable, ApplyDemandIncrease, Redeploy, BeginScenario, Begin,
                    GroundJob, SurgeJob, MoveJob, StatementSet, Statement
      <4> QED
        BY DEF ResetOps
    <3> QED
      BY <1>4, <3>1, <3>2
  <2> QED
    BY <1>1, <2>1, ShortJobOK, BeginOK
<1> QED
  BY <1>2, <1>3, <1>4 DEF Begun

LEMMA InitInv == Init => Inv
BY SeededOK DEF Init

LEMMA StepInv == Inv /\ [Next]_vars => Inv'
<1> SUFFICES ASSUME Inv, [Next]_vars
             PROVE  Inv'
  OBVIOUS
<1>1. CASE Executed
  BY <1>1, EnterOK, CloseOK, OthersOK, ClearTableOK, SeedTableOK DEF Executed
<1>2. CASE UNCHANGED vars
  BY <1>2 DEF vars, tables, Inv, Typed, SeedingOK, ClosedOK, AvoidedOK, Whole, Resetting, Left,
              IsSeeded, Shut, Simulated, Naming, Active
<1> QED
  BY <1>1, <1>2, BegunOK, StatementFailsOK DEF Next

\* What is known between any two statements, for any seed and any number of
\* scenarios, resets and failures.
THEOREM Invariant == Spec => []Inv
BY InitInv, StepInv, PTL DEF Spec

\* Every variable keeps its type.
THEOREM TypeCorrect == Spec => []ScenariosTypeOK
<1>1. Inv => ScenariosTypeOK
  <2> SUFFICES ASSUME Inv
               PROVE  ScenariosTypeOK
    OBVIOUS
  <2>1. \A i \in DOMAIN disruptions : disruptions[i].status \in {"ACTIVE", "MONITORING"}
    BY LenProperties, ElementOfSeq, SeedTyped DEF Inv, Typed
  <2> QED
    BY <2>1 DEF Inv, Typed, ScenariosTypeOK, RouteRow
<1> QED
  BY <1>1, Invariant, PTL

\* A closed route is explained by the list of disruptions, however scenarios
\* and failures are mixed.
THEOREM Closures == Spec => []ClosuresExplained
<1>1. Inv => ClosuresExplained
  BY DEF Inv, ClosedOK, ClosuresExplained
<1> QED
  BY <1>1, Invariant, PTL

\* The advice never leads onto a route of an event that ran to its end.
THEOREM Avoided == Spec => []SimulatedAreAvoided
<1>1. Inv => SimulatedAreAvoided
  <2> SUFFICES ASSUME Inv, failed = "nothing", job = <<>>,
                      NEW s \in DOMAIN shipments, NEW r \in RouteAdvice(s)
               PROVE  Naming(r) \cap Simulated = {}
    BY DEF SimulatedAreAvoided
  <2>1. r \in DOMAIN routes /\ ~routes[r].down
    BY DEF RouteAdvice, Candidates, SameCorridor, Nearby, Free
  <2>2. ~Resetting /\ ~Left(Statement("close", r))
    BY NothingLeft DEF Resetting, Left
  <2> QED
    BY <2>1, <2>2 DEF Inv, AvoidedOK, Shut, Naming
<1> QED
  BY <1>1, Invariant, PTL

\* A reset that runs to its end restores the seed, whatever came before.
THEOREM Restores == Spec => ResetRestores
<1>1. ASSUME Inv, [Next]_vars, Resetting, job' = <<>>, failed' = "nothing"
      PROVE  Seeded'
  <2>1. job # <<>>
    BY <1>1 DEF Resetting
  <2>2. ~Begun /\ ~StatementFails /\ ~UNCHANGED vars
    BY <1>1, <2>1 DEF Begun, ApplyEvent, ApplyCarrierUnavailable, ApplyFleetUnavailable,
                      ApplyDemandIncrease, Redeploy, Reset, BeginScenario, Begin,
                      StatementFails, vars
  <2>3. Executed /\ Done
    BY <1>1, <2>2 DEF Next, Executed, Enter, Close, Delay, Recall, Risk, Ground, Move, AddSurge,
                      ClearTable, SeedTable
  <2>4. Head(job).op \in ResetOps /\ Len(job) = 1
    BY <1>1, <2>1, <2>3, RestOK, TailOK DEF Inv, Done
  <2>5. Head(job).op = "seed"
    <3>1. Head(job) = job[1] /\ job[1].op = "seed"
      BY <1>1, <2>1, <2>3, <2>4, RestOK DEF Resetting
    <3> QED
      BY <3>1
  <2>6. SeedTable
    BY <2>3, <2>5 DEF Executed, Doing, Enter, Close, Delay, Recall, Risk, Ground, Move, AddSurge,
                      ClearTable
  <2> QED
    BY <1>1, <2>4, <2>6, LastSeed
<1>2. Inv /\ [Next]_vars => [Resetting /\ job' = <<>> /\ failed' = "nothing" => Seeded']_vars
  BY <1>1
<1> QED
  BY <1>2, Invariant, PTL DEF Spec, ResetRestores

\* An open disruption on its route alone makes a shipment urgent.
LEMMA NamedIsUrgent ==
    ASSUME Inv, NEW s \in DOMAIN shipments, shipments[s].status # "DELIVERED",
           Naming(shipments[s].route) # {}
    PROVE  s \in Affected /\ s \in Urgent
<1> DEFINE named == Naming(shipments[s].route)
<1>1. Cardinality(named) \in Nat \ {0}
  <2>1. Len(disruptions) \in Nat /\ named \subseteq 1..Len(disruptions)
    BY AllOpen, LenProperties DEF Inv, Typed
  <2>2. IsFiniteSet(1..Len(disruptions))
    BY <2>1, FS_Interval
  <2>3. IsFiniteSet(named)
    BY ONLY <2>1, <2>2, FS_Subset
  <2>4. named # {}
    OBVIOUS
  <2> HIDE DEF named
  <2> QED
    BY ONLY <2>3, <2>4, FS_CardinalityType, FS_EmptySet
<1> PICK n \in Nat \ {0} : n = Cardinality(named)
  BY <1>1
<1>2. ImpactScore(s) \in Nat /\ ImpactScore(s) >= 30
  <2>1. \A p, c : p \in Nat => Points(p, c) \in Nat
    BY DEF Points
  <2>2. \A h : DelayPoints(h) \in Nat
    BY DEF DelayPoints
  <2>3. \A p : PriorityPoints(p) \in Nat
    BY DEF PriorityPoints
  <2> HIDE DEF named
  <2> PICK a \in Nat : a = Points(20, CarrierDown(shipments[s].carrier))
    BY <2>1
  <2> PICK b \in Nat : b = DelayPoints(shipments[s].delay)
    BY <2>2
  <2> PICK c \in Nat : c = PriorityPoints(shipments[s].priority)
    BY <2>3
  <2> PICK d \in Nat : d = Points(10, shipments[s].cold)
    BY <2>1
  <2> PICK e \in Nat : e = Points(5, shipments[s].status = "DISRUPTED")
    BY <2>1
  <2>4. ImpactScore(s) = IF a + 30 * n + b + c + d + e > 100 THEN 100
                         ELSE a + 30 * n + b + c + d + e
    BY DEF ImpactScore, named
  <2>5. a + 30 * n + b + c + d + e \in Nat /\ a + 30 * n + b + c + d + e >= 30
    OBVIOUS
  <2> QED
    BY ONLY <2>4, <2>5
<1>3. s \in Affected
  BY <1>2 DEF Affected
<1> QED
  BY <1>2, <1>3 DEF Urgent

\* Whoever stands on the route of a simulated event is offered another one, if
\* there is one.
THEOREM Offered == Spec => []ReroutesAreOffered
<1>1. Inv => ReroutesAreOffered
  <2> SUFFICES ASSUME Inv, Whole, NEW i \in Simulated, NEW s \in ShipmentsOf(i)
               PROVE  /\ s \in Affected
                      /\ RouteAdvice(s) # {} => s \in {a.target : a \in Reroutes}
    BY DEF ReroutesAreOffered
  <2>1. i \in Naming(shipments[s].route) /\ s \in DOMAIN shipments
        /\ shipments[s].status # "DELIVERED"
    <3>1. Len(SeedDisruptions) \in Nat /\ Len(disruptions) \in Nat
      BY LenProperties, ScenarioAssumption DEF Inv, Typed
    <3>2. i \in 1..Len(disruptions)
      BY <3>1 DEF Simulated
    <3> QED
      BY <3>2, AllOpen DEF ShipmentsOf
  <2>2. s \in Affected /\ s \in Urgent
    BY <2>1, NamedIsUrgent
  <2>3. ASSUME RouteAdvice(s) # {}
        PROVE  s \in {a.target : a \in Reroutes}
    <3> DEFINE offer == Recommendation("REROUTE_SHIPMENT", s, Grade(ImpactScore(s), "MEDIUM"))
    <3>1. offer \in Reroutes
      BY <2>2, <2>3 DEF Reroutes
    <3>2. offer.target = s
      BY DEF Recommendation
    <3> QED
      BY <3>1, <3>2
  <2> QED
    BY <2>2, <2>3
<1> QED
  BY <1>1, Invariant, PTL

\* The carrier that is advised can take the shipment, with the capacity as the
\* only thing that may be given up.
THEOREM Usable == Spec => []CarrierAdviceIsUsable
<1>1. Inv => CarrierAdviceIsUsable
  <2> SUFFICES ASSUME Inv, NEW s \in DOMAIN shipments, NEW required \in {5000, 200000},
                      NEW c \in CarrierAdvice(shipments[s].carrier, shipments[s].cold, required)
               PROVE  /\ ~carriers[c].down
                      /\ c # shipments[s].carrier /\ shipments[s].cold => carriers[c].cold
                      /\ \/ carriers[c].capacity >= required
                         \/ \A d \in Able(shipments[s].carrier, shipments[s].cold) :
                                carriers[d].capacity < required
    BY DEF CarrierAdviceIsUsable
  <2> DEFINE now == shipments[s].carrier
             able == Able(now, shipments[s].cold)
             fit == {d \in able : carriers[d].capacity >= required}
  <2>1. CASE c = now /\ now \in DOMAIN carriers /\ ~carriers[now].down
             /\ carriers[now].capacity >= required
    BY <2>1
  <2>2. CASE c \in fit
    BY <2>2 DEF Able
  <2>3. CASE fit = {} /\ c \in Largest(able)
    <3>1. c \in able
      BY <2>3 DEF Largest
    <3>2. \A d \in able : d \in DOMAIN carriers /\ carriers[d].capacity \in Nat
      BY DEF Able, Inv, Typed, CarrierRow
    <3>3. \A d \in able : ~(carriers[d].capacity >= required)
      BY <2>3
    <3>4. \A d \in able : carriers[d].capacity < required
      BY <3>2, <3>3
    <3> QED
      BY <3>1, <3>4 DEF Able
  <2> QED
    BY <2>1, <2>2, <2>3 DEF CarrierAdvice, CarrierChoice
<1> QED
  BY <1>1, Invariant, PTL

-----------------------------------------------------------------------------
(* Scenarios only worsen.  The score of a shipment may fall within one: an *)
(* event makes DISRUPTED a DELAYED, which is five points less.  But by     *)
(* then the disruption has been entered, which is thirty points more.      *)

\* The score before it is capped.
Raw(s) ==
    Points(20, CarrierDown(shipments[s].carrier)) + 30 * Cardinality(Naming(shipments[s].route))
    + DelayPoints(shipments[s].delay) + PriorityPoints(shipments[s].priority)
    + Points(10, shipments[s].cold) + Points(5, shipments[s].status = "DISRUPTED")

\* Shipment s is affected, at least as badly as `was` says.
Hurt(s, was) ==
    /\ s \in DOMAIN shipments /\ shipments[s].status # "DELIVERED"
    /\ \/ Naming(shipments[s].route) # {}
       \/ CarrierDown(shipments[s].carrier)
       \/ shipments[s].delay > 0
    /\ Raw(s) >= was

\* A delay that is left for s has thirty points to lose, or is yet to get them.
Cushioned(s, was) ==
    \A i \in 1..Len(job) : job[i].op = "delay" /\ shipments[s].route \in Range(job[i].on.routes) =>
        Raw(s) >= was + 30 \/ \E k \in 1 .. i - 1 : job[k] = Statement("enter", job[i].on)

DelayLast == \A i \in 1..Len(job) : job[i].op = "delay" => i = Len(job)

RowsTyped == \A s \in DOMAIN shipments : shipments[s] \in ShipmentRow

WorseInv ==
    /\ RowsTyped /\ DelayLast
    /\ job # <<>> /\ ~Resetting =>
           \A s \in DOMAIN before :
               /\ before[s] \in 1..100
               /\ Hurt(s, before[s]) /\ Cushioned(s, before[s])

LEMMA ScoreIs ==
    ASSUME NEW s
    PROVE  ImpactScore(s) = IF Raw(s) > 100 THEN 100 ELSE Raw(s)
BY DEF ImpactScore, Raw

LEMMA NamesFinite == Inv => \A r : IsFiniteSet(Naming(r)) /\ Cardinality(Naming(r)) \in Nat
<1> SUFFICES ASSUME Inv, NEW r
             PROVE  IsFiniteSet(Naming(r)) /\ Cardinality(Naming(r)) \in Nat
  OBVIOUS
<1>1. Len(disruptions) \in Nat /\ Naming(r) \subseteq 1..Len(disruptions)
  BY AllOpen
<1>2. IsFiniteSet(1..Len(disruptions))
  BY <1>1, FS_Interval
<1>3. IsFiniteSet(Naming(r))
  BY ONLY <1>1, <1>2, FS_Subset
<1> QED
  BY ONLY <1>3, FS_CardinalityType

LEMMA NamesFinitePrimed ==
    Inv' => (\A r : IsFiniteSet(Naming(r)) /\ Cardinality(Naming(r)) \in Nat)'
BY NamesFinite, PTL

LEMMA RawIsNumber == Inv /\ RowsTyped => \A s \in DOMAIN shipments : Raw(s) \in Nat
<1> SUFFICES ASSUME Inv, RowsTyped, NEW s \in DOMAIN shipments
             PROVE  Raw(s) \in Nat
  OBVIOUS
<1>1. shipments[s].delay \in Nat
  BY DEF RowsTyped, ShipmentRow
<1> PICK a \in Nat : a = Points(20, CarrierDown(shipments[s].carrier))
  BY DEF Points
<1> PICK b \in Nat : b = Cardinality(Naming(shipments[s].route))
  BY NamesFinite
<1> PICK c \in Nat : c = DelayPoints(shipments[s].delay)
  BY <1>1 DEF DelayPoints
<1> PICK d \in Nat : d = PriorityPoints(shipments[s].priority)
  BY DEF PriorityPoints
<1> PICK e \in Nat : e = Points(10, shipments[s].cold)
  BY DEF Points
<1> PICK f \in Nat : f = Points(5, shipments[s].status = "DISRUPTED")
  BY DEF Points
<1>2. Raw(s) = a + 30 * b + c + d + e + f
  BY DEF Raw
<1>3. a + 30 * b + c + d + e + f \in Nat
  OBVIOUS
<1> QED
  BY ONLY <1>2, <1>3

LEMMA RawIsNumberPrimed == Inv' /\ RowsTyped' => (\A s \in DOMAIN shipments : Raw(s) \in Nat)'
BY RawIsNumber, PTL

\* A step that leaves shipment s at least where it was, and puts it on n more
\* disruptions.
Sinks(s, n) ==
    /\ s \in DOMAIN shipments /\ s \in DOMAIN shipments'
    /\ shipments'[s].route = shipments[s].route
    /\ shipments'[s].carrier = shipments[s].carrier
    /\ shipments'[s].priority = shipments[s].priority
    /\ shipments'[s].cold = shipments[s].cold
    /\ shipments'[s].delay >= shipments[s].delay
    /\ shipments'[s].status = "DELIVERED" => shipments[s].status = "DELIVERED"
    /\ CarrierDown(shipments[s].carrier) => CarrierDown(shipments[s].carrier)'
    /\ Naming(shipments[s].route) # {} => Naming(shipments[s].route)' # {}
    /\ Cardinality(Naming(shipments[s].route)') >= Cardinality(Naming(shipments[s].route)) + n

LEMMA SinkingCosts ==
    ASSUME Inv, Inv', RowsTyped, RowsTyped', NEW s, NEW n \in {0, 1}, Sinks(s, n)
    PROVE  /\ Raw(s) \in Nat /\ Raw(s)' \in Nat /\ Raw(s)' >= Raw(s) + 30 * n - 5
           /\ (shipments[s].status = "DISRUPTED" => shipments'[s].status = "DISRUPTED") =>
                  Raw(s)' >= Raw(s) + 30 * n
<1>1. /\ s \in DOMAIN shipments /\ s \in DOMAIN shipments'
      /\ shipments[s].delay \in Nat /\ shipments'[s].delay \in Nat
      /\ shipments'[s].delay >= shipments[s].delay
  BY DEF Sinks, RowsTyped, ShipmentRow
<1>2. Raw(s) \in Nat /\ Raw(s)' \in Nat
  BY <1>1, RawIsNumber, RawIsNumberPrimed
<1> PICK a \in Nat, a2 \in Nat :
        /\ a = Points(20, CarrierDown(shipments[s].carrier))
        /\ a2 = Points(20, CarrierDown(shipments[s].carrier))' /\ a2 >= a
  BY DEF Sinks, Points, CarrierDown
<1> PICK b \in Nat, b2 \in Nat :
        /\ b = Cardinality(Naming(shipments[s].route))
        /\ b2 = Cardinality(Naming(shipments[s].route))' /\ b2 >= b + n
  BY NamesFinite, NamesFinitePrimed DEF Sinks
<1> PICK c \in Nat, c2 \in Nat :
        c = DelayPoints(shipments[s].delay) /\ c2 = DelayPoints(shipments[s].delay)' /\ c2 >= c
  BY <1>1 DEF DelayPoints
<1> PICK d \in Nat :
        d = PriorityPoints(shipments[s].priority) /\ d = PriorityPoints(shipments[s].priority)'
  BY DEF Sinks, PriorityPoints
<1> PICK e \in Nat : e = Points(10, shipments[s].cold) /\ e = Points(10, shipments[s].cold)'
  BY DEF Sinks, Points
<1> PICK f \in Nat, f2 \in Nat :
        /\ f = Points(5, shipments[s].status = "DISRUPTED")
        /\ f2 = Points(5, shipments[s].status = "DISRUPTED")' /\ f2 >= f - 5
        /\ (shipments[s].status = "DISRUPTED" => shipments'[s].status = "DISRUPTED") => f2 >= f
  BY DEF Points
<1>3. Raw(s) = a + 30 * b + c + d + e + f
  BY DEF Raw
<1>4. Raw(s)' = a2 + 30 * b2 + c2 + d + e + f2
  BY DEF Raw
<1>5. /\ a2 + 30 * b2 + c2 + d + e + f2 >= a + 30 * b + c + d + e + f + 30 * n - 5
      /\ f2 >= f =>
             a2 + 30 * b2 + c2 + d + e + f2 >= a + 30 * b + c + d + e + f + 30 * n
  OBVIOUS
<1> QED
  BY <1>2, <1>3, <1>4, <1>5

\* A step that leaves disruptions alone, and shipment s and its carrier at least
\* where they were.
LEMMA SinksAlone ==
    ASSUME UNCHANGED disruptions, Inv, NEW s \in DOMAIN shipments, s \in DOMAIN shipments',
           shipments'[s].route = shipments[s].route,
           shipments'[s].carrier = shipments[s].carrier,
           shipments'[s].priority = shipments[s].priority,
           shipments'[s].cold = shipments[s].cold,
           shipments'[s].delay >= shipments[s].delay,
           shipments'[s].status = "DELIVERED" => shipments[s].status = "DELIVERED",
           CarrierDown(shipments[s].carrier) => CarrierDown(shipments[s].carrier)'
    PROVE  Sinks(s, 0)
<1>1. Naming(shipments[s].route)' = Naming(shipments[s].route)
  BY DEF Naming, Active
<1>2. Cardinality(Naming(shipments[s].route)) \in Nat
  BY NamesFinite
<1>3. Cardinality(Naming(shipments[s].route)') >= Cardinality(Naming(shipments[s].route)) + 0
  BY <1>1, <1>2
<1>4. Naming(shipments[s].route) # {} => Naming(shipments[s].route)' # {}
  BY <1>1
<1> QED
  BY <1>3, <1>4 DEF Sinks

\* Whoever sinks and loses no more points than he has to spare is still hurt.
LEMMA StaysHurt ==
    ASSUME Inv, Inv', RowsTyped, RowsTyped', NEW s, NEW was \in Nat, Hurt(s, was), Sinks(s, 0),
           \/ shipments[s].status = "DISRUPTED" => shipments'[s].status = "DISRUPTED"
           \/ Raw(s) >= was + 30
    PROVE  Hurt(s, was)'
<1>1. Raw(s) \in Nat /\ Raw(s)' \in Nat /\ Raw(s) >= was
  BY SinkingCosts DEF Hurt
<1>2. Raw(s)' >= was
  BY <1>1, SinkingCosts
<1>3. shipments[s].delay \in Nat /\ shipments'[s].delay \in Nat
  BY DEF Sinks, RowsTyped, ShipmentRow
<1>4. \/ Naming(shipments[s].route)' # {}
      \/ CarrierDown(shipments[s].carrier)'
      \/ shipments'[s].delay > 0
  BY <1>3 DEF Hurt, Sinks
<1> QED
  BY <1>2, <1>4 DEF Hurt, Sinks

\* The delay that is left for s finds its thirty points after the statement, if
\* it did before it, or the statement enters them.
LEMMA StaysCushioned ==
    ASSUME Inv, job # <<>>, Done, NEW s, NEW was \in Nat, Cushioned(s, was),
           shipments'[s].route = shipments[s].route,
           Raw(s) \in Nat, Raw(s)' \in Nat, Raw(s)' >= Raw(s),
           Head(job).op = "enter" /\ shipments[s].route \in Range(Head(job).on.routes) =>
               Raw(s)' >= was + 30
    PROVE  Cushioned(s, was)'
<1> SUFFICES ASSUME NEW i \in 1..Len(job'), job'[i].op = "delay",
                    shipments'[s].route \in Range(job'[i].on.routes)
             PROVE  \/ Raw(s)' >= was + 30
                    \/ \E k \in 1 .. i - 1 : job'[k] = Statement("enter", job'[i].on)
  BY DEF Cushioned
<1>1. i + 1 \in 1..Len(job) /\ job[i + 1] = job'[i] /\ i \in Nat
  BY RestOK
<1>2. CASE Raw(s) >= was + 30
  BY <1>2
<1>3. CASE \E k \in 1 .. i : job[k] = Statement("enter", job'[i].on)
  <2> PICK k \in 1 .. i : job[k] = Statement("enter", job'[i].on)
    BY <1>3
  <2>1. CASE k = 1
    <3>1. Head(job) = Statement("enter", job'[i].on)
      BY <2>1, RestOK
    <3> QED
      BY <3>1 DEF Statement
  <2>2. CASE k # 1
    <3>1. k - 1 \in 1 .. i - 1 /\ k - 1 \in 1..Len(job') /\ (k - 1) + 1 = k
      BY <1>1, <2>2, RestOK
    <3>2. job'[k - 1] = job[k]
      BY <3>1, RestOK
    <3> QED
      BY <3>1, <3>2
  <2> QED
    BY <2>1, <2>2
<1> QED
  BY <1>1, <1>2, <1>3 DEF Cushioned

\* What a statement has to show of itself for the rest to follow.
LEMMA StaysWorse ==
    ASSUME Inv, Inv', RowsTyped, RowsTyped', job # <<>>, Done, Head(job).op # "enter",
           NEW s, NEW was \in Nat, Hurt(s, was), Cushioned(s, was), Sinks(s, 0),
           shipments[s].status = "DISRUPTED" => shipments'[s].status = "DISRUPTED"
    PROVE  Hurt(s, was)' /\ Cushioned(s, was)'
<1>1. Raw(s) \in Nat /\ Raw(s)' \in Nat /\ Raw(s)' >= Raw(s)
  BY SinkingCosts
<1>2. shipments'[s].route = shipments[s].route
  BY DEF Sinks
<1> QED
  BY <1>1, <1>2, StaysHurt, StaysCushioned

\* What a delay does to a row.
LEMMA DelayedRow ==
    ASSUME On \in TheEvents, NEW row \in ShipmentRow
    PROVE  /\ Delayed(row) \in ShipmentRow
           /\ Delayed(row).route = row.route /\ Delayed(row).carrier = row.carrier
           /\ Delayed(row).priority = row.priority /\ Delayed(row).cold = row.cold
           /\ Delayed(row).delay >= row.delay /\ Delayed(row).status # "DELIVERED"
<1> PICK t \in {"DISRUPTED", "DELAYED"} : t = On.status
  BY DEF TheEvents, Weather, RoadClosure, PortStrike
<1> PICK h \in Nat : h = On.hours
  BY DEF TheEvents, Weather, RoadClosure, PortStrike
<1> DEFINE new == [row EXCEPT !.status = t, !.delay = @ + h]
<1>1. row.delay \in Nat /\ row.delay + h \in Nat /\ row.delay + h >= row.delay
  BY DEF ShipmentRow
<1>2. /\ new \in ShipmentRow /\ new.route = row.route /\ new.carrier = row.carrier
      /\ new.priority = row.priority /\ new.cold = row.cold
      /\ new.delay = row.delay + h /\ new.status # "DELIVERED"
  BY <1>1 DEF ShipmentRow
<1>3. Delayed(row) = new
  BY DEF Delayed
<1> QED
  BY <1>1, <1>2, <1>3

LEMMA DelayIs ==
    ASSUME Inv, Delay
    PROVE  /\ job # <<>> /\ Done /\ Head(job).op = "delay" /\ On \in TheEvents
           /\ UNCHANGED <<disruptions, carriers>>
           /\ DOMAIN shipments' = DOMAIN shipments
           /\ \A s \in DOMAIN shipments :
                  \/ /\ shipments[s].route \in Range(On.routes)
                     /\ shipments'[s] = Delayed(shipments[s])
                  \/ shipments'[s] = shipments[s]
<1>1. job # <<>> /\ Done /\ Head(job).op = "delay"
  BY DEF Delay, Doing
<1>2. On \in TheEvents
  <2>1. Head(job) \in StatementSet
    BY <1>1, RestOK
  <2> QED
    BY <1>1, <2>1 DEF StatementSet, Statement, On
<1> QED
  BY <1>1, <1>2 DEF Delay

\* The rows keep their types.
LEMMA RowsStayTyped ==
    ASSUME Inv, RowsTyped, Executed
    PROVE  RowsTyped'
<1>1. CASE Delay
  BY <1>1, DelayIs, DelayedRow DEF RowsTyped
<1>2. CASE Risk
  <2>1. ASSUME NEW s \in DOMAIN shipments
        PROVE  shipments'[s] \in ShipmentRow
    <3>1. shipments[s] \in ShipmentRow
      BY DEF RowsTyped
    <3>2. [shipments[s] EXCEPT !.status = "AT_RISK"] \in ShipmentRow
      BY <3>1 DEF ShipmentRow
    <3> QED
      BY <1>2, <3>1, <3>2 DEF Risk
  <2> QED
    BY <1>2, <2>1 DEF RowsTyped, Risk
<1>3. CASE AddSurge
  BY <1>3, ScenarioAssumption DEF RowsTyped, AddSurge
<1>4. CASE ClearTable
  <2>1. shipments' = shipments \/ shipments' = <<>>
    BY <1>4 DEF ClearTable, Becomes
  <2> QED
    BY <2>1 DEF RowsTyped
<1>5. CASE SeedTable
  <2>1. shipments' = shipments \/ shipments' = SeedShipments
    BY <1>5 DEF SeedTable, Becomes
  <2> QED
    BY <2>1, ScenarioAssumption DEF RowsTyped
<1>6. CASE UNCHANGED shipments
  BY <1>6 DEF RowsTyped
<1>7. /\ Enter => UNCHANGED shipments
      /\ Close => UNCHANGED shipments
      /\ Recall => UNCHANGED shipments
      /\ Ground => UNCHANGED shipments
      /\ Move => UNCHANGED shipments
  BY DEF Enter, Close, Recall, Ground, Move
<1> QED
  BY <1>1, <1>2, <1>3, <1>4, <1>5, <1>6, <1>7 DEF Executed

LEMMA DelayStaysLast ==
    ASSUME Inv, DelayLast, job # <<>>, Done
    PROVE  DelayLast'
<1> SUFFICES ASSUME NEW i \in 1..Len(job'), job'[i].op = "delay"
             PROVE  i = Len(job')
  BY DEF DelayLast
<1>1. /\ Len(job) \in Nat /\ Len(job') = Len(job) - 1 /\ i + 1 \in 1..Len(job)
      /\ job'[i] = job[i + 1] /\ i \in Nat
  BY RestOK
<1>2. i + 1 = Len(job)
  BY <1>1 DEF DelayLast
<1> QED
  BY <1>1, <1>2

\* An event is entered: thirty points for everyone on its routes.
LEMMA EnterWorse ==
    ASSUME Inv, Inv', RowsTyped, RowsTyped', Enter,
           NEW s, NEW was \in Nat, Hurt(s, was), Cushioned(s, was)
    PROVE  Hurt(s, was)' /\ Cushioned(s, was)'
<1> PICK r : r = shipments[s].route
  OBVIOUS
<1> DEFINE x == Head(job).on
           row == [routes |-> Range(x.routes), severity |-> x.severity, status |-> "ACTIVE"]
           n == Len(disruptions)
<1>1. /\ job # <<>> /\ Done /\ shipments' = shipments /\ carriers' = carriers
      /\ disruptions' = Append(disruptions, row)
  BY DEF Enter, Doing, On
<1>2. /\ n \in Nat /\ Len(disruptions') = n + 1
      /\ disruptions'[n + 1] = row /\ \A i \in 1..n : disruptions'[i] = disruptions[i]
  BY <1>1, LenProperties, AppendProperties DEF Inv, Typed
<1>3. s \in DOMAIN shipments /\ shipments[s].delay \in Nat
  BY DEF Hurt, RowsTyped, ShipmentRow
<1>4. Naming(r) = {i \in 1..n : r \in disruptions[i].routes} /\ n + 1 \notin Naming(r)
  <2>1. Naming(r) = {i \in 1..n : r \in disruptions[i].routes}
    BY AllOpen
  <2> QED
    BY <1>2, <2>1
<1>5. PICK now : now = {i \in 1..n + 1 : r \in disruptions'[i].routes}
  OBVIOUS
<1>6. Naming(shipments[s].route)' = now
  <2>1. Naming(shipments[s].route)'
          = {i \in 1..Len(disruptions') : shipments'[s].route \in disruptions'[i].routes}
    BY AllOpenPrimed
  <2> QED
    BY <1>1, <1>2, <1>5, <2>1
<1> PICK was0 : was0 = Naming(r)
  OBVIOUS
<1>7. /\ IsFiniteSet(now) /\ IsFiniteSet(was0) /\ n + 1 \notin was0 /\ was0 \in SUBSET now
      /\ r \in Range(x.routes) => was0 \cup {n + 1} \in SUBSET now
  <2>1. IsFiniteSet(1..n + 1)
    BY <1>2, FS_Interval
  <2>2. IsFiniteSet(now)
    BY ONLY <1>5, <2>1, FS_Subset
  <2>3. was0 \in SUBSET now
    BY <1>2, <1>4, <1>5
  <2>4. IsFiniteSet(was0)
    BY NamesFinite
  <2>5. r \in Range(x.routes) => n + 1 \in now
    BY <1>2, <1>5
  <2> QED
    BY <1>4, <2>2, <2>3, <2>4, <2>5
<1>8. /\ Cardinality(was0) \in Nat /\ Cardinality(now) \in Nat
      /\ Cardinality(now) >= Cardinality(was0)
      /\ r \in Range(x.routes) => Cardinality(now) >= Cardinality(was0) + 1
  <2>1. /\ Cardinality(was0) \in Nat /\ Cardinality(now) \in Nat
        /\ Cardinality(now) >= Cardinality(was0)
    BY ONLY <1>7, FS_CardinalityType, FS_Subset
  <2>2. Cardinality(was0 \cup {n + 1}) = Cardinality(was0) + 1
    BY ONLY <1>7, FS_AddElement
  <2>3. was0 \cup {n + 1} \in SUBSET now => Cardinality(now) >= Cardinality(was0 \cup {n + 1})
    BY ONLY <1>7, FS_Subset
  <2> QED
    BY <1>7, <2>1, <2>2, <2>3
<1> HIDE DEF x, row, n
<1>9. Sinks(s, 0)
  <2>1. was0 # {} => now # {}
    BY <1>7
  <2>2. /\ Naming(shipments[s].route) = was0
        /\ Cardinality(now) >= Cardinality(was0) + 0
    BY <1>8
  <2>3. CarrierDown(shipments[s].carrier) => CarrierDown(shipments[s].carrier)'
    BY <1>1 DEF CarrierDown
  <2> QED
    BY <1>1, <1>3, <1>6, <2>1, <2>2, <2>3 DEF Sinks
<1>10. r \in Range(x.routes) => Sinks(s, 1)
  BY <1>6, <1>8, <1>9 DEF Sinks
<1>11. Raw(s) \in Nat /\ Raw(s)' \in Nat /\ Raw(s)' >= Raw(s) /\ Raw(s) >= was
  BY <1>1, <1>9, SinkingCosts DEF Hurt
<1>12. r \in Range(x.routes) => Raw(s)' >= was + 30
  <2> SUFFICES ASSUME r \in Range(x.routes)
               PROVE  Raw(s)' >= was + 30
    OBVIOUS
  <2>1. Raw(s)' >= Raw(s) + 30 * 1
    BY <1>1, <1>10, SinkingCosts
  <2> QED
    BY <1>11, <2>1
<1>13. Hurt(s, was)'
  BY <1>1, <1>9, StaysHurt
<1>14. Head(job).op = "enter" /\ shipments[s].route \in Range(Head(job).on.routes) =>
           Raw(s)' >= was + 30
  BY <1>12 DEF x
<1>15. Cushioned(s, was)'
  BY <1>1, <1>11, <1>14, StaysCushioned
<1> QED
  BY <1>13, <1>15

\* A delay is the last statement; what it loses, its event had given.
LEMMA DelayWorse ==
    ASSUME Inv, Inv', RowsTyped, RowsTyped', DelayLast, Delay,
           NEW s, NEW was \in Nat, Hurt(s, was), Cushioned(s, was)
    PROVE  Hurt(s, was)' /\ Cushioned(s, was)'
<1>1. /\ job # <<>> /\ Done /\ Head(job) = job[1] /\ job[1].op = "delay"
      /\ Len(job) \in Nat \ {0} /\ 1 \in 1..Len(job) /\ Len(job') = Len(job) - 1
      /\ On = job[1].on
  BY DelayIs, RestOK DEF On
<1>2. Len(job') = 0
  BY <1>1 DEF DelayLast
<1>3. Cushioned(s, was)'
  BY <1>2 DEF Cushioned
<1>4. /\ s \in DOMAIN shipments /\ s \in DOMAIN shipments' /\ shipments[s] \in ShipmentRow
      /\ shipments[s].status # "DELIVERED" /\ shipments[s].delay \in Nat
  BY DelayIs DEF Hurt, RowsTyped, ShipmentRow
<1>5. Sinks(s, 0)
  <2>1. /\ shipments'[s].route = shipments[s].route
        /\ shipments'[s].carrier = shipments[s].carrier
        /\ shipments'[s].priority = shipments[s].priority
        /\ shipments'[s].cold = shipments[s].cold
        /\ shipments'[s].delay >= shipments[s].delay
        /\ shipments'[s].status # "DELIVERED"
    BY <1>4, DelayIs, DelayedRow
  <2>2. CarrierDown(shipments[s].carrier) => CarrierDown(shipments[s].carrier)'
    BY <2>1, DelayIs DEF CarrierDown
  <2>3. UNCHANGED disruptions
    BY DelayIs
  <2> QED
    BY ONLY Inv, <1>4, <2>1, <2>2, <2>3, SinksAlone
<1>6. shipments'[s] = shipments[s] \/ Raw(s) >= was + 30
  <2> SUFFICES ASSUME shipments[s].route \in Range(On.routes)
               PROVE  Raw(s) >= was + 30
    BY <1>4, DelayIs
  <2> QED
    BY <1>1 DEF Cushioned
<1>7. Hurt(s, was)'
  BY <1>5, <1>6, StaysHurt
<1> QED
  BY <1>3, <1>7

\* The other statements leave the disruptions, and take nobody's points.
LEMMA OthersWorse ==
    ASSUME Inv, Inv', RowsTyped, RowsTyped',
           Close \/ Recall \/ Risk \/ Ground \/ Move \/ AddSurge,
           NEW s, NEW was \in Nat, Hurt(s, was), Cushioned(s, was)
    PROVE  Hurt(s, was)' /\ Cushioned(s, was)'
<1>1. job # <<>> /\ Done /\ Head(job).op # "enter" /\ UNCHANGED disruptions
  BY DEF Close, Recall, Risk, Ground, Move, AddSurge, Doing
<1>2. s \in DOMAIN shipments /\ shipments[s] \in ShipmentRow /\ shipments[s].delay \in Nat
  BY DEF Hurt, RowsTyped, ShipmentRow
<1>3. /\ s \in DOMAIN shipments'
      /\ shipments'[s].route = shipments[s].route
      /\ shipments'[s].carrier = shipments[s].carrier
      /\ shipments'[s].priority = shipments[s].priority
      /\ shipments'[s].cold = shipments[s].cold
      /\ shipments'[s].delay = shipments[s].delay
      /\ shipments'[s].status = "DELIVERED" => shipments[s].status = "DELIVERED"
      /\ shipments[s].status = "DISRUPTED" => shipments'[s].status = "DISRUPTED"
  <2>1. CASE Risk
    BY <1>2, <2>1 DEF Risk, ShipmentRow
  <2>2. CASE AddSurge
    BY <1>2, <2>2 DEF AddSurge
  <2>3. CASE UNCHANGED shipments
    BY <1>2, <2>3
  <2> QED
    BY <2>1, <2>2, <2>3 DEF Close, Recall, Ground, Move
<1>4. CarrierDown(shipments[s].carrier) => CarrierDown(shipments[s].carrier)'
  <2>1. CASE Recall
    BY <1>3, <2>1 DEF Recall, CarrierDown, Inv, Typed, CarrierRow
  <2>2. CASE UNCHANGED carriers
    BY <1>3, <2>2 DEF CarrierDown
  <2> QED
    BY <2>1, <2>2 DEF Close, Risk, Ground, Move, AddSurge
<1>5. Sinks(s, 0)
  BY ONLY Inv, <1>1, <1>2, <1>3, <1>4, SinksAlone
<1> QED
  BY <1>1, <1>3, <1>5, StaysWorse
\* What a statement of a scenario, or its failure, leaves of what was.
LEMMA ScenarioWorse ==
    ASSUME Inv, Inv', RowsTyped, RowsTyped', DelayLast, job # <<>>, ~Resetting,
           Executed \/ StatementFails,
           NEW s, NEW was \in Nat, Hurt(s, was), Cushioned(s, was)
    PROVE  Hurt(s, was)' /\ Cushioned(s, was)'
<1>1. CASE StatementFails
  <2>1. UNCHANGED <<disruptions, routes, carriers, shipments, assets>> /\ Len(job') = 0
    BY <1>1, NothingLeft DEF StatementFails, tables
  <2>2. Hurt(s, was)'
    BY <2>1 DEF Hurt, Raw, Naming, Active, CarrierDown
  <2> QED
    BY <2>1, <2>2 DEF Cushioned
<1>2. ~ClearTable /\ ~SeedTable
  <2>1. Done => Head(job).op \notin ResetOps
    BY RestOK
  <2> QED
    BY <2>1 DEF ClearTable, SeedTable, Doing, ResetOps
<1> QED
  BY <1>1, <1>2, EnterWorse, DelayWorse, OthersWorse DEF Executed

\* A scenario begins with what the first snapshot says.
LEMMA BegunWorse ==
    ASSUME Inv, Inv', RowsTyped, Begun
    PROVE  WorseInv'
<1>1. job = <<>> /\ UNCHANGED <<disruptions, routes, carriers, shipments, assets>>
  BY DEF Begun, ApplyEvent, ApplyCarrierUnavailable, ApplyFleetUnavailable,
         ApplyDemandIncrease, Redeploy, Reset, BeginScenario, Begin, tables
<1>2. RowsTyped'
  BY <1>1 DEF RowsTyped
<1>3. CASE Reset
  <2>1. job' = ResetJob
    BY <1>3 DEF Reset, Begin
  <2>2. \A i \in 1..Len(job') : job'[i].op \in ResetOps
    BY <2>1, ResetJobOK
  <2>3. DelayLast'
    BY <2>2 DEF DelayLast, ResetOps
  <2>4. job' # <<>> => Resetting'
    BY <2>2 DEF Inv, JobOK, EndsWell, Resetting
  <2> QED
    BY <1>2, <2>3, <2>4 DEF WorseInv
<1>4. ASSUME before' = Impact, DelayLast', NEW s \in DOMAIN before', NEW was, was = before'[s]
      PROVE  was \in 1..100 /\ Hurt(s, was)'
  <2>1. s \in Affected /\ was = ImpactScore(s)
    BY <1>4 DEF Impact
  <2>2. /\ s \in DOMAIN shipments /\ shipments[s].status # "DELIVERED"
        /\ \/ Naming(shipments[s].route) # {}
           \/ CarrierDown(shipments[s].carrier)
           \/ shipments[s].delay > 0
        /\ ImpactScore(s) > 0
    BY <2>1 DEF Affected
  <2>3. Raw(s) \in Nat
    BY <2>2, RawIsNumber
  <2>4. was \in 1..100 /\ Raw(s) >= was
    BY <2>1, <2>2, <2>3, ScoreIs
  <2>5. Hurt(s, was)
    BY <2>2, <2>4 DEF Hurt
  <2>6. Hurt(s, was)'
    BY <1>1, <2>5 DEF Hurt, Raw, Naming, Active, CarrierDown
  <2> QED
    BY <2>4, <2>6
<1>5. CASE ApplyEvent
  <2> PICK x \in TheEvents : job' = EventJob(x) /\ before' = Impact
    BY <1>5 DEF ApplyEvent, BeginScenario, Begin, TheEvents
  <2> PICK n \in {1, 2} : n = Len(x.routes)
    BY EventsTyped
  <2>1. /\ Len(job') = n + 2
        /\ job'[1] = Statement("enter", x) /\ job'[n + 2] = Statement("delay", x)
        /\ \A i \in 1..n : job'[i + 1] = Statement("close", x.routes[i])
    BY EventJobIs
  <2>2. ASSUME NEW i \in 1..Len(job'), job'[i].op = "delay"
        PROVE  i = n + 2
    <3>1. i = 1 \/ i = n + 2 \/ i - 1 \in 1..n
      BY <2>1
    <3>2. i # 1
      BY <2>1, <2>2 DEF Statement
    <3>3. ASSUME i - 1 \in 1..n
          PROVE  FALSE
      <4>1. job'[(i - 1) + 1] = Statement("close", x.routes[i - 1])
        BY <2>1, <3>3
      <4>2. (i - 1) + 1 = i
        OBVIOUS
      <4> QED
        BY <2>2, <4>1, <4>2 DEF Statement
    <3> QED
      BY <3>1, <3>2, <3>3
  <2>3. DelayLast'
    BY <2>1, <2>2 DEF DelayLast
  <2>4. ASSUME NEW s, NEW was
        PROVE  Cushioned(s, was)'
    <3>1. ASSUME NEW i \in 1..Len(job'), job'[i].op = "delay"
          PROVE  \E k \in 1 .. i - 1 : job'[k] = Statement("enter", job'[i].on)
      <4>1. i = n + 2 /\ job'[i].on = x /\ 1 \in 1 .. i - 1
        BY <2>1, <2>2, <3>1 DEF Statement
      <4> QED
        BY <2>1, <4>1
    <3> QED
      BY <3>1 DEF Cushioned
  <2>5. ASSUME NEW s \in DOMAIN before'
        PROVE  before'[s] \in 1..100 /\ Hurt(s, before[s])' /\ Cushioned(s, before[s])'
    <3> PICK was : was = before'[s]
      OBVIOUS
    <3>1. was \in 1..100 /\ Hurt(s, was)' /\ Cushioned(s, was)'
      BY <1>4, <2>3, <2>4
    <3>2. Hurt(s, before[s])'
      BY <3>1 DEF Hurt
    <3>3. Cushioned(s, before[s])'
      BY <3>1 DEF Cushioned
    <3> QED
      BY <3>1, <3>2, <3>3
  <2> QED
    BY <1>2, <2>3, <2>5 DEF WorseInv
<1>6. CASE ApplyCarrierUnavailable \/ ApplyFleetUnavailable \/ ApplyDemandIncrease \/ Redeploy
  <2>1. before' = Impact
    BY <1>6 DEF ApplyCarrierUnavailable, ApplyFleetUnavailable, ApplyDemandIncrease, Redeploy,
                BeginScenario
  <2>2. \A i \in 1..Len(job') : job'[i].op # "delay"
    <3>1. CASE ApplyCarrierUnavailable
      <4> PICK c : job' = <<Statement("recall", c), Statement("risk", c)>>
        BY <3>1 DEF ApplyCarrierUnavailable, BeginScenario, Begin, RecallJob
      <4> QED
        BY DEF Statement
    <3>2. CASE ApplyFleetUnavailable \/ ApplyDemandIncrease \/ Redeploy
      <4> PICK z : job' = <<z>> /\ z.op \in {"ground", "surge", "move"}
        BY <3>2 DEF ApplyFleetUnavailable, ApplyDemandIncrease, Redeploy, BeginScenario, Begin,
                    GroundJob, SurgeJob, MoveJob, Statement
      <4> QED
        OBVIOUS
    <3> QED
      BY <1>6, <3>1, <3>2
  <2>3. DelayLast'
    BY <2>2 DEF DelayLast
  <2>4. ASSUME NEW s \in DOMAIN before'
        PROVE  before'[s] \in 1..100 /\ Hurt(s, before[s])' /\ Cushioned(s, before[s])'
    <3> PICK was : was = before'[s]
      OBVIOUS
    <3>1. was \in 1..100 /\ Hurt(s, was)'
      BY <1>4, <2>1, <2>3
    <3>2. Hurt(s, before[s])'
      BY <3>1 DEF Hurt
    <3>3. Cushioned(s, before[s])'
      BY <2>2 DEF Cushioned
    <3> QED
      BY <3>1, <3>2, <3>3
  <2> QED
    BY <1>2, <2>3, <2>4 DEF WorseInv
<1> QED
  BY <1>3, <1>5, <1>6 DEF Begun

LEMMA WorseStep == Inv /\ Inv' /\ WorseInv /\ [Next]_vars => WorseInv'
<1> SUFFICES ASSUME Inv, Inv', WorseInv, [Next]_vars
             PROVE  WorseInv'
  OBVIOUS
<1>1. CASE Executed \/ StatementFails
  <2>1. job # <<>>
    BY <1>1 DEF Executed, StatementFails, Enter, Close, Delay, Recall, Risk, Ground, Move, AddSurge,
                ClearTable, SeedTable, Doing
  <2>2. Executed => Done
    BY DEF Executed, Enter, Close, Delay, Recall, Risk, Ground, Move, AddSurge, ClearTable, SeedTable
  <2>3. RowsTyped'
    BY <1>1, RowsStayTyped DEF WorseInv, StatementFails, tables, RowsTyped
  <2>4. DelayLast'
    <3>1. CASE Executed
      BY <2>1, <2>2, <3>1, DelayStaysLast DEF WorseInv
    <3>2. CASE StatementFails
      BY <3>2, NothingLeft DEF DelayLast, StatementFails
    <3> QED
      BY <1>1, <3>1, <3>2
  <2>5. ASSUME job' # <<>>, ~Resetting', NEW s \in DOMAIN before'
        PROVE  before'[s] \in 1..100 /\ Hurt(s, before[s])' /\ Cushioned(s, before[s])'
    <3>1. Executed
      BY <1>1, <2>5 DEF StatementFails
    <3>2. ~Resetting
      BY <2>1, <2>2, <2>5, <3>1, RestOK
    <3>3. before' = before
      BY <2>1, <2>2, <2>5, <3>1, RestOK, TailOK DEF Done, Inv
    <3> PICK was \in 1..100 : was = before[s]
      BY <2>1, <2>5, <3>2, <3>3 DEF WorseInv
    <3>4. Hurt(s, was) /\ Cushioned(s, was)
      BY <2>1, <2>5, <3>2, <3>3 DEF WorseInv
    <3>5. Hurt(s, was)' /\ Cushioned(s, was)'
      <4>1. RowsTyped /\ DelayLast
        BY DEF WorseInv
      <4>2. was \in Nat
        OBVIOUS
      <4> QED
        BY ONLY Inv, Inv', <2>1, <2>3, <3>1, <3>2, <3>4, <4>1, <4>2, ScenarioWorse
    <3>6. was = before'[s]
      BY <3>3
    <3>7. Hurt(s, before[s])'
      BY <3>5, <3>6 DEF Hurt
    <3>8. Cushioned(s, before[s])'
      BY <3>5, <3>6 DEF Cushioned
    <3> QED
      BY <3>6, <3>7, <3>8
  <2> QED
    BY <2>3, <2>4, <2>5 DEF WorseInv
<1>2. CASE Begun
  BY <1>2, BegunWorse DEF WorseInv
<1>3. CASE UNCHANGED vars
  <2>1. UNCHANGED <<disruptions, routes, carriers, shipments, job, before>>
    BY <1>3 DEF vars, tables
  <2>2. ASSUME job # <<>>, ~Resetting, NEW s \in DOMAIN before
        PROVE  before'[s] \in 1..100 /\ Hurt(s, before[s])' /\ Cushioned(s, before[s])'
    <3> PICK was \in 1..100 : was = before[s] /\ Hurt(s, was) /\ Cushioned(s, was)
      BY <2>2 DEF WorseInv
    <3>1. Raw(s)' = Raw(s)
      BY <2>1 DEF Raw, Naming, Active, CarrierDown
    <3>2. Hurt(s, before[s])'
      BY <2>1, <3>1 DEF Hurt, Naming, Active, CarrierDown
    <3>3. Cushioned(s, before[s])'
      BY <2>1, <3>1 DEF Cushioned
    <3> QED
      BY <2>1, <3>2, <3>3
  <2> QED
    BY <2>1, <2>2 DEF WorseInv, RowsTyped, DelayLast, Resetting
<1> QED
  BY <1>1, <1>2, <1>3 DEF Next

LEMMA InitWorse == Init => WorseInv
BY NothingLeft, ScenarioAssumption DEF Init, Seeded, WorseInv, RowsTyped, DelayLast

\* A scenario, or what has been run of it when a statement fails, leaves every
\* shipment that was affected affected, with no lower a score.
THEOREM Worsens == Spec => ScenariosOnlyWorsen
<1>1. ASSUME Inv, Inv', WorseInv, WorseInv', [Next]_vars, job # <<>>, job' = <<>>, ~Resetting,
             NEW s \in DOMAIN before
      PROVE  s \in Affected' /\ ImpactScore(s)' >= before[s]
  <2>1. ~Begun
    BY <1>1 DEF Begun, ApplyEvent, ApplyCarrierUnavailable, ApplyFleetUnavailable,
                ApplyDemandIncrease, Redeploy, Reset, BeginScenario, Begin
  <2>2. Executed \/ StatementFails
    BY <1>1, <2>1 DEF Next, vars
  <2> PICK was \in 1..100 : was = before[s]
    BY <1>1 DEF WorseInv
  <2>3. Hurt(s, was)'
    <3>1. RowsTyped /\ RowsTyped' /\ DelayLast
      BY <1>1 DEF WorseInv
    <3>2. was \in Nat
      OBVIOUS
    <3>3. Hurt(s, was) /\ Cushioned(s, was)
      BY <1>1 DEF WorseInv
    <3> QED
      BY ONLY <1>1, <2>2, <3>1, <3>2, <3>3, ScenarioWorse
  <2>4. s \in DOMAIN shipments' /\ Raw(s)' >= was
    BY <2>3 DEF Hurt
  <2>5. Raw(s)' \in Nat
    BY <1>1, <2>4, RawIsNumberPrimed DEF WorseInv
  <2>6. ImpactScore(s)' = IF Raw(s)' > 100 THEN 100 ELSE Raw(s)'
    BY DEF ImpactScore, Raw
  <2>7. ImpactScore(s)' >= was /\ ImpactScore(s)' > 0
    BY <2>4, <2>5, <2>6
  <2>8. s \in Affected'
    BY <2>3, <2>7 DEF Hurt, Affected
  <2> QED
    BY <2>7, <2>8
<1>2. Inv /\ Inv' /\ WorseInv /\ WorseInv' /\ [Next]_vars =>
          [job # <<>> /\ job' = <<>> /\ ~Resetting =>
               \A s \in DOMAIN before : s \in Affected' /\ ImpactScore(s)' >= before[s]]_vars
  BY <1>1
<1> QED
  BY <1>2, InitWorse, WorseStep, Invariant, PTL DEF Spec, ScenariosOnlyWorsen

-----------------------------------------------------------------------------
(* What the scenarios leave alone *)

\* What the scenarios leave alone: of a route and a carrier all but whether it is
\* disrupted, and that of every carrier nobody names.
KeptRows ==
    /\ \A r \in DOMAIN routes :
           /\ r \in DOMAIN SeedRoutes
           /\ routes[r].risk = SeedRoutes[r].risk /\ routes[r].hours = SeedRoutes[r].hours
    /\ DOMAIN carriers \subseteq DOMAIN SeedCarriers
    /\ Whole => /\ DOMAIN carriers = DOMAIN SeedCarriers
                /\ \A c \in DOMAIN SeedCarriers \ CarrierTargets :
                       carriers[c].down = SeedCarriers[c].down

LEMMA InitKept == Init => KeptRows
BY DEF Init, Seeded, KeptRows

\* A step from one statement to the next leaves Whole as it is, but for the end
\* of a reset.
LEMMA WholeStays ==
    ASSUME Inv, [Next]_vars, Whole'
    PROVE  Whole \/ (Seeded' /\ job' = <<>>)
<1>1. CASE Executed
  <2>1. job # <<>> /\ Done
    BY <1>1 DEF Executed, Enter, Close, Delay, Recall, Risk, Ground, Move, AddSurge,
                ClearTable, SeedTable, Doing
  <2>2. CASE ~Resetting
    <3>1. ~SeedTable
      BY <2>1, <2>2, RestOK DEF SeedTable, Doing, ResetOps
    <3>2. failed' = failed
      BY <1>1, <3>1 DEF Executed, Enter, Close, Delay, Recall, Risk, Ground, Move, AddSurge, ClearTable
    <3> QED
      BY <2>2, <3>2 DEF Whole
  <2>3. CASE Resetting
    <3>1. job' = <<>>
      BY <2>1, <2>3, RestOK DEF Whole
    <3>2. Len(job) = 1
      BY <2>1, <3>1, TailOK DEF Done, Inv
    <3>3. Head(job) = job[1] /\ job[1].op = "seed"
      BY <2>1, <2>3, <3>2, RestOK DEF Resetting
    <3>4. SeedTable
      BY <1>1, <3>3 DEF Executed, Doing, Enter, Close, Delay, Recall, Risk, Ground, Move, AddSurge,
                        ClearTable
    <3> QED
      BY <3>1, <3>2, <3>4, LastSeed
  <2> QED
    BY <2>2, <2>3
<1>2. CASE StatementFails
  BY <1>2 DEF StatementFails, Whole
<1>3. CASE Begun
  <2>1. job = <<>> /\ failed' = failed
    BY <1>3 DEF Begun, ApplyEvent, ApplyCarrierUnavailable, ApplyFleetUnavailable,
                ApplyDemandIncrease, Redeploy, Reset, BeginScenario, Begin
  <2> QED
    BY <2>1 DEF Whole, Resetting
<1>4. CASE UNCHANGED vars
  BY <1>4 DEF vars, Whole, Resetting
<1> QED
  BY <1>1, <1>2, <1>3, <1>4 DEF Next

\* While no reset runs no table is cleared or filled.
LEMMA WholeStatements ==
    ASSUME Inv, [Next]_vars, Whole, Whole'
    PROVE  /\ Begun => UNCHANGED tables
           /\ ~ClearTable /\ ~SeedTable
<1>1. Begun => UNCHANGED tables
  BY DEF Begun, ApplyEvent, ApplyCarrierUnavailable, ApplyFleetUnavailable,
         ApplyDemandIncrease, Redeploy, Reset, BeginScenario, Begin
<1>2. ~ClearTable /\ ~SeedTable
  BY RestOK DEF ClearTable, SeedTable, Doing, ResetOps, Whole
<1> QED
  BY <1>1, <1>2

\* No statement writes the risk and the hours of a route, and only a recall takes
\* a carrier out of service.
LEMMA StepKept == Inv /\ Inv' /\ KeptRows /\ [Next]_vars => KeptRows'
<1> SUFFICES ASSUME Inv, Inv', KeptRows, [Next]_vars
             PROVE  KeptRows'
  OBVIOUS
<1>1. \A r \in DOMAIN routes' :
          /\ r \in DOMAIN SeedRoutes
          /\ routes'[r].risk = SeedRoutes[r].risk /\ routes'[r].hours = SeedRoutes[r].hours
  <2>1. CASE Close
    BY <2>1 DEF Close, KeptRows, Inv, Typed, RouteRow
  <2>2. CASE ClearTable \/ SeedTable
    <3>1. routes' \in {routes, <<>>, SeedRoutes} /\ DOMAIN <<>> = {}
      BY <2>2 DEF ClearTable, SeedTable, Becomes
    <3> QED
      BY <3>1 DEF KeptRows
  <2>3. CASE UNCHANGED routes
    BY <2>3 DEF KeptRows
  <2> QED
    BY <2>1, <2>2, <2>3 DEF Next, Begun, ApplyEvent, ApplyCarrierUnavailable, ApplyFleetUnavailable,
       ApplyDemandIncrease, Redeploy, Reset, BeginScenario, Begin, StatementFails, tables, vars,
       Executed, Enter, Delay, Recall, Risk, Ground, Move, AddSurge
<1>2. CASE Recall
  <2>1. /\ DOMAIN carriers' = DOMAIN carriers
        /\ \A c \in DOMAIN carriers : c # On => carriers'[c] = carriers[c]
    BY <1>2 DEF Recall
  <2>2. On \in CarrierTargets /\ ~Resetting
    <3>1. Head(job) \in StatementSet /\ Head(job).op = "recall" /\ ~Resetting
      BY <1>2, RestOK DEF Recall, Doing, ResetOps
    <3> QED
      BY <3>1 DEF StatementSet, Statement, On
  <2>3. failed' = failed
    BY <1>2 DEF Recall
  <2> QED
    BY <1>1, <2>1, <2>2, <2>3 DEF KeptRows, Whole
<1>3. CASE ~Recall
  <2>1. DOMAIN carriers' \subseteq DOMAIN SeedCarriers
    <3>1. CASE ClearTable \/ SeedTable
      <4>1. carriers' \in {carriers, <<>>, SeedCarriers} /\ DOMAIN <<>> = {}
        BY <3>1 DEF ClearTable, SeedTable, Becomes
      <4> QED
        BY <4>1 DEF KeptRows
    <3>2. CASE UNCHANGED carriers
      BY <3>2 DEF KeptRows
    <3> QED
      BY <1>3, <3>1, <3>2 DEF Next, Begun, ApplyEvent, ApplyCarrierUnavailable, ApplyFleetUnavailable,
         ApplyDemandIncrease, Redeploy, Reset, BeginScenario, Begin, StatementFails, tables, vars,
         Executed, Enter, Close, Delay, Risk, Ground, Move, AddSurge
  <2>2. ASSUME Whole'
        PROVE  /\ DOMAIN carriers' = DOMAIN SeedCarriers
               /\ \A c \in DOMAIN SeedCarriers \ CarrierTargets :
                      carriers'[c].down = SeedCarriers[c].down
    <3>1. CASE Seeded'
      BY <3>1 DEF Seeded
    <3>2. CASE Whole
      <4>1. UNCHANGED carriers
        BY <1>3, <2>2, <3>2, WholeStatements DEF Next, StatementFails, tables, vars,
           Executed, Enter, Close, Delay, Risk, Ground, Move, AddSurge
      <4> QED
        BY <3>2, <4>1 DEF KeptRows
    <3> QED
      BY <2>2, <3>1, <3>2, WholeStays
  <2> QED
    BY <1>1, <2>1, <2>2 DEF KeptRows
<1> QED
  BY <1>2, <1>3

LEMMA Kept == Spec => []KeptRows
BY InitKept, StepKept, Invariant, PTL DEF Spec

\* The advice is the least risk of all that is considered, then the least time,
\* whatever was closed and whatever failed.
THEOREM Safest == Spec => []AdviceIsSafest
<1>1. Inv /\ KeptRows => AdviceIsSafest
  <2> SUFFICES ASSUME Inv, KeptRows, NEW s \in DOMAIN shipments,
                      NEW r \in RouteAdvice(s), NEW q \in Candidates(s)
               PROVE  \/ routes[r].risk < routes[q].risk
                      \/ /\ routes[r].risk = routes[q].risk
                         /\ routes[r].hours \div 10 <= routes[q].hours \div 10
    BY DEF AdviceIsSafest
  <2>1. r \in Candidates(s) /\ RouteKey(r) <= RouteKey(q)
    BY DEF RouteAdvice
  <2>2. r \in DOMAIN routes /\ q \in DOMAIN routes
    BY <2>1 DEF Candidates, SameCorridor, Nearby, Free
  <2>3. /\ routes[r].risk \in Nat /\ routes[r].hours \in Nat
        /\ routes[q].risk \in Nat /\ routes[q].hours \in Nat
    BY <2>2 DEF Inv, Typed, RouteRow
  <2>4. routes[q].risk < routes[r].risk =>
            routes[q].hours \div 10 - routes[r].hours \div 10
                < 100 * (routes[r].risk - routes[q].risk)
    BY <2>2, RiskAssumption DEF KeptRows
  <2>5. routes[r].risk * 100 + routes[r].hours \div 10 <= routes[q].risk * 100 + routes[q].hours \div 10
    BY <2>1 DEF RouteKey
  <2> PICK a \in Nat : a = routes[r].hours \div 10
    BY <2>3
  <2> PICK b \in Nat : b = routes[q].hours \div 10
    BY <2>3
  <2> PICK m \in Nat, n \in Nat : m = routes[r].risk /\ n = routes[q].risk
    BY <2>3
  <2>6. (n < m => b - a < 100 * (m - n)) /\ m * 100 + a <= n * 100 + b
    BY <2>4, <2>5
  <2>7. m < n \/ (m = n /\ a <= b)
    BY ONLY <2>6
  <2> QED
    BY <2>7
<1> QED
  BY <1>1, Kept, Invariant, PTL

-----------------------------------------------------------------------------
(* The fleet *)

\* No scenario takes an asset out of the table, and an asset has its seeded
\* status or is under way or broken down.
FleetKept ==
    /\ DOMAIN assets \subseteq DOMAIN SeedAssets
    /\ \A a \in DOMAIN assets :
           /\ assets[a] \in AssetRow
           /\ assets[a].status \in {SeedAssets[a].status, "MAINTENANCE", "IN_TRANSIT"}
    /\ Whole => DOMAIN assets = DOMAIN SeedAssets

LEMMA SeedsFleet ==
    \A a \in DOMAIN SeedAssets : SeedAssets[a] \in AssetRow
BY ScenarioAssumption

LEMMA SentAway ==
    ASSUME NEW row \in AssetRow
    PROVE  /\ [row EXCEPT !.status = "MAINTENANCE", !.used = 0] \in AssetRow
           /\ [row EXCEPT !.status = "MAINTENANCE", !.used = 0].status = "MAINTENANCE"
           /\ [row EXCEPT !.status = "IN_TRANSIT"] \in AssetRow
           /\ [row EXCEPT !.status = "IN_TRANSIT"].status = "IN_TRANSIT"
<1>1. "MAINTENANCE" \in AssetStatuses /\ "IN_TRANSIT" \in AssetStatuses
  BY DEF AssetStatuses
<1> HIDE DEF AssetStatuses
<1> QED
  BY <1>1 DEF AssetRow

LEMMA InitFleet == Init => FleetKept
BY SeedsFleet DEF Init, Seeded, FleetKept

LEMMA StepFleet == Inv /\ Inv' /\ FleetKept /\ [Next]_vars => FleetKept'
<1> SUFFICES ASSUME Inv, Inv', FleetKept, [Next]_vars
             PROVE  FleetKept'
  OBVIOUS
<1>1. CASE Ground \/ Move
  <2>1. DOMAIN assets' = DOMAIN assets /\ failed' = failed
    BY <1>1 DEF Ground, Move
  <2>2. ASSUME NEW a \in DOMAIN assets
        PROVE  /\ assets'[a] \in AssetRow
               /\ assets'[a].status \in {SeedAssets[a].status, "MAINTENANCE", "IN_TRANSIT"}
    <3>1. /\ assets[a] \in AssetRow
          /\ assets[a].status \in {SeedAssets[a].status, "MAINTENANCE", "IN_TRANSIT"}
      BY DEF FleetKept
    <3>2. \/ assets'[a] = assets[a]
          \/ assets'[a] = [assets[a] EXCEPT !.status = "MAINTENANCE", !.used = 0]
          \/ assets'[a] = [assets[a] EXCEPT !.status = "IN_TRANSIT"]
      BY <1>1 DEF Ground, Move
    <3>3. CASE assets'[a] = assets[a]
      BY <3>1, <3>3
    <3>4. CASE assets'[a] = [assets[a] EXCEPT !.status = "MAINTENANCE", !.used = 0]
      BY <3>1, <3>4, SentAway
    <3>5. CASE assets'[a] = [assets[a] EXCEPT !.status = "IN_TRANSIT"]
      BY <3>1, <3>5, SentAway
    <3> QED
      BY <3>2, <3>3, <3>4, <3>5
  <2>3. ~Resetting
    BY <1>1, RestOK DEF Ground, Move, Doing, ResetOps
  <2> QED
    BY <2>1, <2>2, <2>3 DEF FleetKept, Whole
<1>2. CASE ~(Ground \/ Move)
  <2>1. assets' \in {assets, <<>>, SeedAssets} /\ DOMAIN <<>> = {}
    BY <1>2 DEF ClearTable, SeedTable, Becomes, Next, Begun, ApplyEvent, ApplyCarrierUnavailable,
       ApplyFleetUnavailable, ApplyDemandIncrease, Redeploy, Reset, BeginScenario, Begin,
       StatementFails, tables, vars, Executed, Enter, Close, Delay, Recall, Risk, AddSurge
  <2>2. /\ DOMAIN assets' \subseteq DOMAIN SeedAssets
        /\ \A a \in DOMAIN assets' :
               /\ assets'[a] \in AssetRow
               /\ assets'[a].status \in {SeedAssets[a].status, "MAINTENANCE", "IN_TRANSIT"}
    BY <2>1, SeedsFleet DEF FleetKept
  <2>3. ASSUME Whole'
        PROVE  DOMAIN assets' = DOMAIN SeedAssets
    <3>1. CASE Seeded'
      BY <3>1 DEF Seeded
    <3>2. CASE Whole
      <4>1. UNCHANGED assets
        BY <1>2, <2>3, <3>2, WholeStatements DEF Next, StatementFails, tables, vars,
           Executed, Enter, Close, Delay, Recall, Risk, AddSurge
      <4> QED
        BY <3>2, <4>1 DEF FleetKept
    <3> QED
      BY <2>3, <3>1, <3>2, WholeStays
  <2> QED
    BY <2>2, <2>3 DEF FleetKept
<1> QED
  BY <1>1, <1>2

LEMMA Fleet == Spec => []FleetKept
BY InitFleet, StepFleet, Invariant, PTL DEF Spec

LEMMA DisjointUnion ==
    ASSUME NEW S, NEW T, IsFiniteSet(S), IsFiniteSet(T), S \cap T = {}
    PROVE  Cardinality(S \cup T) = Cardinality(S) + Cardinality(T)
<1>1. /\ Cardinality(S \cup T) = Cardinality(S) + Cardinality(T) - Cardinality(S \cap T)
      /\ Cardinality(S) \in Nat /\ Cardinality(T) \in Nat
  BY FS_Union, FS_CardinalityType
<1>2. Cardinality(S \cap T) = 0
  BY FS_EmptySet
<1> QED
  BY <1>1, <1>2

\* The text and the enumeration agree on who is idle, no asset is lost from the
\* counts by status, and none is advised again that has been sent away.
THEOREM AddsUp == Spec => []UtilisationAddsUp
<1>1. Inv /\ FleetKept => UtilisationAddsUp
  <2> SUFFICES ASSUME Inv, FleetKept
               PROVE  UtilisationAddsUp
    OBVIOUS
  <2> DEFINE moving == Enumerating({"ACTIVE", "IN_TRANSIT"})
             idle == Enumerating({"IDLE", "AVAILABLE"})
             broken == Enumerating({"MAINTENANCE"})
             fleet == DOMAIN assets
  <2>1. IsFiniteSet(fleet)
    BY DEF Inv, Typed
  <2>2. /\ moving \cup (idle \cup broken) = fleet
        /\ moving \cap (idle \cup broken) = {} /\ idle \cap broken = {}
        /\ moving \in SUBSET fleet /\ idle \in SUBSET fleet /\ broken \in SUBSET fleet
    BY DEF Enumerating, Enumerated
  <2>3. idle = Idle
    BY DEF Enumerating, Enumerated, Idle
  <2>4. /\ Utilisation.active = Cardinality(moving) /\ Utilisation.idle = Cardinality(idle)
        /\ Utilisation.maintenance = Cardinality(broken)
    BY DEF Utilisation
  <2>5. Kpi.idle_assets = Utilisation.idle
    BY DEF Kpi
  <2>6. Kpi.idle_assets = Cardinality(Idle)
    BY <2>3, <2>4, <2>5
  <2> HIDE DEF moving, idle, broken, fleet
  <2>7. /\ IsFiniteSet(moving) /\ IsFiniteSet(idle) /\ IsFiniteSet(broken)
        /\ IsFiniteSet(idle \cup broken)
    BY ONLY <2>1, <2>2, FS_Subset, FS_Union
  <2>8. /\ Cardinality(moving) \in Nat /\ Cardinality(idle) \in Nat
        /\ Cardinality(broken) \in Nat
    BY ONLY <2>7, FS_CardinalityType
  <2>9. Cardinality(idle \cup broken) = Cardinality(idle) + Cardinality(broken)
    BY ONLY <2>2, <2>7, DisjointUnion
  <2>10. Cardinality(moving \cup (idle \cup broken)) = Cardinality(moving) + Cardinality(idle \cup broken)
    BY ONLY <2>2, <2>7, DisjointUnion
  <2>11. Cardinality(fleet) = Cardinality(moving) + Cardinality(idle) + Cardinality(broken)
    <3> PICK l \in Nat, m \in Nat, n \in Nat :
                 l = Cardinality(moving) /\ m = Cardinality(idle) /\ n = Cardinality(broken)
      BY ONLY <2>8
    <3>1. Cardinality(moving \cup (idle \cup broken)) = Cardinality(fleet)
      BY ONLY <2>2
    <3>2. Cardinality(fleet) = l + (m + n)
      BY ONLY <3>1, <2>9, <2>10, l = Cardinality(moving), m = Cardinality(idle), n = Cardinality(broken)
    <3> QED
      BY ONLY <3>2, l = Cardinality(moving), m = Cardinality(idle), n = Cardinality(broken),
              l \in Nat, m \in Nat, n \in Nat
  <2>12. Whole => Cardinality(fleet) = Cardinality(DOMAIN SeedAssets)
    BY DEF FleetKept, fleet
  <2>13. ASSUME NEW a \in Redeployable
         PROVE  SeedAssets[a].status \in {"IDLE", "AVAILABLE"}
    <3>1. a \in DOMAIN assets /\ assets[a].status \in {"IDLE", "AVAILABLE"}
      BY DEF Redeployable, Idle
    <3> QED
      BY <3>1 DEF FleetKept
  <2>14. Whole => Utilisation.active + Utilisation.idle + Utilisation.maintenance
                      = Cardinality(DOMAIN SeedAssets)
    BY <2>4, <2>11, <2>12
  <2> QED
    BY <2>6, <2>13, <2>14 DEF UtilisationAddsUp
<1> QED
  BY <1>1, Fleet, Invariant, PTL

-----------------------------------------------------------------------------
(* Some advice for every high risk *)

\* The principle of the least number, which stands in for induction.
LEMMA LeastNatural ==
    ASSUME NEW I \in SUBSET Nat, I # {}
    PROVE  \E m \in I : \A k \in I : m <= k
<1>1. \E m \in I : \A k \in I : <<k, m>> \notin OpToRel(<, Nat)
  BY NatLessThanWellFounded, WFMin
<1>2. ASSUME NEW m \in Nat, NEW k \in Nat, <<k, m>> \notin OpToRel(<, Nat)
      PROVE  m <= k
  BY <1>2 DEF OpToRel
<1> QED
  BY <1>1, <1>2

\* Of finitely many there is one that is best by a number.
LEMMA BestExists ==
    ASSUME NEW S, IsFiniteSet(S), S # {}, NEW f, \A x \in S : f[x] \in Int
    PROVE  \E x \in S : \A y \in S : f[x] >= f[y]
<1> DEFINE Bounded(T) == \E x \in T : \A y \in T : f[x] >= f[y]
           Bad == {n \in Nat : \E T \in SUBSET S : /\ IsFiniteSet(T) /\ T # {}
                                                  /\ Cardinality(T) = n /\ ~Bounded(T)}
<1>1. ASSUME Bad # {}
      PROVE  FALSE
  <2>1. Bad \in SUBSET Nat
    OBVIOUS
  <2> PICK m \in Bad : \A k \in Bad : m <= k
    BY <1>1, <2>1, LeastNatural
  <2> PICK T \in SUBSET S : IsFiniteSet(T) /\ T # {} /\ Cardinality(T) = m /\ ~Bounded(T)
    OBVIOUS
  <2> PICK x \in T : TRUE
    OBVIOUS
  <2> DEFINE U == T \ {x}
  <2>2. IsFiniteSet(U) /\ Cardinality(U) = m - 1 /\ m \in Nat /\ U \in SUBSET S
    BY FS_RemoveElement
  <2>3. U # {}
    <3>1. SUFFICES ASSUME U = {}
                   PROVE  FALSE
      OBVIOUS
    <3>2. T = {x}
      BY <3>1
    <3> QED
      BY <3>2
  <2>4. m - 1 \in Nat
    BY <2>2, FS_CardinalityType
  <2>5. m - 1 \notin Bad
    BY <2>2, <2>4
  <2>6. Bounded(U)
    BY <2>2, <2>3, <2>4, <2>5
  <2> PICK z \in U : \A y \in U : f[z] >= f[y]
    BY <2>6
  <2>7. CASE f[x] >= f[z]
    <3>1. \A y \in T : f[x] >= f[y]
      BY <2>7
    <3> QED
      BY <3>1
  <2>8. CASE ~(f[x] >= f[z])
    <3>1. \A y \in T : f[z] >= f[y]
      BY <2>8
    <3> QED
      BY <3>1
  <2> QED
    BY <2>7, <2>8
<1>2. Cardinality(S) \in Nat
  BY FS_CardinalityType
<1> QED
  BY <1>1, <1>2

\* Among the largest of some carriers there is one.
LEMMA LargestExists ==
    ASSUME NEW S \in SUBSET DOMAIN carriers, IsFiniteSet(S), S # {},
           \A c \in S : carriers[c] \in CarrierRow
    PROVE  Largest(S) # {}
<1> DEFINE cap == [c \in S |-> carriers[c].capacity]
           rel == [c \in S |-> carriers[c].reliability]
           Larger(d, e) == \/ carriers[d].capacity > carriers[e].capacity
                           \/ /\ carriers[d].capacity = carriers[e].capacity
                              /\ carriers[d].reliability > carriers[e].reliability
<1>1. \A c \in S : cap[c] \in Int /\ rel[c] \in Int
  BY DEF CarrierRow
<1> PICK x \in S : \A y \in S : cap[x] >= cap[y]
  <2> HIDE DEF cap
  <2> QED
    BY <1>1, BestExists
<1> DEFINE T == {c \in S : cap[c] = cap[x]}
<1>2. IsFiniteSet(T) /\ T # {} /\ T \subseteq S
  BY FS_Subset
<1> PICK z \in T : \A y \in T : rel[z] >= rel[y]
  <2>1. \A c \in T : rel[c] \in Int
    BY <1>1
  <2> HIDE DEF T, rel
  <2> QED
    BY ONLY <1>2, <2>1, BestExists
<1>3. {e \in S : Larger(e, z)} = {}
  <2> SUFFICES ASSUME NEW e \in S, Larger(e, z)
               PROVE  FALSE
    OBVIOUS
  <2>1. cap[e] = carriers[e].capacity /\ cap[z] = carriers[z].capacity
        /\ rel[e] = carriers[e].reliability /\ rel[z] = carriers[z].reliability
    BY <1>2
  <2>2. cap[z] >= cap[e] /\ cap[e] \in Int /\ cap[z] \in Int /\ rel[e] \in Int /\ rel[z] \in Int
    BY <1>1, <1>2
  <2>3. cap[e] = cap[z] => rel[z] >= rel[e]
    <3>1. cap[e] = cap[z] => e \in T
      OBVIOUS
    <3> QED
      BY <3>1
  <2> HIDE DEF cap, rel
  <2> QED
    BY <2>1, <2>2, <2>3
<1>4. z \in Largest(S)
  <2>1. Cardinality({e \in S : Larger(e, z)}) < 3
    BY <1>3, FS_EmptySet
  <2> QED
    BY <1>2, <2>1 DEF Largest
<1> QED
  BY <1>4

\* A shipment whose carrier is recalled is advised another one, as long as one
\* that can take it is in service.
LEMMA AnotherCarrier ==
    ASSUME Inv, KeptRows, NEW c, CarrierDown(c), NEW cold \in BOOLEAN, NEW required \in Nat,
           Able(c, cold) # {}
    PROVE  CarrierAdvice(c, cold, required) # {}
<1> DEFINE able == Able(c, cold)
           choice == CarrierChoice(c, cold, required)
           score == [d \in choice |-> CarrierScore(d)]
<1>1. able \subseteq DOMAIN carriers /\ IsFiniteSet(able)
  <2>1. DOMAIN carriers \subseteq DOMAIN SeedCarriers /\ IsFiniteSet(DOMAIN SeedCarriers)
    BY ScenarioAssumption DEF KeptRows
  <2>2. able \subseteq DOMAIN carriers
    BY DEF Able
  <2> QED
    BY <2>1, <2>2, FS_Subset
<1>2. \A d \in able : carriers[d] \in CarrierRow
  BY <1>1 DEF Inv, Typed
<1> HIDE DEF able
<1>3. choice \subseteq able /\ choice # {}
  <2>1. Largest(able) # {}
    BY <1>1, <1>2, LargestExists DEF able
  <2> QED
    BY <2>1 DEF CarrierChoice, Largest, able
<1>4. IsFiniteSet(choice)
  BY <1>1, <1>3, FS_Subset
<1>5. \A d \in choice : score[d] \in Int
  BY <1>2, <1>3 DEF CarrierScore, CarrierRow
<1> HIDE DEF choice
<1> PICK d \in choice : \A e \in choice : score[d] >= score[e]
  <2> HIDE DEF score
  <2> QED
    BY <1>3, <1>4, <1>5, BestExists
<1>6. \A e \in choice : CarrierScore(d) >= CarrierScore(e)
  OBVIOUS
<1>7. d \in CarrierAdvice(c, cold, required)
  BY <1>6 DEF CarrierAdvice, CarrierDown, choice
<1> QED
  BY <1>7

\* Some carrier is in service.
InService == \E d \in DOMAIN carriers : ~carriers[d].down

\* Whom no recommendation is about is on a disrupted route from which no other is
\* left.
LEMMA NotAdvised ==
    ASSUME Inv, KeptRows, RowsTyped, InService,
           NEW s \in HighRisks, s \notin {a.target : a \in GenerateAll}
    PROVE  RouteAdvice(s) = {} /\ Naming(shipments[s].route) # {}
<1> DEFINE row == shipments[s]
           targets == {a.target : a \in GenerateAll}
<1>1. s \in DOMAIN shipments /\ row \in ShipmentRow /\ s \in Affected /\ ImpactScore(s) >= 50
  BY DEF HighRisks, Affected, RowsTyped
<1>2. Raw(s) \in Nat
  BY <1>1, RawIsNumber
<1>3. ImpactScore(s) = IF Raw(s) > 100 THEN 100 ELSE Raw(s)
  BY ScoreIs
<1>4. Raw(s) >= 50 /\ s \in Urgent
  BY <1>1, <1>2, <1>3 DEF Urgent
<1>5. RouteAdvice(s) = {}
  <2>1. RouteAdvice(s) # {} =>
            Recommendation("REROUTE_SHIPMENT", s, Grade(ImpactScore(s), "MEDIUM")) \in GenerateAll
    BY <1>4 DEF GenerateAll, Reroutes
  <2> QED
    BY <2>1 DEF Recommendation
<1>6. row.priority # "CRITICAL" /\ ~row.cold
  <2>1. row.priority = "CRITICAL" \/ row.cold =>
            Recommendation("PRIORITISE_SHIPMENT", s, "HIGH") \in GenerateAll
    BY <1>4 DEF GenerateAll, Priorities
  <2> QED
    BY <2>1 DEF Recommendation
<1>7. ~CarrierDown(row.carrier)
  <2> SUFFICES ASSUME CarrierDown(row.carrier)
               PROVE  FALSE
    OBVIOUS
  <2>1. row.cold \in BOOLEAN /\ row.cold = FALSE
    BY <1>1, <1>6 DEF ShipmentRow
  <2>2. Able(row.carrier, row.cold) # {}
    BY <2>1 DEF Able, InService, CarrierDown
  <2>3. CarrierAdvice(row.carrier, row.cold, 5000) # {}
    <3>1. 5000 \in Nat
      OBVIOUS
    <3> QED
      BY <2>1, <2>2, <3>1, AnotherCarrier
  <2>4. Recommendation("CHANGE_CARRIER", s, Grade(ImpactScore(s), "HIGH")) \in GenerateAll
    BY <1>4, <2>3 DEF GenerateAll, CarrierChanges
  <2> QED
    BY <2>4 DEF Recommendation
<1>8. Naming(row.route) # {}
  <2> SUFFICES ASSUME Naming(row.route) = {}
               PROVE  FALSE
    OBVIOUS
  <2>1. Cardinality(Naming(row.route)) = 0
    BY FS_EmptySet
  <2>2. Points(20, CarrierDown(row.carrier)) = 0 /\ Points(10, row.cold) = 0
    BY <1>6, <1>7 DEF Points
  <2>3. row.delay \in Nat
    BY <1>1 DEF ShipmentRow
  <2> PICK a \in 0 .. 20 : a = DelayPoints(row.delay)
    BY <2>3 DEF DelayPoints
  <2> PICK b \in 0 .. 10 : b = PriorityPoints(row.priority)
    BY <1>6 DEF PriorityPoints
  <2> PICK c \in 0 .. 5 : c = Points(5, row.status = "DISRUPTED")
    BY DEF Points
  <2>4. Raw(s) = 0 + 30 * 0 + a + b + 0 + c
    BY <2>1, <2>2 DEF Raw
  <2> QED
    BY <1>4, <2>4
<1> QED
  BY <1>5, <1>8

LEMMA RowsKept == Spec => []RowsTyped
<1>1. WorseInv => RowsTyped
  BY DEF WorseInv
<1> QED
  BY <1>1, InitWorse, WorseStep, Invariant, PTL DEF Spec

\* As long as a carrier is in service, every high risk is advised on or has no
\* way out.
THEOREM AdvisedInService == Spec => [](InService => HighRisksAreAdvised)
<1>1. Inv /\ KeptRows /\ RowsTyped => (InService => HighRisksAreAdvised)
  BY NotAdvised DEF HighRisksAreAdvised
<1> QED
  BY <1>1, Kept, RowsKept, Invariant, PTL

\* And so it is when callers leave alone one of the carriers that were seeded in
\* service.
THEOREM Advised ==
    ASSUME \E d \in DOMAIN SeedCarriers \ CarrierTargets : ~SeedCarriers[d].down
    PROVE  Spec => []HighRisksAreAdvised
<1>1. KeptRows /\ Whole => InService
  BY DEF KeptRows, InService
<1>2. KeptRows /\ (InService => HighRisksAreAdvised) => HighRisksAreAdvised
  BY <1>1 DEF HighRisksAreAdvised
<1> QED
  BY <1>2, Kept, AdvisedInService, PTL

-----------------------------------------------------------------------------
(* The hours of delay.  Between the entry of an event and its last statement *)
(* its shipments are owed the hours that the list of disruptions has already. *)

\* A job that enters an event does so first, and delays its shipments last.
EventShape ==
    \A i \in 1..Len(job) :
        /\ job[i].op = "enter" => i = 1 /\ job[Len(job)] = Statement("delay", job[1].on)
        /\ job[i].op = "delay" => i = Len(job)

\* The event that has been entered, and whose shipments are still to be delayed.
Pending(x) ==
    job # <<>> /\ job[1].op # "enter" /\ job[Len(job)] = Statement("delay", x)

\* The hours that are still to be added to s.
Owed(s, x) ==
    IF Pending(x) /\ shipments[s].route \in Range(x.routes) /\ shipments[s].status # "DELIVERED"
    THEN x.hours ELSE 0

OwedAll(s) == Owed(s, Weather) + Owed(s, RoadClosure) + Owed(s, PortStrike)

\* The disruptions after the seeded ones are those of events.
Listed ==
    /\ Len(SeedDisruptions) <= Len(disruptions)
    /\ \A i \in Simulated : \E x \in TheEvents : disruptions[i].routes = Range(x.routes)

\* The hours of a shipment, with those it is owed.
Settled(s) ==
    /\ shipments[s].delay + OwedAll(s) <= SeededDelay(s) + Lag(s)
    /\ failed = "nothing" /\ shipments[s].status # "DELIVERED" =>
           shipments[s].delay + OwedAll(s) = SeededDelay(s) + Lag(s)

DelayInv ==
    /\ EventShape
    /\ Whole => /\ DOMAIN SeedShipments \subseteq DOMAIN shipments
                /\ Listed
                /\ \A s \in DOMAIN shipments : Settled(s)

\* The disruptions of event x among the simulated ones.
Times(x) == {i \in Simulated : disruptions[i].routes = Range(x.routes)}

\* The routes of the events are disjoint.
LEMMA EventsApart ==
    /\ Range(Weather.routes) = {"R05", "R13"} /\ Weather.hours = 18
    /\ Range(RoadClosure.routes) = {"R06"} /\ RoadClosure.hours = 6
    /\ Range(PortStrike.routes) = {"R09", "R14"} /\ PortStrike.hours = 48
    /\ \A x, y \in TheEvents : x # y => Range(x.routes) # Range(y.routes)
<1>1. ASSUME NEW p, NEW q
      PROVE  Range(<<p, q>>) = {p, q} /\ Range(<<p>>) = {p}
  <2>1. DOMAIN <<p, q>> = 1..2 /\ DOMAIN <<p>> = 1..1
    OBVIOUS
  <2> QED
    BY <2>1 DEF Range
<1>2. /\ Range(Weather.routes) = {"R05", "R13"} /\ Weather.hours = 18
      /\ Range(RoadClosure.routes) = {"R06"} /\ RoadClosure.hours = 6
      /\ Range(PortStrike.routes) = {"R09", "R14"} /\ PortStrike.hours = 48
  BY <1>1 DEF Weather, RoadClosure, PortStrike
<1>3. /\ "R06" \in {"R06"} /\ "R06" \notin {"R05", "R13"} /\ "R06" \notin {"R09", "R14"}
      /\ "R09" \in {"R09", "R14"} /\ "R09" \notin {"R05", "R13"}
  OBVIOUS
<1>4. /\ Range(Weather.routes) # Range(RoadClosure.routes)
      /\ Range(PortStrike.routes) # Range(RoadClosure.routes)
      /\ Range(Weather.routes) # Range(PortStrike.routes)
  BY <1>2, <1>3
<1> QED
  BY <1>2, <1>4 DEF TheEvents

LEMMA TimesFinite ==
    Inv => \A x : IsFiniteSet(Times(x)) /\ Cardinality(Times(x)) \in Nat
<1> SUFFICES ASSUME Inv, NEW x
             PROVE  IsFiniteSet(Times(x)) /\ Cardinality(Times(x)) \in Nat
  OBVIOUS
<1>1. Len(disruptions) \in Nat /\ Len(SeedDisruptions) \in Nat
  BY AllOpen, SeedTyped, LenProperties
<1>2. IsFiniteSet(Simulated)
  <2>1. Len(SeedDisruptions) + 1 \in Int /\ Len(disruptions) \in Int
    BY <1>1
  <2> QED
    BY ONLY <2>1, FS_Interval DEF Simulated
<1>3. Times(x) \subseteq Simulated
  BY DEF Times
<1>4. IsFiniteSet(Times(x))
  BY ONLY <1>2, <1>3, FS_Subset
<1> QED
  BY ONLY <1>4, FS_CardinalityType

\* Hours are numbers.
LEMMA Amounts ==
    Inv /\ RowsTyped => \A s \in DOMAIN shipments :
        /\ shipments[s].delay \in Nat /\ SeededDelay(s) \in Nat
        /\ \A x \in TheEvents : x.hours \in Nat /\ Added(s, x) \in Nat /\ Owed(s, x) \in Nat
<1> SUFFICES ASSUME Inv, RowsTyped, NEW s \in DOMAIN shipments
             PROVE  /\ shipments[s].delay \in Nat /\ SeededDelay(s) \in Nat
                    /\ \A x \in TheEvents : /\ x.hours \in Nat
                                            /\ Added(s, x) \in Nat /\ Owed(s, x) \in Nat
  OBVIOUS
<1>1. shipments[s].delay \in Nat
  BY DEF RowsTyped, ShipmentRow
<1>2. SeededDelay(s) \in Nat
  <2>1. s \in DOMAIN SeedShipments \cup DOMAIN Surge
    BY DEF Inv, Typed
  <2> QED
    BY <2>1, ScenarioAssumption DEF SeededDelay, ShipmentRow
<1>3. ASSUME NEW x \in TheEvents
      PROVE  x.hours \in Nat /\ Added(s, x) \in Nat /\ Owed(s, x) \in Nat
  <2>1. x.hours \in Nat
    BY EventsApart DEF TheEvents
  <2>2. Cardinality(Times(x)) \in Nat
    BY TimesFinite
  <2>3. x.hours * Cardinality(Times(x)) \in Nat
    BY ONLY <2>1, <2>2
  <2>4. Added(s, x) \in Nat
    BY <2>3 DEF Added, Times
  <2> QED
    BY <2>1, <2>4 DEF Owed
<1> QED
  BY <1>1, <1>2, <1>3

LEMMA AmountsPrimed ==
    Inv' /\ RowsTyped' => (\A s \in DOMAIN shipments :
        /\ shipments[s].delay \in Nat /\ SeededDelay(s) \in Nat
        /\ \A x \in TheEvents : x.hours \in Nat /\ Added(s, x) \in Nat /\ Owed(s, x) \in Nat)'
BY Amounts, PTL

\* A shipment stays settled when it is not moved to, from or between the accounts:
\* what is still owed, what has been added, and what the row says.
LEMMA StaysSettled ==
    ASSUME Inv, Inv', RowsTyped, RowsTyped', NEW s \in DOMAIN shipments, s \in DOMAIN shipments',
           Settled(s), failed' = failed,
           shipments'[s].status = "DELIVERED" <=> shipments[s].status = "DELIVERED",
           shipments'[s].delay = shipments[s].delay,
           \A x \in TheEvents : Added(s, x)' = Added(s, x) /\ Owed(s, x)' = Owed(s, x)
    PROVE  Settled(s)'
<1>1. Lag(s)' = Lag(s) /\ OwedAll(s)' = OwedAll(s)
  BY DEF Lag, OwedAll, TheEvents
<1>2. Settled(s)' <=>
          /\ shipments[s].delay + OwedAll(s) <= SeededDelay(s) + Lag(s)
          /\ failed = "nothing" /\ shipments[s].status # "DELIVERED" =>
                 shipments[s].delay + OwedAll(s) = SeededDelay(s) + Lag(s)
  BY <1>1 DEF Settled, SeededDelay
<1> QED
  BY <1>2 DEF Settled

\* Nothing is added when the disruptions stay, ...
LEMMA AddedStays ==
    ASSUME NEW s, shipments'[s].route = shipments[s].route, UNCHANGED disruptions, NEW x
    PROVE  Added(s, x)' = Added(s, x)
BY DEF Added, Simulated

\* ... and nothing is owed without a job.
LEMMA NothingOwed ==
    job = <<>> => \A s, x : Owed(s, x) = 0
BY DEF Owed, Pending

LEMMA NothingOwedPrimed ==
    (job = <<>> => \A s, x : Owed(s, x) = 0)'
BY NothingOwed, PTL

LEMMA OwedStays ==
    ASSUME NEW s, NEW x, shipments'[s].route = shipments[s].route,
           shipments'[s].status = "DELIVERED" <=> shipments[s].status = "DELIVERED",
           Pending(x)' <=> Pending(x)
    PROVE  Owed(s, x)' = Owed(s, x)
BY DEF Owed

\* The shape of the job that is left.
LEMMA ShapeStays ==
    ASSUME Inv, EventShape, job # <<>>, Done
    PROVE  /\ EventShape'
           /\ \A i \in 1..Len(job') : job'[i].op # "enter"
           /\ Head(job).op \notin {"enter", "delay"} => \A x : Pending(x)' <=> Pending(x)
<1>1. /\ Head(job) = job[1] /\ Len(job) \in Nat \ {0} /\ Len(job') = Len(job) - 1
      /\ \A i \in 1..Len(job') : job'[i] = job[i + 1]
      /\ job' = <<>> <=> Len(job) = 1
  BY RestOK, TailOK DEF Inv, Done
<1> PICK n \in Nat \ {0} : n = Len(job)
  BY <1>1
<1>2. ASSUME NEW i \in 1..n - 1
      PROVE  job'[i].op # "enter" /\ (job'[i].op = "delay" => i = n - 1)
  <2>1. i + 1 \in 1..n /\ job'[i] = job[i + 1]
    BY <1>1
  <2> QED
    BY <2>1 DEF EventShape
<1>3. EventShape'
  BY <1>1, <1>2 DEF EventShape
<1>4. ASSUME Head(job).op \notin {"enter", "delay"}, NEW x
      PROVE  Pending(x)' <=> Pending(x)
  <2>1. CASE n = 1
    <3>1. job' = <<>>
      BY <1>1, <2>1
    <3>2. ~Pending(x)
      BY <1>1, <1>4, <2>1 DEF Pending, Statement
    <3> QED
      BY <3>1, <3>2 DEF Pending
  <2>2. CASE n # 1
    <3>1. n - 1 \in 1..n - 1 /\ 1 \in 1..n - 1
      BY <2>2
    <3>2. job'[n - 1] = job[n] /\ job'[1].op # "enter" /\ job' # <<>>
      BY <1>1, <1>2, <2>2, <3>1
    <3> QED
      BY <1>1, <1>4, <3>2 DEF Pending
  <2> QED
    BY <2>1, <2>2
<1> QED
  BY <1>1, <1>2, <1>3, <1>4

\* The job of an event begins with its entry and ends with its delay; no other job
\* has either.
LEMMA ShapeBegins ==
    ASSUME Inv, Begun
    PROVE  EventShape' /\ \A x : ~Pending(x)'
<1>1. CASE Reset
  <2>1. job' = ResetJob /\ \A i \in 1..Len(job') : job'[i].op \notin {"enter", "delay"}
    BY <1>1, ResetJobOK DEF Reset, Begin, ResetOps
  <2>2. Len(job') = 15
    BY <2>1, ResetJobIs
  <2>3. Len(job') \in 1..Len(job')
    BY <2>2
  <2>4. \A x : job'[Len(job')] # Statement("delay", x)
    BY <2>1, <2>3 DEF Statement
  <2> QED
    BY <2>1, <2>4 DEF EventShape, Pending
<1>2. CASE ApplyEvent
  <2> PICK x \in TheEvents : job' = EventJob(x)
    BY <1>2 DEF ApplyEvent, BeginScenario, Begin, TheEvents
  <2> PICK n \in {1, 2} : n = Len(x.routes)
    BY EventsTyped
  <2> PICK j : j = job'
    OBVIOUS
  <2>1. /\ Len(j) = n + 2
        /\ j[1] = Statement("enter", x) /\ j[n + 2] = Statement("delay", x)
        /\ \A i \in 1..n : j[i + 1] = Statement("close", x.routes[i])
    BY EventJobIs
  <2>2. \A i \in 1..n + 2 : i = 1 \/ i = n + 2 \/ (i - 1 \in 1..n /\ (i - 1) + 1 = i)
    OBVIOUS
  <2>3. ASSUME NEW i \in 1..n + 2, i # 1, i # n + 2
        PROVE  j[i].op = "close"
    <3>1. i - 1 \in 1..n /\ (i - 1) + 1 = i
      BY <2>2, <2>3
    <3>2. j[(i - 1) + 1] = Statement("close", x.routes[i - 1])
      BY <2>1, <3>1
    <3> QED
      BY <3>1, <3>2 DEF Statement
  <2>4. j[1].op = "enter" /\ j[1].on = x /\ j[n + 2].op = "delay"
    BY <2>1 DEF Statement
  <2> QED
    BY <2>1, <2>3, <2>4 DEF EventShape, Pending
<1>3. CASE ApplyCarrierUnavailable
  <2> PICK c : job' = <<Statement("recall", c), Statement("risk", c)>>
    BY <1>3 DEF ApplyCarrierUnavailable, BeginScenario, Begin, RecallJob
  <2>1. Len(job') = 2 /\ job'[1].op = "recall" /\ job'[2].op = "risk"
    BY DEF Statement
  <2>2. \A x : job'[2] # Statement("delay", x)
    BY <2>1 DEF Statement
  <2> QED
    BY <2>1, <2>2 DEF EventShape, Pending
<1>4. CASE ApplyFleetUnavailable \/ ApplyDemandIncrease \/ Redeploy
  <2> PICK z \in StatementSet : job' = <<z>> /\ z.op \in {"ground", "surge", "move"}
    BY <1>4 DEF ApplyFleetUnavailable, ApplyDemandIncrease, Redeploy, BeginScenario, Begin,
                GroundJob, SurgeJob, MoveJob, StatementSet, Statement
  <2>1. Len(job') = 1 /\ job'[1] = z
    OBVIOUS
  <2>2. \A x : z # Statement("delay", x)
    BY DEF Statement
  <2> QED
    BY <2>1, <2>2 DEF EventShape, Pending
<1> QED
  BY <1>1, <1>2, <1>3, <1>4 DEF Begun

LEMMA ShapeStep == Inv /\ EventShape /\ [Next]_vars => EventShape'
<1> SUFFICES ASSUME Inv, EventShape, [Next]_vars
             PROVE  EventShape'
  OBVIOUS
<1>1. CASE Executed
  <2>1. job # <<>> /\ Done
    BY <1>1 DEF Executed, Enter, Close, Delay, Recall, Risk, Ground, Move, AddSurge,
                ClearTable, SeedTable, Doing
  <2> QED
    BY <2>1, ShapeStays
<1>2. CASE Begun
  BY <1>2, ShapeBegins
<1>3. CASE StatementFails
  BY <1>3, NothingLeft DEF StatementFails, EventShape
<1>4. CASE UNCHANGED vars
  BY <1>4 DEF vars, EventShape
<1> QED
  BY <1>1, <1>2, <1>3, <1>4 DEF Next

\* Once the event is entered its delay is pending, and no other.
LEMMA EntryPends ==
    ASSUME Inv, EventShape, job # <<>>, Done, Head(job).op = "enter", NEW x, Head(job).on = x
    PROVE  \A y : ~Pending(y) /\ (Pending(y)' <=> y = x)
<1>1. /\ Head(job) = job[1] /\ Len(job) \in Nat \ {0} /\ Len(job') = Len(job) - 1
      /\ \A i \in 1..Len(job') : job'[i] = job[i + 1]
      /\ job' = <<>> <=> Len(job) = 1
  BY RestOK, TailOK DEF Inv, Done
<1> PICK n \in Nat \ {0} : n = Len(job)
  BY <1>1
<1>2. 1 \in 1..n /\ job[1].op = "enter" /\ job[1].on = x
  BY <1>1
<1>3. job[n] = Statement("delay", x)
  BY <1>2 DEF EventShape
<1>4. n # 1
  BY <1>2, <1>3 DEF Statement
<1>5. n - 1 \in 1..n - 1 /\ 1 \in 1..n - 1 /\ (n - 1) + 1 = n
  BY <1>4
<1>6. job'[n - 1] = Statement("delay", x) /\ Len(job') = n - 1
  BY <1>1, <1>3, <1>5
<1>7. job'[1].op # "enter" /\ job' # <<>>
  BY <1>1, <1>4, <1>5, ShapeStays
<1> QED
  BY <1>2, <1>6, <1>7 DEF Pending, Statement

\* The entry is put on the list.
LEMMA EnterLists ==
    ASSUME Inv, Listed, Enter
    PROVE  Listed'
<1> PICK x \in TheEvents : x = Head(job).on
  BY RestOK, StatementsTyped DEF Enter, Doing
<1> DEFINE row == [routes |-> Range(x.routes), severity |-> x.severity, status |-> "ACTIVE"]
<1>1. /\ job # <<>> /\ Done /\ Head(job).op = "enter" /\ Head(job) = job[1]
      /\ disruptions' = Append(disruptions, row)
      /\ shipments' = shipments /\ failed' = failed
  BY RestOK DEF Enter, Doing, On
<1> PICK n \in Nat : n = Len(disruptions)
  BY AllOpen
<1>2. /\ Len(disruptions') = n + 1 /\ disruptions'[n + 1] = row
      /\ \A i \in 1..n : disruptions'[i] = disruptions[i]
  BY <1>1, AppendProperties DEF Inv, Typed
<1> PICK m \in Nat : m = Len(SeedDisruptions)
  BY SeedTyped, LenProperties
<1>3. /\ m <= n /\ Simulated = m + 1 .. n /\ Simulated' = m + 1 .. n + 1
      /\ n + 1 \notin Simulated /\ Simulated' = Simulated \cup {n + 1}
      /\ \A i \in Simulated : i \in 1..n
  BY <1>2 DEF Listed, Simulated
<1>4. disruptions'[n + 1].routes = Range(x.routes)
  BY <1>2
<1> QED
  BY <1>2, <1>3, <1>4 DEF Listed

\* One more occurrence costs its hours once more.
LEMMA OnceMore ==
    ASSUME NEW h \in Nat, NEW k \in Nat
    PROVE  h * (k + 1) = h * k + h
OBVIOUS

\* The event is entered: what its shipments are owed is what has been added.
LEMMA EnterSettles ==
    ASSUME Inv, Inv', RowsTyped, RowsTyped', EventShape, Listed, Enter,
           NEW s \in DOMAIN shipments, Settled(s)
    PROVE  s \in DOMAIN shipments' /\ Settled(s)'
<1> PICK x \in TheEvents : x = Head(job).on
  BY RestOK, StatementsTyped DEF Enter, Doing
<1> DEFINE row == [routes |-> Range(x.routes), severity |-> x.severity, status |-> "ACTIVE"]
<1>1. /\ job # <<>> /\ Done /\ Head(job).op = "enter" /\ Head(job) = job[1]
      /\ disruptions' = Append(disruptions, row)
      /\ shipments' = shipments /\ failed' = failed
  BY RestOK DEF Enter, Doing, On
<1> PICK n \in Nat : n = Len(disruptions)
  BY AllOpen
<1>2. /\ Len(disruptions') = n + 1 /\ disruptions'[n + 1] = row
      /\ \A i \in 1..n : disruptions'[i] = disruptions[i]
  BY <1>1, AppendProperties DEF Inv, Typed
<1> PICK m \in Nat : m = Len(SeedDisruptions)
  BY SeedTyped, LenProperties
<1>3. /\ m <= n /\ Simulated = m + 1 .. n /\ Simulated' = m + 1 .. n + 1
      /\ n + 1 \notin Simulated /\ Simulated' = Simulated \cup {n + 1}
      /\ \A i \in Simulated : i \in 1..n
  BY <1>2 DEF Listed, Simulated
<1>4. disruptions'[n + 1].routes = Range(x.routes)
  BY <1>2
<1>6. ASSUME NEW y \in TheEvents
      PROVE  /\ y = x => Cardinality(Times(y)') = Cardinality(Times(y)) + 1
             /\ y # x => Cardinality(Times(y)') = Cardinality(Times(y))
             /\ Cardinality(Times(y)) \in Nat
  <2>1. Times(y)' = {i \in Simulated \cup {n + 1} : disruptions'[i].routes = Range(y.routes)}
    BY <1>3 DEF Times
  <2>2. y = x => Times(y)' = Times(y) \cup {n + 1}
    BY <1>2, <1>3, <1>4, <2>1 DEF Times
  <2>3. y # x => Times(y)' = Times(y)
    <3>1. y # x => Range(y.routes) # Range(x.routes)
      BY EventsApart
    <3> QED
      BY <1>2, <1>3, <1>4, <2>1, <3>1 DEF Times
  <2>4. IsFiniteSet(Times(y)) /\ Cardinality(Times(y)) \in Nat /\ n + 1 \notin Times(y)
    BY <1>3, TimesFinite DEF Times
  <2>5. Cardinality(Times(y) \cup {n + 1}) = Cardinality(Times(y)) + 1
    BY ONLY <2>4, FS_AddElement
  <2> QED
    BY <2>2, <2>3, <2>4, <2>5
<1>7. \A y : ~Pending(y) /\ (Pending(y)' <=> y = x)
  BY <1>1, EntryPends
<1> DEFINE hit(y) == shipments[s].route \in Range(y.routes)
<1>9. ASSUME NEW y \in TheEvents
      PROVE  /\ Owed(s, y) = 0
             /\ Owed(s, y)' = IF y = x /\ hit(y) /\ shipments[s].status # "DELIVERED" THEN y.hours ELSE 0
             /\ Added(s, y)' = IF y = x /\ hit(y) THEN Added(s, y) + y.hours ELSE Added(s, y)
  <2>1. Owed(s, y) = 0
    BY <1>7 DEF Owed
  <2>2. Owed(s, y)' = IF y = x /\ hit(y) /\ shipments[s].status # "DELIVERED" THEN y.hours ELSE 0
    BY <1>1, <1>7 DEF Owed
  <2>3. Added(s, y) = IF hit(y) THEN y.hours * Cardinality(Times(y)) ELSE 0
    BY DEF Added, Times
  <2>4. Added(s, y)' = IF hit(y) THEN y.hours * Cardinality(Times(y)') ELSE 0
    BY <1>1 DEF Added, Times
  <2> PICK k \in Nat, h \in Nat : k = Cardinality(Times(y)) /\ h = y.hours
    BY <1>6, Amounts
  <2>5. h * (k + 1) = h * k + h
    BY OnceMore
  <2>6. Added(s, y)' = IF y = x /\ hit(y) THEN Added(s, y) + y.hours ELSE Added(s, y)
    BY <1>6, <2>3, <2>4, <2>5
  <2> QED
    BY <2>1, <2>2, <2>6
<1> HIDE DEF hit
<1>10. Settled(s)'
  <2>1. /\ shipments[s].delay \in Nat /\ SeededDelay(s) \in Nat
        /\ \A y \in TheEvents : y.hours \in Nat /\ Added(s, y) \in Nat
    BY Amounts
  <2>2. Weather \in TheEvents /\ RoadClosure \in TheEvents /\ PortStrike \in TheEvents
        /\ Weather # RoadClosure /\ RoadClosure # PortStrike /\ Weather # PortStrike
        /\ x \in {Weather, RoadClosure, PortStrike}
    BY EventsApart DEF TheEvents
  <2> PICK a \in Nat, b \in Nat, c \in Nat :
          a = Added(s, Weather) /\ b = Added(s, RoadClosure) /\ c = Added(s, PortStrike)
    BY <2>1, <2>2
  <2> PICK h \in Nat : h = IF hit(x) THEN x.hours ELSE 0
    BY <2>1
  <2> PICK o \in Nat : o = IF hit(x) /\ shipments[s].status # "DELIVERED" THEN x.hours ELSE 0
    BY <2>1
  <2>3. OwedAll(s) = 0 /\ Lag(s) = a + b + c
    BY <1>9, <2>2 DEF OwedAll, Lag
  <2>4. ASSUME NEW y \in TheEvents
        PROVE  /\ Owed(s, y)' = IF y = x THEN o ELSE 0
               /\ Added(s, y)' = IF y = x THEN Added(s, y) + h ELSE Added(s, y)
    <3>1. Added(s, y) \in Nat
      BY <2>1
    <3> QED
      BY <1>9, <3>1
  <2>5. OwedAll(s)' = o /\ Lag(s)' = a + b + c + h
    <3>1. /\ OwedAll(s)' = Owed(s, Weather)' + Owed(s, RoadClosure)' + Owed(s, PortStrike)'
          /\ Lag(s)' = Added(s, Weather)' + Added(s, RoadClosure)' + Added(s, PortStrike)'
      BY DEF OwedAll, Lag
    <3>2. x = Weather \/ x = RoadClosure \/ x = PortStrike
      BY <2>2
    <3>3. /\ Owed(s, Weather)' = IF x = Weather THEN o ELSE 0
          /\ Owed(s, RoadClosure)' = IF x = RoadClosure THEN o ELSE 0
          /\ Owed(s, PortStrike)' = IF x = PortStrike THEN o ELSE 0
      BY <2>2, <2>4
    <3>4. /\ Added(s, Weather)' = IF x = Weather THEN a + h ELSE a
          /\ Added(s, RoadClosure)' = IF x = RoadClosure THEN b + h ELSE b
          /\ Added(s, PortStrike)' = IF x = PortStrike THEN c + h ELSE c
      BY <2>2, <2>4
    <3>5. Weather # RoadClosure /\ RoadClosure # PortStrike /\ Weather # PortStrike
      BY <2>2
    <3> QED
      BY ONLY <3>1, <3>2, <3>3, <3>4, <3>5
  <2>6. o <= h /\ (shipments[s].status # "DELIVERED" => o = h)
    BY <2>1
  <2> PICK d \in Nat, e \in Nat : d = shipments[s].delay /\ e = SeededDelay(s)
    BY <2>1
  <2> PICK even : even = (failed = "nothing" /\ shipments[s].status # "DELIVERED")
    OBVIOUS
  <2>7. /\ d + 0 <= e + (a + b + c)
        /\ even => d + 0 = e + (a + b + c)
    BY <2>3 DEF Settled
  <2>8. even => o = h
    BY <2>6
  <2>9. /\ d + o <= e + (a + b + c + h)
        /\ even => d + o = e + (a + b + c + h)
    BY ONLY <2>6, <2>7, <2>8
  <2>10. SeededDelay(s)' = SeededDelay(s)
    BY DEF SeededDelay
  <2>11. shipments'[s].delay = d /\ (failed' = "nothing" /\ shipments'[s].status # "DELIVERED" => even)
    BY <1>1
  <2> QED
    BY <2>5, <2>9, <2>10, <2>11 DEF Settled
<1> QED
  BY <1>1, <1>10

\* The shipments of the event are delayed: what they were owed is in their rows.
LEMMA DelaySettles ==
    ASSUME Inv, Inv', RowsTyped, RowsTyped', EventShape, Delay,
           NEW s \in DOMAIN shipments, Settled(s)
    PROVE  s \in DOMAIN shipments' /\ Settled(s)'
<1> PICK x \in TheEvents : x = Head(job).on
  <2>1. Head(job) \in StatementSet /\ Head(job).op = "delay"
    BY RestOK DEF Delay, Doing
  <2> QED
    BY <2>1 DEF StatementSet, Statement
<1> DEFINE hit == shipments[s].route \in Range(x.routes) /\ shipments[s].status # "DELIVERED"
<1>1. /\ job # <<>> /\ Done /\ Head(job) = job[1] /\ job[1].op = "delay" /\ job[1].on = x
      /\ UNCHANGED <<disruptions, failed>> /\ DOMAIN shipments' = DOMAIN shipments
      /\ shipments'[s] = IF hit THEN Delayed(shipments[s]) ELSE shipments[s]
  BY RestOK DEF Delay, Doing, On
<1>2. Len(job) = 1 /\ job' = <<>>
  <2>1. 1 \in 1..Len(job)
    BY <1>1, RestOK
  <2>2. Len(job) = 1
    BY <1>1, <2>1 DEF EventShape
  <2> QED
    BY <1>1, <2>2, TailOK DEF Inv, Done
<1>3. job[1] = Statement("delay", x)
  BY <1>1, RestOK DEF StatementSet, Statement
<1>4. \A y : Pending(y) <=> y = x
  BY <1>1, <1>2, <1>3 DEF Pending, Statement
<1>5. \A y \in TheEvents : Owed(s, y) = (IF y = x /\ hit THEN y.hours ELSE 0) /\ Owed(s, y)' = 0
  BY <1>2, <1>4, NothingOwedPrimed DEF Owed
<1>6. shipments[s] \in ShipmentRow /\ x.status # "DELIVERED" /\ x.hours \in Nat
      /\ x.status \in {"DISRUPTED", "DELAYED"}
  BY EventsApart DEF RowsTyped, TheEvents, Weather, RoadClosure, PortStrike
<1>7. /\ shipments'[s].route = shipments[s].route
      /\ shipments'[s].delay = IF hit THEN shipments[s].delay + x.hours ELSE shipments[s].delay
      /\ shipments'[s].status = "DELIVERED" <=> shipments[s].status = "DELIVERED"
  <2>1. CASE hit
    <3>1. /\ Delayed(shipments[s]).route = shipments[s].route
          /\ Delayed(shipments[s]).delay = shipments[s].delay + x.hours
          /\ Delayed(shipments[s]).status = x.status
      BY <1>6 DEF Delayed, On, ShipmentRow
    <3> QED
      BY <1>1, <1>6, <2>1, <3>1
  <2>2. CASE ~hit
    BY <1>1, <2>2
  <2> QED
    BY <2>1, <2>2
<1>8. \A y \in TheEvents : Added(s, y)' = Added(s, y)
  BY <1>1, <1>7, AddedStays
<1> HIDE DEF hit
<1>9. Weather \in TheEvents /\ RoadClosure \in TheEvents /\ PortStrike \in TheEvents
      /\ Weather # RoadClosure /\ RoadClosure # PortStrike /\ Weather # PortStrike
      /\ x \in {Weather, RoadClosure, PortStrike}
  BY EventsApart DEF TheEvents
<1>10. Lag(s)' = Lag(s) /\ OwedAll(s)' = 0
  BY <1>5, <1>8, <1>9 DEF Lag, OwedAll
<1>11. OwedAll(s) = IF hit THEN x.hours ELSE 0
  <2>1. CASE x = Weather
    BY <1>5, <1>6, <1>9, <2>1 DEF OwedAll
  <2>2. CASE x = RoadClosure
    BY <1>5, <1>6, <1>9, <2>2 DEF OwedAll
  <2>3. CASE x = PortStrike
    BY <1>5, <1>6, <1>9, <2>3 DEF OwedAll
  <2> QED
    BY <1>9, <2>1, <2>2, <2>3
<1>12. shipments'[s].delay + OwedAll(s)' = shipments[s].delay + OwedAll(s)
  <2>1. shipments[s].delay \in Nat
    BY Amounts
  <2> QED
    BY <1>6, <1>7, <1>10, <1>11, <2>1
<1>13. SeededDelay(s)' = SeededDelay(s)
  BY DEF SeededDelay
<1>14. Settled(s)'
  BY <1>1, <1>7, <1>10, <1>12, <1>13 DEF Settled
<1> QED
  BY <1>1, <1>14

\* A row that demand_increase adds has been on no event's route.
LEMMA SurgeSettles ==
    ASSUME Inv, Inv', RowsTyped', DOMAIN SeedShipments \subseteq DOMAIN shipments, AddSurge,
           NEW s \in DOMAIN shipments' \ DOMAIN shipments
    PROVE  Settled(s)'
<1>1. s \in DOMAIN Surge /\ shipments'[s] = Surge[s] /\ s \notin DOMAIN SeedShipments
  BY DEF AddSurge
<1>2. \A x \in TheEvents : Added(s, x)' = 0 /\ Owed(s, x)' = 0
  BY <1>1, SurgeAssumption DEF TheEvents, Added, Owed
<1>3. Lag(s)' = 0 /\ OwedAll(s)' = 0
  BY <1>2 DEF Lag, OwedAll, TheEvents
<1>4. shipments'[s].delay = SeededDelay(s) /\ SeededDelay(s)' = SeededDelay(s)
      /\ SeededDelay(s) \in Nat
  BY <1>1, AmountsPrimed DEF SeededDelay
<1> QED
  BY <1>3, <1>4 DEF Settled

\* The other statements move no hours.
LEMMA OthersSettle ==
    ASSUME Inv, Inv', RowsTyped, RowsTyped', EventShape,
           Close \/ Recall \/ Risk \/ Ground \/ Move \/ AddSurge,
           NEW s \in DOMAIN shipments, Settled(s)
    PROVE  s \in DOMAIN shipments' /\ Settled(s)'
<1>1. /\ job # <<>> /\ Done /\ Head(job).op \notin {"enter", "delay"}
      /\ UNCHANGED <<disruptions, failed>>
  BY DEF Close, Recall, Risk, Ground, Move, AddSurge, Doing
<1>2. /\ s \in DOMAIN shipments'
      /\ shipments'[s].route = shipments[s].route
      /\ shipments'[s].delay = shipments[s].delay
      /\ shipments'[s].status = "DELIVERED" <=> shipments[s].status = "DELIVERED"
  <2>1. CASE Risk
    BY <2>1 DEF Risk, RowsTyped, ShipmentRow
  <2>2. CASE AddSurge
    BY <2>2 DEF AddSurge
  <2>3. CASE UNCHANGED shipments
    BY <2>3
  <2> QED
    BY <2>1, <2>2, <2>3 DEF Close, Recall, Ground, Move
<1>3. \A x : Pending(x)' <=> Pending(x)
  BY <1>1, ShapeStays
<1>4. \A x \in TheEvents : Added(s, x)' = Added(s, x) /\ Owed(s, x)' = Owed(s, x)
  BY <1>1, <1>2, <1>3, AddedStays, OwedStays
<1> QED
  BY <1>1, <1>2, <1>4, StaysSettled

\* A scenario that is cut short adds no more.
LEMMA FailureSettles ==
    ASSUME Inv, Inv', RowsTyped, RowsTyped', StatementFails, Whole,
           NEW s \in DOMAIN shipments, Settled(s)
    PROVE  s \in DOMAIN shipments' /\ Settled(s)'
<1>1. job' = <<>> /\ failed' = "scenario" /\ UNCHANGED <<disruptions, shipments>>
  BY DEF StatementFails, Whole, tables
<1>2. \A x \in TheEvents : Added(s, x)' = Added(s, x) /\ Owed(s, x)' = 0
  BY <1>1, AddedStays, NothingOwedPrimed
<1>3. /\ shipments[s].delay \in Nat /\ SeededDelay(s) \in Nat
      /\ \A x \in TheEvents : Added(s, x) \in Nat /\ Owed(s, x) \in Nat
  BY Amounts
<1>4. Lag(s)' = Lag(s) /\ OwedAll(s)' = 0 /\ Lag(s) \in Nat /\ OwedAll(s) \in Nat
  BY <1>2, <1>3 DEF Lag, OwedAll, TheEvents
<1>5. shipments[s].delay <= SeededDelay(s) + Lag(s)
  BY <1>3, <1>4 DEF Settled
<1>6. SeededDelay(s)' = SeededDelay(s)
  BY DEF SeededDelay
<1> QED
  BY <1>1, <1>3, <1>4, <1>5, <1>6 DEF Settled

\* The seeded tables owe nothing.
LEMMA SeededSettled ==
    Inv /\ RowsTyped /\ Seeded /\ job = <<>> =>
        /\ DOMAIN SeedShipments \subseteq DOMAIN shipments /\ Listed
        /\ \A s \in DOMAIN shipments : Settled(s)
<1> SUFFICES ASSUME Inv, RowsTyped, Seeded, job = <<>>
             PROVE  /\ DOMAIN SeedShipments \subseteq DOMAIN shipments /\ Listed
                    /\ \A s \in DOMAIN shipments : Settled(s)
  OBVIOUS
<1>1. Simulated = {} /\ Len(SeedDisruptions) <= Len(disruptions)
  <2>1. Len(SeedDisruptions) \in Nat
    BY SeedTyped, LenProperties
  <2> QED
    BY <2>1 DEF Simulated, Seeded
<1>2. ASSUME NEW s \in DOMAIN shipments
      PROVE  Settled(s)
  <2>1. Cardinality({}) = 0
    BY FS_EmptySet
  <2>2. ASSUME NEW x \in TheEvents
        PROVE  Added(s, x) = 0 /\ Owed(s, x) = 0
    <3>1. {i \in Simulated : disruptions[i].routes = Range(x.routes)} = {}
      BY <1>1
    <3>2. x.hours * 0 = 0
      BY Amounts
    <3> QED
      BY <2>1, <3>1, <3>2, NothingOwed DEF Added
  <2>3. Lag(s) = 0 /\ OwedAll(s) = 0
    BY <2>2 DEF Lag, OwedAll, TheEvents
  <2>4. shipments[s].delay = SeededDelay(s) /\ SeededDelay(s) \in Nat
    BY Amounts DEF Seeded, SeededDelay
  <2> QED
    BY <2>3, <2>4 DEF Settled
<1> QED
  BY <1>1, <1>2 DEF Seeded, Listed

LEMMA SeededSettledPrimed ==
    (Inv /\ RowsTyped /\ Seeded /\ job = <<>> =>
        /\ DOMAIN SeedShipments \subseteq DOMAIN shipments /\ Listed
        /\ \A s \in DOMAIN shipments : Settled(s))'
BY SeededSettled, PTL

LEMMA InitDelays == Inv /\ RowsTyped /\ Init => DelayInv
BY SeededSettled, NothingLeft DEF Init, DelayInv, EventShape

LEMMA StepDelays ==
    Inv /\ Inv' /\ RowsTyped /\ RowsTyped' /\ DelayInv /\ [Next]_vars => DelayInv'
<1> SUFFICES ASSUME Inv, Inv', RowsTyped, RowsTyped', DelayInv, [Next]_vars
             PROVE  DelayInv'
  OBVIOUS
<1>1. EventShape /\ EventShape'
  BY ShapeStep DEF DelayInv
<1>2. ASSUME Seeded', job' = <<>>
      PROVE  DelayInv'
  BY <1>1, <1>2, SeededSettledPrimed DEF DelayInv
<1>3. ASSUME Whole, Whole'
      PROVE  DelayInv'
  <2>1. /\ DOMAIN SeedShipments \subseteq DOMAIN shipments /\ Listed
        /\ \A s \in DOMAIN shipments : Settled(s)
    BY <1>3 DEF DelayInv
  <2>2. CASE Enter
    <3>1. shipments' = shipments
      BY <2>2 DEF Enter
    <3>3. Listed' /\ \A s \in DOMAIN shipments' : Settled(s)'
      BY <1>1, <2>1, <2>2, <3>1, EnterSettles, EnterLists
    <3> QED
      BY <1>1, <2>1, <3>1, <3>3 DEF DelayInv
  <2>3. CASE Delay
    <3>1. DOMAIN shipments' = DOMAIN shipments /\ UNCHANGED disruptions
      BY <2>3 DEF Delay
    <3>2. Listed'
      BY <2>1, <3>1 DEF Listed, Simulated
    <3>3. \A s \in DOMAIN shipments' : Settled(s)'
      BY <1>1, <2>1, <2>3, <3>1, DelaySettles
    <3> QED
      BY <1>1, <2>1, <3>1, <3>2, <3>3 DEF DelayInv
  <2>4. CASE Close \/ Recall \/ Risk \/ Ground \/ Move \/ AddSurge
    <3>1. UNCHANGED disruptions /\ DOMAIN shipments \subseteq DOMAIN shipments'
      BY <2>4 DEF Close, Recall, Risk, Ground, Move, AddSurge
    <3>2. Listed'
      BY <2>1, <3>1 DEF Listed, Simulated
    <3>3. \A s \in DOMAIN shipments : Settled(s)'
      BY <1>1, <2>1, <2>4, OthersSettle
    <3>4. ASSUME NEW s \in DOMAIN shipments' \ DOMAIN shipments
          PROVE  Settled(s)'
      <4>1. AddSurge
        BY <2>4 DEF Close, Recall, Risk, Ground, Move
      <4> QED
        BY <2>1, <4>1, SurgeSettles
    <3> QED
      BY <1>1, <2>1, <3>1, <3>2, <3>3, <3>4 DEF DelayInv
  <2>5. CASE StatementFails
    <3>1. UNCHANGED <<disruptions, shipments>>
      BY <2>5 DEF StatementFails, tables
    <3>2. Listed'
      BY <2>1, <3>1 DEF Listed, Simulated
    <3>3. \A s \in DOMAIN shipments' : Settled(s)'
      BY <1>3, <2>1, <2>5, <3>1, FailureSettles
    <3> QED
      BY <1>1, <2>1, <3>1, <3>2, <3>3 DEF DelayInv
  <2>6. CASE Begun \/ UNCHANGED vars
    <3>1. UNCHANGED <<disruptions, shipments, failed>>
      BY <2>6 DEF Begun, ApplyEvent, ApplyCarrierUnavailable, ApplyFleetUnavailable,
                  ApplyDemandIncrease, Redeploy, Reset, BeginScenario, Begin, tables, vars
    <3>2. Listed'
      BY <2>1, <3>1 DEF Listed, Simulated
    <3>3. \A x : Pending(x)' <=> Pending(x)
      <4>1. CASE Begun
        <5>1. \A x : ~Pending(x)'
          BY <4>1, ShapeBegins
        <5>2. job = <<>>
          BY <4>1 DEF Begun, ApplyEvent, ApplyCarrierUnavailable, ApplyFleetUnavailable,
                      ApplyDemandIncrease, Redeploy, Reset, BeginScenario, Begin
        <5> QED
          BY <5>1, <5>2 DEF Pending
      <4>2. CASE UNCHANGED vars
        BY <4>2 DEF vars, Pending
      <4> QED
        BY <2>6, <4>1, <4>2
    <3>4. ASSUME NEW s \in DOMAIN shipments
          PROVE  Settled(s)'
      <4>1. \A x \in TheEvents : Added(s, x)' = Added(s, x) /\ Owed(s, x)' = Owed(s, x)
        BY <3>1, <3>3, AddedStays, OwedStays
      <4> QED
        BY <2>1, <3>1, <4>1, StaysSettled
    <3> QED
      BY <1>1, <2>1, <3>1, <3>2, <3>4 DEF DelayInv
  <2> QED
    BY <1>3, <2>2, <2>3, <2>4, <2>5, <2>6, WholeStatements DEF Next, Executed
<1>4. CASE ~Whole'
  BY <1>1, <1>4 DEF DelayInv
<1> QED
  BY <1>2, <1>3, <1>4, WholeStays

LEMMA Delays == Spec => []DelayInv
BY InitInv, InitDelays, StepDelays, RowsKept, Invariant, PTL DEF Spec

\* The hours of delay are those of the events on the list, however events,
\* failures and resets are mixed.
THEOREM Explained == Spec => []DelaysExplained
<1>1. Inv /\ RowsTyped /\ DelayInv => DelaysExplained
  <2> SUFFICES ASSUME Inv, RowsTyped, DelayInv, Whole, NEW s \in DOMAIN shipments
               PROVE  /\ shipments[s].delay <= SeededDelay(s) + Lag(s)
                      /\ failed = "nothing" /\ job = <<>> /\ shipments[s].status # "DELIVERED" =>
                             shipments[s].delay = SeededDelay(s) + Lag(s)
    BY DEF DelaysExplained
  <2>1. Settled(s)
    BY DEF DelayInv
  <2>2. /\ shipments[s].delay \in Nat /\ SeededDelay(s) \in Nat
        /\ \A x \in TheEvents : Added(s, x) \in Nat /\ Owed(s, x) \in Nat
    BY Amounts
  <2>3. Lag(s) \in Nat /\ OwedAll(s) \in Nat
    BY <2>2 DEF Lag, OwedAll, TheEvents
  <2>4. job = <<>> => OwedAll(s) = 0
    BY NothingOwed DEF OwedAll
  <2> QED
    BY <2>1, <2>2, <2>3, <2>4 DEF Settled
<1> QED
  BY <1>1, Delays, RowsKept, Invariant, PTL
=============================================================================
