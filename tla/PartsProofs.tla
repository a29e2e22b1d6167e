------------------------------ MODULE PartsProofs ------------------------------
(***************************************************************************)
(* Proofs about the parts that MCParts puts beside the commands.  What     *)
(* timoni tells of the objects on a cluster is so, whatever objects,       *)
(* health checks and clusters there are, and however the objects change    *)
(* while they are read; and signing with cosign returns what cosign did.   *)
(***************************************************************************)
EXTENDS ObjectStatus, CosignIO, Integers, TLAPS

--------------------------------------------------------------------------------
(* The invariant. *)

EndsOnce(it) == \A i, j \in Ends(it) : i = j

(* A state that object o may be read in.                                     *)
Known(o, it) ==
    /\ it \in State
    /\ DOMAIN declared \subseteq DOMAIN it.says
    /\ GroupKind[o] = JobKind => EndsOnce(it)

Waits == {"waiting", "ready", "failed", "timeout"}

StatusTypes ==
    /\ command \in {"wait", "status", "bundle status"}
    /\ declared \in Declarations \cup {<< >>}
    /\ awaited \subseteq Objects
    /\ live \in [Objects -> State]
    /\ \A o \in Objects : Known(o, live[o])
    /\ read \in [Objects -> {Unread} \cup State \cup [phase : Phases]]
    /\ scope \in Scopes \cup {<< >>}
    /\ at \in Nat \ {0} /\ at <= Len(scope) + 1
    /\ queue \in Lists
    /\ failed \in BOOLEAN
    /\ told \in Waits \cup {"begins", "refused", "skipped", "error", "ok", "errors"}

(* A wait that goes on has seen no failure, and not all objects ready; one   *)
(* that has failed has for a Job the condition that ends it for good.        *)
BuiltinJob(o) == GroupKind[o] = JobKind /\ \A i \in DOMAIN declared : ~Applies(i, JobKind)

Unsettled ==
    /\ \E o \in awaited : ~IsReady(o, read[o])
    /\ \A o \in awaited : ~HasFailed(o, read[o])

WaitInv ==
    /\ told \in Waits => command = "wait" /\ ~Refused(declared)
    /\ command = "wait" =>
          \A o \in Objects : read[o] = Unread \/ (told # "begins" /\ Known(o, read[o]))
    /\ told \in {"waiting", "timeout"} => Unsettled
    /\ told = "ready"  => \A o \in awaited : IsReady(o, read[o])
    /\ told = "failed" => \E o \in awaited :
           HasFailed(o, read[o]) /\ (BuiltinJob(o) => Has(live[o], "Failed"))

(* The clusters before "at" have been listed, and their objects read but for *)
(* those of the queue; "failed" tells of the ones that were missed.          *)
Missed(c) ==
    \/ scope[c].instances = << >>
    \/ \E o \in Listed(scope[c].instances) \ Listed(queue) : ~Readable(read[o])

ListInv ==
    /\ command = "wait" => scope = << >>
    /\ told \in {"ok", "errors"} =>
          /\ command # "wait" /\ queue = << >> /\ at > Len(scope)
          /\ command = "bundle status" => (told = "ok" <=> ~failed)
    /\ Distinct(queue)
    /\ \A o \in Listed(queue) : \E c \in DOMAIN scope : c < at /\ o \in Listed(scope[c].instances)
    /\ failed <=> \E c \in DOMAIN scope : c < at /\ Missed(c)

StatusInv == StatusTypes /\ WaitInv /\ ListInv

--------------------------------------------------------------------------------
(* Sequences of instances. *)

LEMMA TailOf ==
    ASSUME NEW S, NEW s \in Seq(S), s # << >>
    PROVE  /\ Head(s) \in S /\ Head(s) = s[1] /\ 1 \in DOMAIN s
           /\ Tail(s) \in Seq(S)
           /\ \A j \in DOMAIN Tail(s) : j + 1 \in DOMAIN s /\ Tail(s)[j] = s[j + 1]
           /\ \A j \in DOMAIN s : j # 1 => j - 1 \in DOMAIN Tail(s) /\ Tail(s)[j - 1] = s[j]
           /\ DOMAIN s \subseteq Nat \ {0} /\ DOMAIN Tail(s) \subseteq Nat \ {0}
  OBVIOUS

(* Without an element at its head, no element is twice in a sequence.        *)
LEMMA TailRange ==
    ASSUME NEW s \in Seq(Objects), s # << >>, IsInjective(s)
    PROVE  /\ Range(Tail(s)) = Range(s) \ {Head(s)} /\ Head(s) \in Range(s)
           /\ IsInjective(Tail(s))
<1>1. Head(s) \in Range(s)
  BY TailOf DEF Range
<1>2. ASSUME NEW x \in Range(Tail(s)) PROVE x \in Range(s) \ {Head(s)}
  <2>1. PICK j \in DOMAIN Tail(s) : Tail(s)[j] = x
    BY <1>2 DEF Range
  <2>2. j + 1 \in DOMAIN s /\ s[j + 1] = x /\ 1 \in DOMAIN s /\ Head(s) = s[1] /\ j + 1 # 1
    BY <2>1, TailOf
  <2>3. QED
    BY <2>2 DEF Range, IsInjective
<1>3. ASSUME NEW x \in Range(s), x # Head(s) PROVE x \in Range(Tail(s))
  <2>1. PICK j \in DOMAIN s : s[j] = x
    BY <1>3 DEF Range
  <2>2. j # 1
    BY <1>3, <2>1, TailOf
  <2>3. j - 1 \in DOMAIN Tail(s) /\ Tail(s)[j - 1] = x
    BY <2>1, <2>2, TailOf
  <2>4. QED
    BY <2>3 DEF Range
<1>4. IsInjective(Tail(s))
  <2> SUFFICES ASSUME NEW i \in DOMAIN Tail(s), NEW j \in DOMAIN Tail(s),
                      Tail(s)[i] = Tail(s)[j]
               PROVE  i = j
    BY DEF IsInjective
  <2>1. i + 1 \in DOMAIN s /\ j + 1 \in DOMAIN s /\ s[i + 1] = s[j + 1] /\ i \in Nat /\ j \in Nat
    BY TailOf
  <2>2. i + 1 = j + 1
    BY <2>1 DEF IsInjective
  <2>3. QED
    BY <2>1, <2>2
<1>5. QED
  BY <1>1, <1>2, <1>3, <1>4

LEMMA NoneListed == Listed(<< >>) = {} /\ Distinct(<< >>)
  BY DEF Listed, Distinct

LEMMA ElementOf ==
    ASSUME NEW S, NEW s \in Seq(S), NEW i \in DOMAIN s
    PROVE  s[i] \in S
  OBVIOUS

LEMMA ObjectsOf ==
    ASSUME NEW list \in Lists, NEW i \in DOMAIN list
    PROVE  /\ list[i] \in [parses : BOOLEAN, objects : Seq(Objects)]
           /\ list[i].objects \in Seq(Objects)
<1>1. list[i] \in [parses : BOOLEAN, objects : Seq(Objects)]
  BY ElementOf DEF Lists
<1>2. QED
  BY <1>1

LEMMA ListedObjects == ASSUME NEW list \in Lists PROVE Listed(list) \subseteq Objects
<1> SUFFICES ASSUME NEW i \in DOMAIN list PROVE Range(list[i].objects) \subseteq Objects
  BY DEF Listed
<1>1. list[i].objects \in Seq(Objects)
  BY ObjectsOf
<1>2. QED
  BY <1>1, ElementOf DEF Range

(* An instance all of whose objects are read leaves the queue.               *)
LEMMA NextInstance ==
    ASSUME NEW list \in Lists, list # << >>, Head(list).objects = << >>, Distinct(list)
    PROVE  Listed(Tail(list)) = Listed(list) /\ Distinct(Tail(list))
<1> USE DEF Lists
<1>1. Listed(Tail(list)) \subseteq Listed(list)
  <2> SUFFICES ASSUME NEW i \in DOMAIN Tail(list), NEW o \in Range(Tail(list)[i].objects)
               PROVE  o \in Listed(list)
    BY DEF Listed
  <2>1. i + 1 \in DOMAIN list /\ o \in Range(list[i + 1].objects)
    BY TailOf
  <2>2. QED
    BY <2>1 DEF Listed
<1>2. Listed(list) \subseteq Listed(Tail(list))
  <2> SUFFICES ASSUME NEW i \in DOMAIN list, NEW o \in Range(list[i].objects)
               PROVE  o \in Listed(Tail(list))
    BY DEF Listed
  <2>1. i # 1
    BY TailOf DEF Range
  <2>2. i - 1 \in DOMAIN Tail(list) /\ o \in Range(Tail(list)[i - 1].objects)
    BY <2>1, TailOf
  <2>3. QED
    BY <2>2 DEF Listed
<1>3. Distinct(Tail(list))
  <2>1. ASSUME NEW i \in DOMAIN Tail(list) PROVE IsInjective(Tail(list)[i].objects)
    BY TailOf DEF Distinct
  <2>2. ASSUME NEW i \in DOMAIN Tail(list), NEW j \in DOMAIN Tail(list), i # j
        PROVE  Range(Tail(list)[i].objects) \cap Range(Tail(list)[j].objects) = {}
    <3>1. /\ i + 1 \in DOMAIN list /\ Tail(list)[i] = list[i + 1] /\ i \in Nat
          /\ j + 1 \in DOMAIN list /\ Tail(list)[j] = list[j + 1] /\ j \in Nat
      BY TailOf
    <3>2. i + 1 # j + 1
      BY <2>2, <3>1
    <3>3. QED
      BY <3>1, <3>2 DEF Distinct
  <2>3. QED
    BY <2>1, <2>2 DEF Distinct
<1>4. QED
  BY <1>1, <1>2, <1>3

LEMMA ObjectTaken ==
    ASSUME NEW list \in Lists, list # << >>, list[1].objects # << >>
    PROVE  LET new == [list EXCEPT ![1].objects = Tail(@)]
           IN  /\ new \in Lists /\ DOMAIN new = DOMAIN list
               /\ new[1].objects = Tail(list[1].objects)
               /\ \A i \in DOMAIN list : i # 1 => new[i] = list[i]
<1> DEFINE first == [list[1] EXCEPT !.objects = Tail(@)]
<1>1. 1 \in DOMAIN list
  BY TailOf DEF Lists
<1>2. /\ list[1] \in [parses : BOOLEAN, objects : Seq(Objects)]
      /\ Tail(list[1].objects) \in Seq(Objects)
  BY <1>1, ObjectsOf, TailOf
<1>3. first \in [parses : BOOLEAN, objects : Seq(Objects)] /\ first.objects = Tail(list[1].objects)
  BY <1>2
<1>4. [list EXCEPT ![1].objects = Tail(@)] = [list EXCEPT ![1] = first]
  OBVIOUS
<1> HIDE DEF first
<1>5. /\ [list EXCEPT ![1] = first] \in Lists
      /\ DOMAIN [list EXCEPT ![1] = first] = DOMAIN list
      /\ [list EXCEPT ![1] = first][1] = first
      /\ \A i \in DOMAIN list : i # 1 => [list EXCEPT ![1] = first][i] = list[i]
  BY <1>1, <1>3 DEF Lists
<1>6. QED
  BY <1>3, <1>4, <1>5

(* The next object of an instance leaves the queue, and is in it once.       *)
LEMMA NextObject ==
    ASSUME NEW list \in Lists, list # << >>, list[1].objects # << >>, Distinct(list),
           NEW new, DOMAIN new = DOMAIN list, new[1].objects = Tail(list[1].objects),
           \A i \in DOMAIN list : i # 1 => new[i] = list[i]
    PROVE  /\ Distinct(new)
           /\ Head(list[1].objects) \in Objects
           /\ Head(list[1].objects) \in Listed(list)
           /\ Listed(new) = Listed(list) \ {Head(list[1].objects)}
<1> DEFINE first == list[1].objects
           o     == Head(first)
<1>1. /\ 1 \in DOMAIN list
      /\ first \in Seq(Objects) /\ first # << >> /\ IsInjective(first)
  <2>1. 1 \in DOMAIN list
    BY TailOf DEF Lists
  <2>2. QED
    BY <2>1, ObjectsOf DEF Distinct
<1>2. /\ Range(Tail(first)) = Range(first) \ {o} /\ o \in Range(first) /\ o \in Objects
      /\ IsInjective(Tail(first)) /\ Tail(first) \in Seq(Objects)
  BY <1>1, TailRange, TailOf
<1>3. /\ DOMAIN new = DOMAIN list
      /\ new[1].objects = Tail(first)
      /\ \A i \in DOMAIN list : i # 1 => new[i] = list[i]
  OBVIOUS
<1> HIDE DEF first, o
<1>4. \A i \in DOMAIN list : Range(new[i].objects) = Range(list[i].objects) \ {o}
  <2> SUFFICES ASSUME NEW i \in DOMAIN list
               PROVE  Range(new[i].objects) = Range(list[i].objects) \ {o}
    OBVIOUS
  <2>1. CASE i = 1
    BY <1>2, <1>3, <2>1 DEF first
  <2>2. CASE i # 1
    <3>1. o \notin Range(list[i].objects)
      BY <1>1, <1>2, <2>2 DEF Distinct, first
    <3>2. QED
      BY <1>3, <2>2, <3>1
  <2>3. QED
    BY <2>1, <2>2
<1>5. Listed(new) = Listed(list) \ {o}
  <2>1. ASSUME NEW x
        PROVE  x \in Listed(new) <=> \E i \in DOMAIN list : x \in Range(new[i].objects)
    BY <1>3 DEF Listed
  <2>2. ASSUME NEW x
        PROVE  x \in Listed(list) <=> \E i \in DOMAIN list : x \in Range(list[i].objects)
    BY DEF Listed
  <2>3. ASSUME NEW x, x \in Listed(new) PROVE x \in Listed(list) \ {o}
    BY <1>4, <2>1, <2>2, <2>3
  <2>4. ASSUME NEW x, x \in Listed(list), x # o PROVE x \in Listed(new)
    BY <1>4, <2>1, <2>2, <2>4
  <2>5. QED
    BY <2>3, <2>4
<1>6. o \in Listed(list)
  BY <1>1, <1>2 DEF Listed, first
<1>7. Distinct(new)
  <2>1. ASSUME NEW i \in DOMAIN new PROVE IsInjective(new[i].objects)
    BY <1>2, <1>3 DEF Distinct
  <2>2. ASSUME NEW i \in DOMAIN new, NEW j \in DOMAIN new, i # j
        PROVE  Range(new[i].objects) \cap Range(new[j].objects) = {}
    <3>1. i \in DOMAIN list /\ j \in DOMAIN list
      BY <1>3
    <3>2. Range(list[i].objects) \cap Range(list[j].objects) = {}
      BY <2>2, <3>1 DEF Distinct
    <3>3. /\ Range(new[i].objects) = Range(list[i].objects) \ {o}
          /\ Range(new[j].objects) = Range(list[j].objects) \ {o}
      BY <1>4, <3>1
    <3>4. QED
      BY <3>2, <3>3
  <2>3. QED
    BY <2>1, <2>2 DEF Distinct
<1>8. QED
  BY <1>1, <1>2, <1>3, <1>5, <1>6, <1>7 DEF first, o

--------------------------------------------------------------------------------
(* What a status says. *)

(* lookup finds the check that applies, and no two are found.                *)
LEMMA LookupFinds ==
    ASSUME declared \in Seq(Check), ~Refused(declared), NEW gk \in Kind
    PROVE  /\ \A i \in DOMAIN declared : Applies(i, gk) <=> i \in Lookup(gk)
           /\ Lookup(gk) \subseteq DOMAIN declared
           /\ \A i, j \in Lookup(gk) : i = j
<1>1. \A i \in DOMAIN declared : declared[i] \in Check /\ declared[i].complete
  BY ElementOf DEF Refused
<1>2. \A i, j \in DOMAIN declared :
          declared[i].group = declared[j].group /\ declared[i].kind = declared[j].kind => i = j
  BY DEF Refused
<1>3. \A k : Index(k) \subseteq DOMAIN declared /\ \A i, j \in Index(k) : i = j
  BY <1>2 DEF Index
<1>5. ASSUME NEW i \in DOMAIN declared, NEW j \in DOMAIN declared
      PROVE  declared[j] = [declared[i] EXCEPT !.kind = gk.kind]
             <=> declared[j].group = declared[i].group /\ declared[j].kind = gk.kind
  <2>1. declared[i] \in Check /\ declared[j] \in Check /\ declared[i].complete = TRUE
        /\ declared[j].complete = TRUE
    BY <1>1 DEF Check
  <2>2. QED
    BY <2>1 DEF Check
<1>6. ASSUME NEW i \in DOMAIN declared PROVE Applies(i, gk) <=> i \in Lookup(gk)
  <2>1. CASE Index(gk) # {}
    <3>1. PICK j \in DOMAIN declared : declared[j].group = gk.group /\ declared[j].kind = gk.kind
      BY <2>1 DEF Index
    <3>2. Lookup(gk) = Index(gk)
      BY <2>1 DEF Lookup
    <3>3. CASE declared[i].group = gk.group /\ declared[i].kind # gk.kind
      <4>1. declared[j] = [declared[i] EXCEPT !.kind = gk.kind]
        BY <1>5, <3>1, <3>3
      <4>2. QED
        BY <3>2, <3>3, <4>1 DEF Index, Applies
    <3>4. CASE ~(declared[i].group = gk.group /\ declared[i].kind # gk.kind)
      BY <3>2, <3>4 DEF Index, Applies
    <3>5. QED
      BY <3>3, <3>4
  <2>2. CASE Index(gk) = {}
    <3>1. \A j \in DOMAIN declared : ~(declared[j].group = gk.group /\ declared[j].kind = gk.kind)
      BY <2>2 DEF Index
    <3>2. Lookup(gk) = Index([gk EXCEPT !.kind = ""])
      BY <2>2 DEF Lookup
    <3>3. [gk EXCEPT !.kind = ""].group = gk.group /\ [gk EXCEPT !.kind = ""].kind = ""
      BY DEF Kind
    <3>4. QED
      BY <1>5, <3>1, <3>2, <3>3 DEF Index, Applies
  <2>3. QED
    BY <2>1, <2>2
<1>7. QED
  BY <1>3, <1>6 DEF Lookup

LEMMA EvaluateSays ==
    ASSUME NEW says \in Says
    PROVE  /\ Passes(says) <=> Evaluate(says) = "Current"
           /\ Fails(says) <=> Evaluate(says) \in {"error", "Failed"}
  BY DEF Says, Result, Evaluate, Passes, Fails, IsTrue, IsFalse

(* The conditions say of a Job what its status is, when it ends but once.    *)
LEMMA JobSays ==
    ASSUME NEW it \in State, EndsOnce(it)
    PROVE  /\ JobConditions(it) = "Current" <=> it.suspend \/ Has(it, "Complete")
           /\ JobConditions(it) = "Failed" <=> ~it.suspend /\ Has(it, "Failed")
<1>1. CASE Ends(it) = {}
  BY <1>1 DEF JobConditions, Has
<1>2. CASE Ends(it) # {}
  <2>1. PICK i \in Ends(it) : Ends(it) = {i}
    BY <1>2 DEF EndsOnce
  <2>2. i \in DOMAIN it.conditions /\ it.conditions[i].type \in {"Complete", "Failed"}
    BY <2>1 DEF Ends
  <2>3. i \in Int
    BY <2>2 DEF State, Conditions
  <2>4. (CHOOSE k \in Ends(it) : \A j \in Ends(it) : k <= j) = i
    BY <2>1, <2>3
  <2>5. \A type : Has(it, type) <=> it.conditions[i].type = type
    BY <2>1 DEF Has
  <2>6. QED
    BY <1>2, <2>2, <2>4, <2>5 DEF JobConditions
<1>3. QED
  BY <1>1, <1>2

(* What the observer makes of an object is the verdict of its check.         *)
LEMMA ObservedSays ==
    ASSUME declared \in Seq(Check), ~Refused(declared), NEW o \in Objects,
           NEW it, it = Unread \/ Known(o, it)
    PROVE  /\ Observed(o, it) = "Current" <=> IsReady(o, it)
           /\ Observed(o, it) = "Failed" <=> HasFailed(o, it)
<1> DEFINE gk == GroupKind[o]
<1>1. CASE it = Unread
  BY <1>1 DEF Observed, Unread, IsReady, HasFailed, Readable
<1>2. CASE it # Unread
  <2>1. it \in State /\ DOMAIN declared \subseteq DOMAIN it.says /\ gk \in Kind
    BY <1>2, StatusAssumption DEF Known
  <2>2. Observed(o, it) = ReadStatus(gk, it)
    BY <1>2 DEF Observed
  <2>3. CASE it.phase \in {"absent", "unreadable"}
    BY <2>2, <2>3 DEF ReadStatus, IsReady, HasFailed, Readable
  <2>4. CASE it.phase \in {"live", "deleting"}
    <3>1. Readable(it)
      BY <2>4 DEF Readable
    <3>2. {i \in DOMAIN declared : Applies(i, gk)} = Lookup(gk)
      BY <2>1, LookupFinds
    <3>3. CASE Lookup(gk) # {}
      <4>1. PICK i \in Lookup(gk) : Lookup(gk) = {i}
        BY <2>1, <3>3, LookupFinds
      <4>2. (CHOOSE j \in Lookup(gk) : TRUE) = i
        BY <4>1
      <4>3. i \in DOMAIN declared /\ i \in DOMAIN it.says
        BY <2>1, <4>1, LookupFinds
      <4>4. it.says[i] \in Says
        BY <2>1, <4>3, ElementOf DEF State
      <4>5. ReadStatus(gk, it) = HealthCheckResult(it, it.says[i])
        BY <2>4, <3>3, <4>2 DEF ReadStatus
      <4>6. \A verdict, ofJob, kstatus :
                Judged(o, it, verdict, ofJob, kstatus) <=> it.phase # "deleting" /\ verdict[i]
        BY <3>2, <3>3, <4>1 DEF Judged
      <4>7. /\ IsReady(o, it) <=> it.phase # "deleting" /\ Passes(it.says[i])
            /\ HasFailed(o, it) <=> it.phase # "deleting" /\ Fails(it.says[i])
        BY <3>1, <4>3, <4>6 DEF IsReady, HasFailed
      <4>8. QED
        BY <2>2, <4>4, <4>5, <4>7, EvaluateSays DEF HealthCheckResult
    <3>4. CASE Lookup(gk) = {} /\ gk = JobKind
      <4>1. ReadStatus(gk, it) = JobConditions(it)
        BY <2>4, <3>4 DEF ReadStatus
      <4>2. \A verdict, ofJob, kstatus : Judged(o, it, verdict, ofJob, kstatus) = ofJob
        BY <3>2, <3>4 DEF Judged
      <4>3. EndsOnce(it)
        BY <1>2, <3>4 DEF Known
      <4>4. QED
        BY <2>1, <2>2, <3>1, <4>1, <4>2, <4>3, JobSays DEF IsReady, HasFailed
    <3>5. CASE Lookup(gk) = {} /\ gk # JobKind
      <4>1. ReadStatus(gk, it) = IF it.phase = "deleting" THEN "Terminating" ELSE it.generic
        BY <2>4, <3>5 DEF ReadStatus
      <4>2. \A verdict, ofJob, kstatus :
                Judged(o, it, verdict, ofJob, kstatus)
                <=> it.phase # "deleting" /\ it.generic = kstatus
        BY <3>2, <3>5 DEF Judged
      <4>3. QED
        BY <2>2, <3>1, <4>1, <4>2 DEF IsReady, HasFailed
    <3>6. QED
      BY <3>3, <3>4, <3>5
  <2>5. QED
    BY <2>1, <2>3, <2>4 DEF State, Phases
<1>3. QED
  BY <1>1, <1>2

--------------------------------------------------------------------------------
(* The steps of a wait. *)

LEMMA ScopeTyped ==
    ASSUME scope \in Scopes \cup {<< >>}
    PROVE  /\ scope \in Seq([lists : BOOLEAN, instances : Lists])
           /\ Len(scope) \in Nat /\ DOMAIN scope = 1..Len(scope)
           /\ \A c \in DOMAIN scope : scope[c].instances \in Lists
<1>1. scope \in Seq([lists : BOOLEAN, instances : Lists])
  <2>1. CASE scope \in Scopes
    BY <2>1, StatusAssumption
  <2>2. CASE scope = << >>
    BY <2>2
  <2>3. QED
    BY <2>1, <2>2
<1>2. \A c \in DOMAIN scope : scope[c] \in [lists : BOOLEAN, instances : Lists]
  BY <1>1, ElementOf
<1>3. QED
  BY <1>1, <1>2

LEMMA StatusInit == Init => StatusInv
<1> SUFFICES ASSUME Init PROVE StatusInv
  OBVIOUS
<1>1. StatusTypes
  <2>1. declared \in Declarations \cup {<< >>}
    BY DEF Init
  <2>2. ASSUME NEW o \in Objects
        PROVE  live[o] \in State /\ Known(o, live[o])
    <3>1. live[o] \in Jobs \cup Others /\ (live[o] \in Jobs) = (GroupKind[o] = JobKind)
      BY DEF Init
    <3>2. live[o] \in State
      BY <3>1, StatusAssumption
    <3>3. DOMAIN declared \subseteq DOMAIN live[o].says
      BY <2>1, <3>1, StatusAssumption
    <3>4. GroupKind[o] = JobKind => EndsOnce(live[o])
      BY <3>1, StatusAssumption DEF EndsOnce
    <3>5. QED
      BY <3>2, <3>3, <3>4 DEF Known
  <2>3. live \in [Objects -> State]
    BY <2>2 DEF Init
  <2>4. scope \in Scopes \cup {<< >>} /\ awaited \subseteq Objects
    BY DEF Init
  <2>5. Len(scope) \in Nat
    BY <2>4, ScopeTyped
  <2>6. queue = << >> /\ read \in [Objects -> {Unread}] /\ at = 1
    BY DEF Init
  <2>7. command \in {"wait", "status", "bundle status"} /\ told = "begins" /\ failed = FALSE
    BY DEF Init
  <2>8. << >> \in Lists
    BY DEF Lists
  <2>9. read \in [Objects -> {Unread} \cup State \cup [phase : Phases]]
    BY <2>6
  <2>10. at \in Nat \ {0} /\ at <= Len(scope) + 1
    BY <2>5, <2>6
  <2>11. \A o \in Objects : Known(o, live[o])
    BY <2>2
  <2>12. queue \in Lists
    BY <2>6, <2>8
  <2>13. failed \in BOOLEAN
    BY <2>7
  <2>14. QED
    BY <2>1, <2>3, <2>4, <2>7, <2>9, <2>10, <2>11, <2>12, <2>13 DEF StatusTypes
<1>2. WaitInv
  BY DEF Init, WaitInv, Waits
<1>3. ListInv
  <2>1. \A c \in DOMAIN scope : c \in Nat \ {0}
    <3>1. scope \in Scopes \cup {<< >>}
      BY <1>1 DEF StatusTypes
    <3>2. Len(scope) \in Nat /\ DOMAIN scope = 1..Len(scope)
      BY <3>1, ScopeTyped
    <3>3. QED
      BY <3>2
  <2>2. command = "wait" => scope = << >>
    BY DEF Init
  <2>3. queue = << >> /\ at = 1 /\ failed = FALSE /\ told = "begins"
    BY DEF Init
  <2>4. failed <=> \E c \in DOMAIN scope : c < at /\ Missed(c)
    BY <2>1, <2>3
  <2>5. QED
    BY <2>2, <2>3, <2>4, NoneListed DEF ListInv
<1>4. QED
  BY <1>1, <1>2, <1>3 DEF StatusInv

(* A verdict depends on the checks that are declared, and on the object.     *)
LEMMA SameVerdict ==
    ASSUME declared' = declared, NEW o, NEW it
    PROVE  /\ IsReady(o, it)' <=> IsReady(o, it)
           /\ HasFailed(o, it)' <=> HasFailed(o, it)
           /\ Known(o, it)' <=> Known(o, it)
           /\ BuiltinJob(o)' <=> BuiltinJob(o)
  BY DEF IsReady, HasFailed, Judged, Applies, Known, BuiltinJob

(* How a Job goes on.  One that has ended keeps the condition that says so.  *)
Follows(was, next) ==
    /\ next \in State /\ EndsOnce(next)
    /\ next.says = was.says
    /\ Has(was, "Failed") => Has(next, "Failed")

LEMMA PhaseFollows ==
    ASSUME NEW was \in State, EndsOnce(was), NEW phase \in Phases
    PROVE  Follows(was, [was EXCEPT !.phase = phase])
  BY DEF Follows, State, EndsOnce, Has, Ends

LEMMA PodsFollow ==
    ASSUME NEW was \in State, EndsOnce(was)
    PROVE  Follows(was, [was EXCEPT !.failedPods = @ + 1])
  BY DEF Follows, State, EndsOnce, Has, Ends

LEMMA ResumeFollows ==
    ASSUME NEW was \in State, ~Has(was, "Failed"), NEW condition,
           condition \in [type : {"Suspended"}, status : BOOLEAN]
    PROVE  Follows(was, [was EXCEPT !.suspend = FALSE, !.conditions = << condition >>])
<1> DEFINE next == [was EXCEPT !.suspend = FALSE, !.conditions = << condition >>]
<1>1. condition \in [type : {"Suspended", "Complete", "Failed"}, status : BOOLEAN]
  OBVIOUS
<1>2. << condition >> \in Conditions
  BY <1>1 DEF Conditions
<1>3. next \in State /\ next.says = was.says /\ next.conditions = << condition >>
  BY <1>2 DEF State
<1> HIDE DEF next
<1>4. Ends(next) = {}
  BY <1>3 DEF Ends
<1>5. QED
  BY <1>3, <1>4 DEF Follows, EndsOnce, next

LEMMA EndFollows ==
    ASSUME NEW was \in State, ~Has(was, "Failed"), ~Has(was, "Complete"), NEW condition,
           condition \in [type : {"Complete", "Failed"}, status : BOOLEAN]
    PROVE  Follows(was, [was EXCEPT !.conditions = Append(@, condition)])
<1> DEFINE list == Append(was.conditions, condition)
           next == [was EXCEPT !.conditions = list]
<1>1. condition \in [type : {"Suspended", "Complete", "Failed"}, status : BOOLEAN]
  OBVIOUS
<1>2. /\ was.conditions \in Conditions
      /\ list \in Conditions /\ DOMAIN list = DOMAIN was.conditions \cup {Len(was.conditions) + 1}
      /\ \A i \in DOMAIN was.conditions : list[i] = was.conditions[i]
  BY <1>1 DEF State, Conditions
<1> HIDE DEF list
<1>3. next \in State /\ next.says = was.says /\ next.conditions = list
  BY <1>2 DEF State
<1>4. next = [was EXCEPT !.conditions = Append(@, condition)]
  BY DEF list
<1> HIDE DEF next
<1>5. Ends(was) = {}
  BY DEF Ends, Has
<1>6. Ends(next) \subseteq {Len(was.conditions) + 1}
  BY <1>2, <1>3, <1>5 DEF Ends
<1>7. QED
  BY <1>3, <1>4, <1>6 DEF Follows, EndsOnce

LEMMA JobGoesOn ==
    ASSUME StatusTypes, NEW o \in Objects, JobChanges(o)
    PROVE  \E next : Follows(live[o], next) /\ live' = [live EXCEPT ![o] = next]
<1> DEFINE was == live[o]
<1>1. was \in State /\ EndsOnce(was)
  BY DEF StatusTypes, Known, JobChanges
<1>2. \A phase \in Phases : Follows(was, [was EXCEPT !.phase = phase])
  BY <1>1, PhaseFollows
<1>3. CASE was.phase = "live" /\ live' = [live EXCEPT ![o] = [was EXCEPT !.phase = "deleting"]]
  BY <1>2, <1>3 DEF Phases
<1>4. CASE was.phase = "deleting" /\ live' = [live EXCEPT ![o] = [was EXCEPT !.phase = "absent"]]
  BY <1>2, <1>4 DEF Phases
<1>5. CASE /\ ~Has(was, "Failed")
           /\ live' = [live EXCEPT ![o] =
                  [was EXCEPT !.suspend = FALSE,
                              !.conditions = << [type |-> "Suspended", status |-> FALSE] >>]]
  <2>1. [type |-> "Suspended", status |-> FALSE] \in [type : {"Suspended"}, status : BOOLEAN]
    OBVIOUS
  <2>2. QED
    BY <1>1, <1>5, <2>1, ResumeFollows
<1>6. CASE live' = [live EXCEPT ![o] = [was EXCEPT !.failedPods = @ + 1]]
  BY <1>1, <1>6, PodsFollow
<1>7. CASE /\ ~Has(was, "Failed") /\ ~Has(was, "Complete")
           /\ \E type \in {"Complete", "Failed"} : live' = [live EXCEPT ![o] =
                  [was EXCEPT !.conditions = Append(@, [type |-> type, status |-> TRUE])]]
  <2>1. PICK type \in {"Complete", "Failed"} : live' = [live EXCEPT ![o] =
            [was EXCEPT !.conditions = Append(@, [type |-> type, status |-> TRUE])]]
    BY <1>7
  <2>2. [type |-> type, status |-> TRUE] \in [type : {"Complete", "Failed"}, status : BOOLEAN]
    OBVIOUS
  <2>3. QED
    BY <1>1, <1>7, <2>1, <2>2, EndFollows
<1>8. QED
  BY <1>3, <1>4, <1>5, <1>6, <1>7 DEF JobChanges

LEMMA BeginKeeps ==
    ASSUME StatusInv, Begin
    PROVE  StatusInv'
<1>1. /\ UNCHANGED <<command, declared, wait, awaited, expires, live, read, scope, at, queue, failed>>
      /\ command = "wait" /\ told = "begins"
      /\ \/ told' \in {"refused", "skipped"}
         \/ told' = "waiting" /\ ~Refused(declared) /\ awaited # {}
  BY DEF Begin, Tells
<1>2. StatusTypes'
  BY <1>1 DEF StatusInv, StatusTypes, Known, Waits
<1>3. WaitInv'
  <2>1. \A o \in Objects : read[o] = Unread
    BY <1>1 DEF StatusInv, WaitInv
  <2>2. ~Refused(declared)' <=> ~Refused(declared)
    BY <1>1 DEF Refused
  <2>3. told' = "waiting" => Unsettled'
    <3>1. \A o \in awaited : ~IsReady(o, read[o])' /\ ~HasFailed(o, read[o])'
      <4> SUFFICES ASSUME NEW o \in awaited PROVE ~IsReady(o, read[o])' /\ ~HasFailed(o, read[o])'
        OBVIOUS
      <4>1. read'[o] = Unread
        BY <1>1, <2>1 DEF StatusInv, StatusTypes
      <4>2. QED
        BY <4>1 DEF IsReady, HasFailed, Readable, Unread
    <3>2. QED
      BY <1>1, <3>1 DEF Unsettled
  <2>4. QED
    BY <1>1, <2>1, <2>2, <2>3 DEF WaitInv, Waits
<1>4. ListInv'
  BY <1>1 DEF StatusInv, ListInv, Missed
<1>5. QED
  BY <1>2, <1>3, <1>4 DEF StatusInv

(* Without a cluster in scope, nothing is listed.                            *)
LEMMA WaitListsNothing ==
    ASSUME StatusInv, command = "wait", UNCHANGED <<command, scope, at, queue, failed>>,
           told' \notin {"ok", "errors"}
    PROVE  ListInv'
  BY DEF StatusInv, ListInv

LEMMA PollKeeps ==
    ASSUME StatusInv, NEW o \in Objects, Poll(o)
    PROVE  StatusInv'
<1>1. /\ UNCHANGED <<command, declared, wait, awaited, expires, live, scope, at, queue, failed>>
      /\ told = "waiting" /\ o \in awaited
      /\ read' = [read EXCEPT ![o] = live[o]]
  BY DEF Poll
<1>2. /\ command = "wait" /\ ~Refused(declared) /\ declared \in Seq(Check)
      /\ awaited \subseteq Objects /\ Known(o, live[o])
      /\ \A p \in Objects : read[p] = Unread \/ Known(p, read[p])
      /\ \A p \in awaited : ~HasFailed(p, read[p])
  <2>1. declared \in Seq(Check)
    <3>1. declared \in Declarations \cup {<< >>}
      BY DEF StatusInv, StatusTypes
    <3>2. CASE declared \in Declarations
      BY <3>2, StatusAssumption
    <3>3. CASE declared = << >>
      BY <3>3
    <3>4. QED
      BY <3>1, <3>2, <3>3
  <2>2. QED
    BY <1>1, <2>1 DEF StatusInv, StatusTypes, WaitInv, Waits, Unsettled
<1>3. /\ read'[o] = live[o]
      /\ \A p \in Objects : p # o => read'[p] = read[p]
  BY <1>1 DEF StatusInv, StatusTypes
<1>4. \A p \in Objects : read'[p] = Unread \/ Known(p, read'[p])
  BY <1>2, <1>3
<1>5. \A p \in awaited : /\ Observed(p, read'[p]) = "Current" <=> IsReady(p, read'[p])
                         /\ Observed(p, read'[p]) = "Failed" <=> HasFailed(p, read'[p])
  BY <1>2, <1>4, ObservedSays
<1>6. told' = IF \E p \in awaited : HasFailed(p, read'[p]) THEN "failed"
              ELSE IF \A p \in awaited : IsReady(p, read'[p]) THEN "ready" ELSE "waiting"
  <2>1. {p \in awaited : Observed(p, read'[p]) = "Failed"} # {}
        <=> \E p \in awaited : HasFailed(p, read'[p])
    BY <1>5
  <2>2. {p \in awaited : Observed(p, read'[p]) = "Current"} = awaited
        <=> \A p \in awaited : IsReady(p, read'[p])
    BY <1>5
  <2>3. QED
    BY <2>1, <2>2 DEF Poll, Tells
<1>7. \A p : /\ IsReady(p, read[p])' <=> IsReady(p, read'[p])
             /\ HasFailed(p, read[p])' <=> HasFailed(p, read'[p])
             /\ Known(p, read[p])' <=> Known(p, read'[p])
             /\ BuiltinJob(p)' <=> BuiltinJob(p)
  BY <1>1 DEF IsReady, HasFailed, Judged, Applies, Known, BuiltinJob
<1>8. StatusTypes'
  <2>1. read' \in [Objects -> {Unread} \cup State \cup [phase : Phases]]
    BY <1>1, <1>2 DEF StatusInv, StatusTypes, Known
  <2>2. told' \in Waits
    BY <1>6 DEF Waits
  <2>3. QED
    BY <1>1, <2>1, <2>2 DEF StatusInv, StatusTypes, Known
<1>9. WaitInv'
  <2>1. Refused(declared)' <=> Refused(declared)
    BY <1>1 DEF Refused
  <2>2. told' = "waiting" => Unsettled'
    BY <1>1, <1>6, <1>7 DEF Unsettled
  <2>3. told' = "ready" => \A p \in awaited' : IsReady(p, read[p])'
    BY <1>1, <1>6, <1>7
  <2>4. ASSUME told' = "failed"
        PROVE  \E p \in awaited' : HasFailed(p, read[p])' /\ (BuiltinJob(p)' => Has(live[p], "Failed")')
    <3>1. PICK p \in awaited : HasFailed(p, read'[p])
      BY <1>6, <2>4
    <3>2. p = o
      BY <1>2, <1>3, <3>1
    <3>3. HasFailed(o, live[o])
      BY <1>3, <3>1, <3>2
    <3>4. BuiltinJob(o) => Has(live[o], "Failed")
      <4>1. SUFFICES ASSUME BuiltinJob(o) PROVE Has(live[o], "Failed")
        OBVIOUS
      <4>2. {i \in DOMAIN declared : Applies(i, GroupKind[o])} = {} /\ GroupKind[o] = JobKind
        BY <4>1 DEF BuiltinJob
      <4>3. \A verdict, ofJob, kstatus : Judged(o, live[o], verdict, ofJob, kstatus) = ofJob
        BY <4>2 DEF Judged
      <4>4. QED
        BY <3>3, <4>3 DEF HasFailed
    <3>5. Has(live[o], "Failed")' <=> Has(live[o], "Failed")
      BY <1>1
    <3>6. QED
      BY <1>1, <1>3, <1>7, <3>1, <3>2, <3>4, <3>5
  <2>5. told' \in {"waiting", "ready", "failed"}
    BY <1>6
  <2>6. command' = "wait" /\ ~Refused(declared)'
    BY <1>1, <1>2, <2>1
  <2>7. \A p \in Objects : read'[p] = Unread \/ Known(p, read[p])'
    BY <1>4, <1>7
  <2>8. QED
    BY <2>2, <2>3, <2>4, <2>5, <2>6, <2>7 DEF WaitInv, Waits
<1>10. ListInv'
  <2>1. told' \notin {"ok", "errors"}
    BY <1>6
  <2>2. QED
    BY <1>1, <1>2, <2>1, WaitListsNothing
<1>11. QED
  BY <1>8, <1>9, <1>10 DEF StatusInv

LEMMA TimeoutKeeps ==
    ASSUME StatusInv, Timeout
    PROVE  StatusInv'
<1>1. /\ UNCHANGED <<command, declared, wait, awaited, expires, live, read, scope, at, queue, failed>>
      /\ told = "waiting" /\ told' = "timeout"
  BY DEF Timeout, Tells
<1>2. StatusTypes'
  BY <1>1 DEF StatusInv, StatusTypes, Known, Waits
<1>3. WaitInv'
  <2>1. Refused(declared)' <=> Refused(declared)
    BY <1>1 DEF Refused
  <2>2. Unsettled'
    <3>1. Unsettled
      BY <1>1 DEF StatusInv, WaitInv
    <3>2. \A o : /\ IsReady(o, read[o])' <=> IsReady(o, read[o])
                 /\ HasFailed(o, read[o])' <=> HasFailed(o, read[o])
      BY <1>1 DEF IsReady, HasFailed, Judged, Applies
    <3>3. QED
      BY <1>1, <3>1, <3>2 DEF Unsettled
  <2>3. \A p \in Objects : read'[p] = Unread \/ Known(p, read[p])'
    BY <1>1 DEF StatusInv, WaitInv, Waits, Known
  <2>4. QED
    BY <1>1, <2>1, <2>2, <2>3 DEF StatusInv, WaitInv, Waits
<1>4. ListInv'
  BY <1>1, WaitListsNothing DEF StatusInv, WaitInv, Waits
<1>5. QED
  BY <1>2, <1>3, <1>4 DEF StatusInv

LEMMA ChangesKeep ==
    ASSUME StatusInv, Changes
    PROVE  StatusInv'
<1>1. UNCHANGED <<command, declared, wait, awaited, expires, read, scope, at, queue, failed, told>>
  BY DEF Changes
<1>2. PICK o \in Objects : JobChanges(o) \/ (told # "failed" /\ OtherChanges(o))
  BY DEF Changes
<1>3. /\ live' \in [Objects -> State]
      /\ \A p \in Objects : Known(p, live'[p])
      /\ told = "failed" => \A p \in Objects : Has(live[p], "Failed") => Has(live'[p], "Failed")
  <2>1. CASE JobChanges(o)
    <3>1. PICK next : Follows(live[o], next) /\ live' = [live EXCEPT ![o] = next]
      BY <2>1, JobGoesOn DEF StatusInv
    <3>2. next \in State /\ live \in [Objects -> State] /\ \A p \in Objects : Known(p, live[p])
      BY <3>1 DEF StatusInv, StatusTypes, Follows
    <3>3. /\ live' \in [Objects -> State] /\ live'[o] = next
          /\ \A p \in Objects : p # o => live'[p] = live[p]
      BY <3>1, <3>2
    <3>4. Known(o, next)
      BY <3>1, <3>2 DEF Known, Follows
    <3>5. Has(live[o], "Failed") => Has(next, "Failed")
      BY <3>1 DEF Follows
    <3>6. QED
      BY <3>2, <3>3, <3>4, <3>5
  <2>2. CASE told # "failed" /\ OtherChanges(o)
    <3>1. PICK next \in Others : live' = [live EXCEPT ![o] = next]
      BY <2>2 DEF OtherChanges
    <3>2. live \in [Objects -> State] /\ \A p \in Objects : Known(p, live[p])
      BY DEF StatusInv, StatusTypes
    <3>3. Known(o, next)
      <4>1. next \in State
        BY StatusAssumption
      <4>2. DOMAIN declared \subseteq DOMAIN next.says
        <5>1. declared \in Declarations \cup {<< >>}
          BY DEF StatusInv, StatusTypes
        <5>2. DOMAIN << >> = {}
          OBVIOUS
        <5>3. QED
          BY <5>1, <5>2, StatusAssumption
      <4>3. QED
        BY <2>2, <4>1, <4>2 DEF Known, OtherChanges
    <3>4. /\ live' \in [Objects -> State] /\ live'[o] = next
          /\ \A p \in Objects : p # o => live'[p] = live[p]
      BY <3>1, <3>2, <3>3 DEF Known
    <3>5. QED
      BY <2>2, <3>2, <3>3, <3>4
  <2>3. QED
    BY <1>2, <2>1, <2>2
<1>4. \A p : /\ IsReady(p, read[p])' <=> IsReady(p, read[p])
             /\ HasFailed(p, read[p])' <=> HasFailed(p, read[p])
             /\ Known(p, read[p])' <=> Known(p, read[p])
             /\ BuiltinJob(p)' <=> BuiltinJob(p)
  BY <1>1 DEF IsReady, HasFailed, Judged, Applies, Known, BuiltinJob
<1>5. StatusTypes'
  <2>1. \A p \in Objects : Known(p, live[p])' <=> Known(p, live'[p])
    BY <1>1 DEF Known
  <2>2. QED
    BY <1>1, <1>3, <2>1 DEF StatusInv, StatusTypes
<1>6. WaitInv'
  <2>1. Refused(declared)' <=> Refused(declared)
    BY <1>1 DEF Refused
  <2>2. Unsettled' <=> Unsettled
    BY <1>1, <1>4 DEF Unsettled
  <2>3. told = "failed" => \E p \in awaited' :
            HasFailed(p, read[p])' /\ (BuiltinJob(p)' => Has(live[p], "Failed")')
    <3>1. SUFFICES ASSUME told = "failed"
                   PROVE  \E p \in awaited' :
                              HasFailed(p, read[p])' /\ (BuiltinJob(p)' => Has(live[p], "Failed")')
      OBVIOUS
    <3>2. PICK p \in awaited : HasFailed(p, read[p]) /\ (BuiltinJob(p) => Has(live[p], "Failed"))
      BY <3>1 DEF StatusInv, WaitInv
    <3>3. p \in Objects
      BY DEF StatusInv, StatusTypes
    <3>4. Has(live'[p], "Failed") <=> Has(live[p], "Failed")'
      BY DEF Has, Ends
    <3>5. QED
      BY <1>1, <1>3, <1>4, <3>1, <3>2, <3>3, <3>4
  <2>4. told = "ready" => \A p \in awaited' : IsReady(p, read[p])'
    BY <1>1, <1>4 DEF StatusInv, WaitInv
  <2>5. command = "wait" => \A p \in Objects : \/ read'[p] = Unread
                                               \/ told' # "begins" /\ Known(p, read[p])'
    BY <1>1, <1>4 DEF StatusInv, WaitInv
  <2>6. /\ told \in Waits => command = "wait" /\ ~Refused(declared)
        /\ told \in {"waiting", "timeout"} => Unsettled
    BY DEF StatusInv, WaitInv
  <2>7. QED
    BY <1>1, <2>1, <2>2, <2>3, <2>4, <2>5, <2>6 DEF WaitInv
<1>7. ListInv'
  BY <1>1 DEF StatusInv, ListInv, Missed
<1>8. QED
  BY <1>5, <1>6, <1>7 DEF StatusInv

--------------------------------------------------------------------------------
(* The steps of the status commands. *)

(* A status command does not wait.                                           *)
LEMMA StatusDoesNotWait ==
    ASSUME StatusInv, command # "wait", UNCHANGED command, told' \notin Waits
    PROVE  WaitInv'
  BY DEF WaitInv, Waits

LEMMA StatusFrame ==
    ASSUME StatusInv, UNCHANGED <<command, declared, wait, awaited, expires, live, scope>>,
           read' \in [Objects -> {Unread} \cup State \cup [phase : Phases]],
           at' \in Nat \ {0}, at' <= Len(scope) + 1, queue' \in Lists, failed' \in BOOLEAN,
           told' \in {"begins", "error", "ok", "errors"}
    PROVE  StatusTypes'
  BY DEF StatusInv, StatusTypes, Known

(* A status command that ends in an error is told of nothing.                *)
LEMMA ErrorKeeps ==
    ASSUME StatusInv, StatusCommand, told' = "error",
           UNCHANGED <<command, declared, wait, awaited, expires, live, read, scope, at, queue, failed>>
    PROVE  StatusInv'
<1>1. StatusTypes'
  BY DEF StatusInv, StatusTypes, Known
<1>2. WaitInv'
  BY StatusDoesNotWait DEF StatusCommand, Waits
<1>3. ListInv'
  BY DEF StatusInv, ListInv, Missed
<1>4. QED
  BY <1>1, <1>2, <1>3 DEF StatusInv

LEMMA ListKeeps ==
    ASSUME StatusInv, List
    PROVE  StatusInv'
<1>1. /\ UNCHANGED <<command, declared, wait, awaited, expires, live, read, scope, told>>
      /\ command # "wait" /\ told = "begins" /\ queue = << >> /\ at <= Len(scope)
      /\ failed' = (failed \/ scope[at].instances = << >>)
      /\ queue' = scope[at].instances /\ at' = at + 1
  BY DEF List, AtCluster, StatusCommand
<1>2. /\ at \in Nat \ {0} /\ at \in DOMAIN scope /\ scope[at].instances \in Lists
      /\ Len(scope) \in Nat /\ DOMAIN scope = 1..Len(scope) /\ scope \in Scopes
  <2>1. scope \in Scopes \cup {<< >>} /\ at \in Nat \ {0}
    BY DEF StatusInv, StatusTypes
  <2>2. /\ Len(scope) \in Nat /\ DOMAIN scope = 1..Len(scope)
        /\ \A c \in DOMAIN scope : scope[c].instances \in Lists
    BY <2>1, ScopeTyped
  <2>3. at \in DOMAIN scope
    BY <1>1, <2>1, <2>2
  <2>4. scope # << >>
    BY <1>1, <2>1
  <2>5. QED
    BY <2>1, <2>2, <2>3, <2>4
<1>3. /\ Distinct(scope[at].instances)
      /\ \A c \in DOMAIN scope :
            c # at => Listed(scope[at].instances) \cap Listed(scope[c].instances) = {}
  BY <1>2, StatusAssumption
<1>4. StatusTypes'
  <2>1. failed' \in BOOLEAN /\ read' \in [Objects -> {Unread} \cup State \cup [phase : Phases]]
    BY <1>1 DEF StatusInv, StatusTypes
  <2>2. at' \in Nat \ {0} /\ at' <= Len(scope) + 1 /\ queue' \in Lists /\ told' = "begins"
    BY <1>1, <1>2
  <2>3. QED
    BY <1>1, <2>1, <2>2, StatusFrame
<1>5. WaitInv'
  BY <1>1, StatusDoesNotWait DEF Waits
<1>6. ListInv'
  <2>1. Distinct(queue')
    BY <1>1, <1>3
  <2>2. \A o \in Listed(queue') : \E c \in DOMAIN scope : c < at' /\ o \in Listed(scope[c].instances)
    BY <1>1, <1>2
  <2>3. \A c \in DOMAIN scope : c < at => (Missed(c)' <=> Missed(c))
    <3> SUFFICES ASSUME NEW c \in DOMAIN scope, c < at PROVE Missed(c)' <=> Missed(c)
      OBVIOUS
    <3>1. Listed(scope[c].instances) \ Listed(queue) = Listed(scope[c].instances)
      BY <1>1, NoneListed
    <3>2. c # at
      BY <1>2
    <3>3. Listed(scope[c].instances) \ Listed(queue') = Listed(scope[c].instances)
      BY <1>1, <1>3, <3>2
    <3>4. Missed(c)' <=> \/ scope[c].instances = << >>
                         \/ \E o \in Listed(scope[c].instances) \ Listed(queue') : ~Readable(read[o])
      BY <1>1 DEF Missed, Listed
    <3>5. QED
      BY <3>1, <3>3, <3>4 DEF Missed
  <2>4. \A c \in DOMAIN scope : c = at => (Missed(c)' <=> scope[c].instances = << >>)
    BY <1>1 DEF Missed, Listed
  <2>5. failed <=> \E c \in DOMAIN scope : c < at /\ Missed(c)
    BY DEF StatusInv, ListInv
  <2>6. \A c \in DOMAIN scope : c < at' <=> c < at \/ c = at
    BY <1>1, <1>2
  <2>7. failed' <=> \E c \in DOMAIN scope : c < at' /\ Missed(c)'
    BY <1>1, <1>2, <2>3, <2>4, <2>5, <2>6
  <2>8. \A c \in DOMAIN scope : (Listed(scope[c].instances) = Listed(scope[c].instances)')
    BY <1>1 DEF Listed
  <2>9. /\ Distinct(queue)' <=> Distinct(queue')
        /\ Listed(queue)' = Listed(queue')
    BY DEF Distinct, Listed
  <2>10. QED
    BY <1>1, <2>1, <2>2, <2>7, <2>8, <2>9 DEF ListInv
<1>7. QED
  BY <1>4, <1>5, <1>6 DEF StatusInv

(* An instance all of whose objects are read.                                *)
LEMMA InstanceKeeps ==
    ASSUME StatusInv, GetObject, Head(queue).objects = << >>
    PROVE  StatusInv'
<1>1. /\ UNCHANGED <<command, declared, wait, awaited, expires, live, read, scope, at, failed, told>>
      /\ command # "wait" /\ told = "begins" /\ queue # << >> /\ queue' = Tail(queue)
  BY DEF GetObject, StatusCommand
<1>2. queue \in Lists /\ Distinct(queue) /\ Tail(queue) \in Lists
  BY <1>1, TailOf DEF StatusInv, StatusTypes, ListInv, Lists
<1>3. Listed(queue') = Listed(queue) /\ Distinct(queue')
  BY <1>1, <1>2, NextInstance
<1>4. StatusTypes'
  BY <1>1, <1>2, StatusFrame DEF StatusInv, StatusTypes
<1>5. WaitInv'
  BY <1>1, StatusDoesNotWait DEF Waits
<1>6. ListInv'
  <2>1. \A c \in DOMAIN scope : /\ Missed(c)' <=> Missed(c)
                                /\ Listed(scope[c].instances)' = Listed(scope[c].instances)
    <3> SUFFICES ASSUME NEW c \in DOMAIN scope
                 PROVE  /\ Missed(c)' <=> Missed(c)
                        /\ Listed(scope[c].instances)' = Listed(scope[c].instances)
      OBVIOUS
    <3>1. Listed(scope[c].instances)' = Listed(scope[c].instances)
      BY <1>1 DEF Listed
    <3>2. Listed(queue)' = Listed(queue)
      BY <1>3 DEF Listed
    <3>3. QED
      BY <1>1, <3>1, <3>2 DEF Missed
  <2>2. /\ Distinct(queue)' <=> Distinct(queue')
        /\ Listed(queue)' = Listed(queue')
    BY DEF Distinct, Listed
  <2>3. QED
    BY <1>1, <1>3, <2>1, <2>2 DEF StatusInv, ListInv
<1>7. QED
  BY <1>4, <1>5, <1>6 DEF StatusInv

(* An object that is read, or missed: it is not read again.                  *)
LEMMA ObjectKeeps ==
    ASSUME StatusInv, GetObject, Head(queue).objects # << >>
    PROVE  StatusInv'
<1> DEFINE o == Head(queue[1].objects)
<1>1. /\ UNCHANGED <<command, declared, wait, awaited, expires, live, scope, at, told>>
      /\ command # "wait" /\ told = "begins" /\ queue # << >>
      /\ Head(queue) = queue[1]
  BY TailOf DEF GetObject, StatusCommand, StatusInv, StatusTypes, Lists
<1>2. /\ read' = [read EXCEPT ![o] = [phase |-> live[o].phase]]
      /\ failed' = (failed \/ live[o].phase \in {"absent", "unreadable"})
      /\ queue' = [queue EXCEPT ![1].objects = Tail(@)]
  BY <1>1 DEF GetObject
<1>3. queue \in Lists /\ Distinct(queue) /\ queue[1].objects # << >>
  BY <1>1 DEF StatusInv, StatusTypes, ListInv
<1>4. /\ queue' \in Lists /\ DOMAIN queue' = DOMAIN queue
      /\ queue'[1].objects = Tail(queue[1].objects)
      /\ \A i \in DOMAIN queue : i # 1 => queue'[i] = queue[i]
  BY <1>1, <1>2, <1>3, ObjectTaken
<1>5. /\ Distinct(queue') /\ o \in Objects /\ o \in Listed(queue)
      /\ Listed(queue') = Listed(queue) \ {o}
  BY <1>1, <1>3, <1>4, NextObject
<1> HIDE DEF o
<1>6. /\ live[o].phase \in Phases
      /\ read' \in [Objects -> {Unread} \cup State \cup [phase : Phases]]
      /\ read'[o] = [phase |-> live[o].phase]
      /\ \A p \in Objects : p # o => read'[p] = read[p]
  <2>1. live[o].phase \in Phases
    BY <1>5 DEF StatusInv, StatusTypes, State
  <2>2. [phase |-> live[o].phase] \in [phase : Phases]
    BY <2>1
  <2>3. read \in [Objects -> {Unread} \cup State \cup [phase : Phases]]
    BY DEF StatusInv, StatusTypes
  <2>4. QED
    BY <1>2, <1>5, <2>1, <2>2, <2>3
<1>7. Readable(read'[o]) <=> live[o].phase \notin {"absent", "unreadable"}
  BY <1>6 DEF Readable, Phases
<1>8. StatusTypes'
  <2>1. failed' \in BOOLEAN /\ at' \in Nat \ {0} /\ at' <= Len(scope) + 1 /\ told' = "begins"
    BY <1>1, <1>2 DEF StatusInv, StatusTypes
  <2>2. QED
    BY <1>1, <1>4, <1>6, <2>1, StatusFrame
<1>9. WaitInv'
  BY <1>1, StatusDoesNotWait DEF Waits
<1>10. ListInv'
  <2>1. \A c \in DOMAIN scope : Listed(scope[c].instances)' = Listed(scope[c].instances)
    BY <1>1 DEF Listed
  <2>2. /\ Distinct(queue)' <=> Distinct(queue')
        /\ Listed(queue)' = Listed(queue')
    BY DEF Distinct, Listed
  <2>3. \A p \in Listed(queue') : \E c \in DOMAIN scope : c < at /\ p \in Listed(scope[c].instances)
    BY <1>5 DEF StatusInv, ListInv
  <2>4. \E c \in DOMAIN scope : c < at /\ o \in Listed(scope[c].instances)
    BY <1>5 DEF StatusInv, ListInv
  <2>5. \A c \in DOMAIN scope : c < at =>
            (Missed(c)' <=> \/ Missed(c)
                            \/ o \in Listed(scope[c].instances) /\ ~Readable(read'[o]))
    <3> SUFFICES ASSUME NEW c \in DOMAIN scope
                 PROVE  Missed(c)' <=> \/ Missed(c)
                                       \/ o \in Listed(scope[c].instances) /\ ~Readable(read'[o])
      OBVIOUS
    <3>1. Missed(c)' <=> \/ scope[c].instances = << >>
                         \/ \E p \in Listed(scope[c].instances) \ Listed(queue') : ~Readable(read'[p])
      BY <1>1, <2>1, <2>2 DEF Missed, Readable
    <3>2. Listed(scope[c].instances) \subseteq Objects
      BY ScopeTyped, ListedObjects DEF StatusInv, StatusTypes
    <3>3. \A p \in Listed(scope[c].instances) : p # o => read'[p] = read[p]
      BY <1>6, <3>2
    <3>4. QED
      BY <1>5, <3>1, <3>3 DEF Missed
  <2>6. failed <=> \E c \in DOMAIN scope : c < at /\ Missed(c)
    BY DEF StatusInv, ListInv
  <2>7. failed' <=> \E c \in DOMAIN scope : c < at /\ Missed(c)'
    BY <1>2, <1>7, <2>4, <2>5, <2>6
  <2>8. QED
    BY <1>1, <1>5, <2>1, <2>2, <2>3, <2>7 DEF StatusInv, ListInv
<1>11. QED
  BY <1>8, <1>9, <1>10 DEF StatusInv

LEMMA StatusEndsKeeps ==
    ASSUME StatusInv, StatusEnds
    PROVE  StatusInv'
<1>1. /\ UNCHANGED <<command, declared, wait, awaited, expires, live, read, scope, at, queue, failed>>
      /\ command # "wait" /\ queue = << >> /\ at > Len(scope)
      /\ told' = IF command = "bundle status" /\ failed THEN "errors" ELSE "ok"
  BY DEF StatusEnds, StatusCommand, Tells
<1>2. StatusTypes'
  BY <1>1 DEF StatusInv, StatusTypes, Known
<1>3. WaitInv'
  BY <1>1, StatusDoesNotWait DEF Waits
<1>4. ListInv'
  BY <1>1 DEF StatusInv, ListInv, Missed
<1>5. QED
  BY <1>2, <1>3, <1>4 DEF StatusInv

LEMMA StatusNext ==
    ASSUME StatusInv, [Next]_vars
    PROVE  StatusInv'
<1>1. CASE Begin
  BY <1>1, BeginKeeps
<1>2. CASE \E o \in Objects : Poll(o)
  BY <1>2, PollKeeps
<1>3. CASE Timeout
  BY <1>3, TimeoutKeeps
<1>4. CASE NoClusterFound
  BY <1>4, ErrorKeeps DEF NoClusterFound, Tells
<1>5. CASE ListFails
  BY <1>5, ErrorKeeps DEF ListFails, AtCluster, Tells
<1>6. CASE List
  BY <1>6, ListKeeps
<1>7. CASE ListObjectsFails
  BY <1>7, ErrorKeeps DEF ListObjectsFails, Tells
<1>8. CASE GetObject
  BY <1>8, InstanceKeeps, ObjectKeeps
<1>9. CASE StatusEnds
  BY <1>9, StatusEndsKeeps
<1>10. CASE Changes
  BY <1>10, ChangesKeep
<1>11. CASE UNCHANGED vars
  <2>1. StatusTypes'
    BY <1>11 DEF vars, StatusInv, StatusTypes, Known
  <2>2. ListInv'
    BY <1>11 DEF vars, StatusInv, ListInv, Missed
  <2>3. WaitInv'
    <3>1. \A p : /\ IsReady(p, read[p])' <=> IsReady(p, read[p])
                 /\ HasFailed(p, read[p])' <=> HasFailed(p, read[p])
                 /\ Known(p, read[p])' <=> Known(p, read[p])
                 /\ BuiltinJob(p)' <=> BuiltinJob(p)
      BY <1>11 DEF vars, IsReady, HasFailed, Judged, Applies, Known, BuiltinJob
    <3>2. Refused(declared)' <=> Refused(declared)
      BY <1>11 DEF vars, Refused
    <3>3. Unsettled' <=> Unsettled
      BY <1>11, <3>1 DEF vars, Unsettled
    <3>4. QED
      BY <1>11, <3>1, <3>2, <3>3 DEF vars, StatusInv, WaitInv
  <2>4. QED
    BY <2>1, <2>2, <2>3 DEF StatusInv
<1>12. QED
  BY <1>1, <1>2, <1>3, <1>4, <1>5, <1>6, <1>7, <1>8, <1>9, <1>10, <1>11 DEF Next

--------------------------------------------------------------------------------
(* What follows from the invariant. *)

LEMMA InvSound == ASSUME StatusInv PROVE ObjectStatusSound
<1>1. told = "failed" => \E o \in awaited :
          HasFailed(o, read[o]) /\ (BuiltinJob(o) => ~Has(live[o], "Complete"))
  <2> SUFFICES ASSUME told = "failed"
               PROVE  \E o \in awaited :
                          HasFailed(o, read[o]) /\ (BuiltinJob(o) => ~Has(live[o], "Complete"))
    OBVIOUS
  <2>1. PICK o \in awaited : HasFailed(o, read[o]) /\ (BuiltinJob(o) => Has(live[o], "Failed"))
    BY DEF StatusInv, WaitInv
  <2>2. BuiltinJob(o) => EndsOnce(live[o])
    BY DEF StatusInv, StatusTypes, Known, BuiltinJob
  <2>3. QED
    BY <2>1, <2>2 DEF Has, EndsOnce
<1>2. ASSUME command = "bundle status", told \in {"ok", "errors"}
      PROVE  (told = "ok") = \A c \in DOMAIN scope :
                 /\ scope[c].instances # << >>
                 /\ \A o \in Listed(scope[c].instances) : Readable(read[o])
  <2>1. /\ queue = << >> /\ at > Len(scope) /\ (told = "ok" <=> ~failed)
        /\ failed <=> \E c \in DOMAIN scope : c < at /\ Missed(c)
    BY <1>2 DEF StatusInv, ListInv
  <2>2. \A c \in DOMAIN scope : c < at
    <3>1. scope \in Scopes \cup {<< >>} /\ at \in Nat
      BY DEF StatusInv, StatusTypes
    <3>2. Len(scope) \in Nat /\ DOMAIN scope = 1..Len(scope)
      BY <3>1, ScopeTyped
    <3>3. QED
      BY <2>1, <3>1, <3>2
  <2>3. \A c \in DOMAIN scope :
            Missed(c) <=> \/ scope[c].instances = << >>
                          \/ \E o \in Listed(scope[c].instances) : ~Readable(read[o])
    BY <2>1, NoneListed DEF Missed
  <2>4. QED
    BY <2>1, <2>2, <2>3
<1>3. QED
  BY <1>1, <1>2 DEF StatusInv, WaitInv, Unsettled, ObjectStatusSound, BuiltinJob

(* ObjectStatusSound: a wait reports readiness, failure and timeouts only    *)
(* for objects that are so, and `bundle status` succeeds only when it has    *)
(* read every object of every instance, for any objects that change at any   *)
(* time, any health checks, and any clusters.                                *)
THEOREM ObjectStatusHolds == Spec => []ObjectStatusSound
<1> QED
  BY StatusInit, StatusNext, InvSound, PTL DEF Spec

--------------------------------------------------------------------------------
(***************************************************************************)
(* Signing with cosign: it never waits for a pipe that nobody reads, its   *)
(* outcome is the one that is returned, and the goroutines end before the  *)
(* call, for pipes of any capacity and any output.                         *)
(***************************************************************************)

(* Goroutines exist from the start of the child on.                         *)
Started ==
    /\ main = "start" => child = "none"
    /\ child = "none" => main \in {"start", "failed"} /\ \A s \in Streams : reader[s] = "none"
    /\ child # "none" => closer # "none" /\ \A s \in Streams : reader[s] # "none"

(* A reader ends at the end of its pipe, or when it is closed under it.     *)
ReadersEnd == \A s \in Streams : reader[s] \in {"logged", "dropped"} => ~open[s] \/ AtEnd(s)

(* What the call has waited for stays so.                                   *)
Order ==
    child # "none" =>
        /\ main = "closed" \/ Returned => \A s \in Streams : reader[s] \in {"logged", "dropped"}
        /\ Returned => closer = "ended" /\ child # "running"

(* A pipe is closed by the timeout or by the call when it returns.          *)
ClosedWhen == \A s \in Streams : ~open[s] => expired \/ Returned

(* The lines that are in the pipes.                                         *)
Held == Len(pipe["stdout"]) + Len(pipe["stderr"])

(* No line is lost in an open pipe.                                         *)
Counted ==
    (\A s \in Streams : open[s]) => lines = counted + Held

(* A call that returns in time returns what cosign did, all of it read.     *)
Outcome ==
    /\ main = "signed" => child = "signed"
    /\ Returned /\ child # "none" /\ ~expired => counted = lines /\ (child = "signed" => main = "signed")

Inductive == TypeOK /\ Started /\ ReadersEnd /\ Order /\ ClosedWhen /\ Counted /\ Outcome
--------------------------------------------------------------------------------
(* Type correctness. *)

LEMMA TypeInit == CosignInit => TypeOK
<1>1. << >> \in Seq({"line", "long"})
    OBVIOUS
<1> SUFFICES ASSUME CosignInit PROVE TypeOK
    OBVIOUS
<1>2. pipe \in [Streams -> Seq({"line", "long"})]
    BY <1>1 DEF CosignInit
<1>3. open \in [Streams -> BOOLEAN]
    BY Zenon DEF CosignInit
<1> QED
    BY <1>2, <1>3 DEF CosignInit, TypeOK

LEMMA PipeTail ==
    ASSUME TypeOK, NEW s \in Streams, pipe[s] # << >>,
           pipe' = [pipe EXCEPT ![s] = Tail(@)]
    PROVE  /\ pipe' \in [Streams -> Seq({"line", "long"})]
           /\ Len(pipe'[s]) = Len(pipe[s]) - 1
           /\ \A t \in Streams \ {s} : pipe'[t] = pipe[t]
<1>1. pipe[s] \in Seq({"line", "long"})
    BY DEF TypeOK
<1>2. Tail(pipe[s]) \in Seq({"line", "long"}) /\ Len(Tail(pipe[s])) = Len(pipe[s]) - 1
    BY <1>1
<1> QED
    BY <1>2 DEF TypeOK

LEMMA PipeAppend ==
    ASSUME TypeOK, NEW s \in Streams, NEW text \in {"line", "long"},
           pipe' = [pipe EXCEPT ![s] = Append(@, text)]
    PROVE  /\ pipe' \in [Streams -> Seq({"line", "long"})]
           /\ Len(pipe'[s]) = Len(pipe[s]) + 1
           /\ \A t \in Streams \ {s} : pipe'[t] = pipe[t]
<1>1. pipe[s] \in Seq({"line", "long"})
    BY DEF TypeOK
<1>2. Append(pipe[s], text) \in Seq({"line", "long"}) /\ Len(Append(pipe[s], text)) = Len(pipe[s]) + 1
    BY <1>1
<1> QED
    BY <1>2 DEF TypeOK

LEMMA TypeNext == TypeOK /\ [CosignNext]_cosignVars => TypeOK'
<1> SUFFICES ASSUME TypeOK, [CosignNext]_cosignVars PROVE TypeOK'
    OBVIOUS
<1>1. ASSUME NEW s \in Streams, Write(s) PROVE TypeOK'
  <2>1. CASE open[s]
    <3>1. PICK text \in {"line", "long"} : pipe' = [pipe EXCEPT ![s] = Append(@, text)]
        BY <1>1, <2>1 DEF Write
    <3>2. pipe' \in [Streams -> Seq({"line", "long"})]
        BY <3>1, PipeAppend
    <3> QED
        BY <1>1, <2>1, <3>2 DEF Write, TypeOK, goroutines
  <2>2. CASE ~open[s]
    BY <1>1, <2>2 DEF Write, TypeOK, goroutines
  <2> QED
    BY <2>1, <2>2
<1>2. ASSUME NEW s \in Streams, Scan(s) PROVE TypeOK'
  <2>1. CASE open[s] /\ pipe[s] # << >> /\ pipe' = [pipe EXCEPT ![s] = Tail(@)]
    <3>1. pipe' \in [Streams -> Seq({"line", "long"})]
        BY <2>1, PipeTail
    <3>2. reader' \in [Streams -> {"none", "scan", "drain", "logged", "dropped"}]
        BY <1>2 DEF Scan, TypeOK
    <3>3. counted' \in Nat
        BY <1>2 DEF Scan, TypeOK
    <3>4. UNCHANGED <<process, open, closer, main, expired>>
        BY <1>2 DEF Scan
    <3> QED
        BY <3>1, <3>2, <3>3, <3>4 DEF TypeOK, process
  <2>2. CASE UNCHANGED <<pipe, counted>>
    <3>1. reader' \in [Streams -> {"none", "scan", "drain", "logged", "dropped"}]
        BY <1>2 DEF Scan, TypeOK
    <3>2. UNCHANGED <<process, open, closer, main, expired>>
        BY <1>2 DEF Scan
    <3> QED
        BY <2>2, <3>1, <3>2 DEF TypeOK, process
  <2> QED
    BY <1>2, <2>1, <2>2 DEF Scan
<1>3. ASSUME NEW s \in Streams, Drain(s) PROVE TypeOK'
  <2>1. CASE open[s] /\ pipe[s] # << >> /\ pipe' = [pipe EXCEPT ![s] = Tail(@)]
    <3>1. pipe' \in [Streams -> Seq({"line", "long"})]
        BY <2>1, PipeTail
    <3>2. reader' \in [Streams -> {"none", "scan", "drain", "logged", "dropped"}]
        BY <1>3 DEF Drain, TypeOK
    <3>3. counted' \in Nat
        BY <1>3 DEF Drain, TypeOK
    <3>4. UNCHANGED <<process, open, closer, main, expired>>
        BY <1>3 DEF Drain
    <3> QED
        BY <3>1, <3>2, <3>3, <3>4 DEF TypeOK, process
  <2>2. CASE UNCHANGED <<pipe, counted>>
    <3>1. reader' \in [Streams -> {"none", "scan", "drain", "logged", "dropped"}]
        BY <1>3 DEF Drain, TypeOK
    <3>2. UNCHANGED <<process, open, closer, main, expired>>
        BY <1>3 DEF Drain
    <3> QED
        BY <2>2, <3>1, <3>2 DEF TypeOK, process
  <2> QED
    BY <1>3, <2>1, <2>2 DEF Drain
<1>4. CASE StartHelper \/ Exit \/ HelperExits \/ Kill \/ Expire
    BY <1>4 DEF StartHelper, Exit, HelperExits, Kill, Expire, TypeOK, goroutines, process
<1>5. CASE Start
    BY <1>5 DEF Start, TypeOK
<1>6. CASE ClosePipes \/ Stopped \/ StopClosing \/ Wait
    BY <1>6 DEF ClosePipes, Stopped, StopClosing, Wait, TypeOK, process
<1>7. CASE UNCHANGED cosignVars
    BY <1>7 DEF TypeOK, cosignVars
<1> QED
    BY <1>1, <1>2, <1>3, <1>4, <1>5, <1>6, <1>7 DEF CosignNext, Cosign, Goroutine, Quiet

(* The state of the child, of its pipes and of the command keeps its type.   *)
THEOREM CosignTypeCorrect == CosignSpec => []TypeOK
<1> QED
    BY TypeInit, TypeNext, PTL DEF CosignSpec

--------------------------------------------------------------------------------
(* The inductive invariant. *)

Facts == Started /\ ReadersEnd /\ Order /\ ClosedWhen /\ Counted /\ Outcome

LEMMA InductiveInit == CosignInit => Inductive
<1> SUFFICES ASSUME CosignInit PROVE Inductive
    OBVIOUS
<1>1. Held = 0
    BY DEF CosignInit, Streams, Held
<1>2. Started /\ ReadersEnd /\ Order /\ Outcome
    BY DEF CosignInit, Started, ReadersEnd, Order, Outcome, Returned
<1>3. ClosedWhen
    BY DEF CosignInit, ClosedWhen
<1>4. Counted
    BY <1>1 DEF CosignInit, Counted
<1>5. TypeOK
    BY TypeInit
<1> QED
    BY <1>2, <1>3, <1>4, <1>5 DEF Inductive

LEMMA HeldChanges ==
    ASSUME TypeOK, NEW s \in Streams, NEW d \in Int,
           Len(pipe'[s]) = Len(pipe[s]) + d, \A t \in Streams \ {s} : pipe'[t] = pipe[t]
    PROVE  Held \in Nat /\ Held' = Held + d
<1>1. pipe["stdout"] \in Seq({"line", "long"}) /\ pipe["stderr"] \in Seq({"line", "long"})
    BY DEF TypeOK, Streams
<1>2. PICK a \in Nat : a = Len(pipe["stdout"])
    BY <1>1
<1>3. PICK b \in Nat : b = Len(pipe["stderr"])
    BY <1>1
<1>4. Held = a + b
    BY <1>2, <1>3 DEF Held
<1>5. CASE s = "stdout"
  <2>1. Len(pipe'["stdout"]) = a + d /\ Len(pipe'["stderr"]) = b
      BY <1>2, <1>3, <1>5 DEF Streams
  <2>2. Held' = (a + d) + b
      BY <2>1, Zenon DEF Held
  <2> QED
      BY <1>4, <2>2
<1>6. CASE s = "stderr"
  <2>1. Len(pipe'["stdout"]) = a /\ Len(pipe'["stderr"]) = b + d
      BY <1>2, <1>3, <1>6 DEF Streams
  <2>2. Held' = a + (b + d)
      BY <2>1, Zenon DEF Held
  <2> QED
      BY <1>4, <2>2
<1> QED
    BY <1>5, <1>6 DEF Streams

(* The child writes a line to a pipe that is read, or ends on a closed one.  *)
LEMMA WriteKeeps ==
    ASSUME Inductive, NEW s \in Streams, Write(s) PROVE Facts'
<1> USE DEF Inductive
<1>1. UNCHANGED <<helper, open, reader, closer, main, expired, counted>> /\ child = "running"
    BY DEF Write, goroutines
<1>2. ~Returned /\ \A t \in Streams : ~AtEnd(t)
    BY <1>1 DEF Order, AtEnd
<1>3. CASE open[s]
  <2>1. PICK text \in {"line", "long"} : pipe' = [pipe EXCEPT ![s] = Append(@, text)]
      BY <1>3 DEF Write
  <2>2. lines' = lines + 1 /\ child' = child
      BY <1>3 DEF Write
  <2>3. Len(pipe'[s]) = Len(pipe[s]) + 1 /\ \A t \in Streams \ {s} : pipe'[t] = pipe[t]
      BY <2>1, PipeAppend
  <2>4. Counted'
    <3>1. Held \in Nat /\ Held' = Held + 1
        BY <2>3, HeldChanges
    <3>2. lines \in Nat /\ counted \in Nat
        BY DEF TypeOK
    <3> QED
        BY <1>1, <2>2, <3>1, <3>2 DEF Counted
  <2> QED
      BY <1>1, <1>2, <2>2, <2>4 DEF Facts, Started, ReadersEnd, Order, ClosedWhen, Outcome, AtEnd, Returned
<1>4. CASE ~open[s]
  <2>1. child' = "failed" /\ UNCHANGED pipe
      BY <1>4 DEF Write
  <2> QED
      BY <1>1, <1>2, <1>4, <2>1 DEF Facts, Started, ReadersEnd, Order, ClosedWhen, Counted, Outcome, AtEnd, Returned
<1> QED
    BY <1>3, <1>4

(* A reader takes a line, or ends at the end of its pipe.                    *)
LEMMA ReadKeeps ==
    ASSUME Inductive, NEW s \in Streams, Scan(s) \/ Drain(s) PROVE Facts'
<1> USE DEF Inductive
<1>1. UNCHANGED <<child, helper, lines, open, closer, main, expired>>
    BY DEF Scan, Drain, process
<1>2. Reads(s) /\ (child # "none" => main = "outputs")
    BY DEF Scan, Drain, Reads, Order, Started, Returned, TypeOK
<1>3. reader' \in [Streams -> {"scan", "drain", "logged", "dropped"}]
         /\ \A t \in Streams \ {s} : reader'[t] = reader[t]
  <2>1. child # "none" /\ \A t \in Streams : reader[t] \in {"scan", "drain", "logged", "dropped"}
      BY <1>2 DEF Started, Reads, TypeOK
  <2>2. CASE Scan(s)
      BY <2>1, <2>2 DEF Scan, TypeOK
  <2>3. CASE Drain(s)
      BY <2>1, <2>3 DEF Drain, TypeOK
  <2> QED
      BY <2>2, <2>3
<1>4. child # "none" /\ main = "outputs" /\ ~Returned
    BY <1>2 DEF Started, Reads, Returned
<1>5. CASE (~open[s] \/ AtEnd(s)) /\ UNCHANGED <<pipe, counted>>
    BY <1>1, <1>3, <1>4, <1>5
    DEF Facts, Started, ReadersEnd, Order, ClosedWhen, Counted, Outcome, AtEnd, Returned, Held
<1>6. CASE /\ open[s] /\ pipe[s] # << >> /\ pipe' = [pipe EXCEPT ![s] = Tail(@)]
           /\ counted' = counted + 1 /\ reader'[s] \in {"scan", "drain"}
  <2>1. Len(pipe'[s]) = Len(pipe[s]) - 1 /\ \A t \in Streams \ {s} : pipe'[t] = pipe[t]
      BY <1>6, PipeTail
  <2>2. Counted'
    <3>1. Held \in Nat /\ Held' = Held - 1
      <4>1. pipe[s] \in Seq({"line", "long"})
          BY DEF TypeOK
      <4>2. PICK d \in Int : d = 0 - 1
          OBVIOUS
      <4>3. Len(pipe'[s]) = Len(pipe[s]) + d
          BY <2>1, <4>1, <4>2
      <4>4. Held \in Nat /\ Held' = Held + d
          BY <2>1, <4>3, HeldChanges
      <4> QED
          BY <4>2, <4>4
    <3>2. lines \in Nat /\ counted \in Nat
        BY DEF TypeOK
    <3> QED
        BY <1>1, <1>6, <3>1, <3>2 DEF Counted
  <2>3. ReadersEnd'
      BY <1>1, <1>3, <1>6, <2>1 DEF ReadersEnd, AtEnd
  <2> QED
      BY <1>1, <1>3, <1>4, <2>2, <2>3 DEF Facts, Started, Order, ClosedWhen, Outcome, Returned
<1>7. CASE Scan(s)
    BY <1>5, <1>6, <1>7 DEF Scan, TypeOK
<1>8. CASE Drain(s)
    BY <1>5, <1>6, <1>8 DEF Drain
<1> QED
    BY <1>7, <1>8

(* The child, its helper and the clock: what has ended stays so.             *)
LEMMA ChildKeeps ==
    ASSUME Inductive, StartHelper \/ Exit \/ HelperExits \/ Kill \/ Expire PROVE Facts'
<1> USE DEF Inductive
<1>1. CASE StartHelper \/ Exit \/ Kill
  <2>1. UNCHANGED <<pipe, open, reader, closer, main, expired, lines, counted>>
      BY <1>1 DEF StartHelper, Exit, Kill, goroutines
  <2>2. child = "running" /\ child' # "none" /\ (child' = "running" \/ ~helper' \/ helper' = helper)
      BY <1>1 DEF StartHelper, Exit, Kill
  <2>3. ~Returned /\ \A t \in Streams : ~AtEnd(t)
      BY <2>2 DEF Order, AtEnd
  <2> QED
      BY <2>1, <2>2, <2>3
      DEF Facts, Started, ReadersEnd, Order, ClosedWhen, Counted, Outcome, AtEnd, Returned, Held
<1>2. CASE HelperExits
    BY <1>2 DEF HelperExits, goroutines,
       Facts, Started, ReadersEnd, Order, ClosedWhen, Counted, Outcome, AtEnd, Returned, Held
<1>3. CASE Expire
    BY <1>3 DEF Expire, process, goroutines,
       Facts, Started, ReadersEnd, Order, ClosedWhen, Counted, Outcome, AtEnd, Returned, Held
<1> QED
    BY <1>1, <1>2, <1>3

(* The call starts the child and its readers, or nothing.                    *)
LEMMA StartKeeps == ASSUME Inductive, Start PROVE Facts'
<1> USE DEF Inductive
<1>1. main = "start" /\ child = "none" /\ UNCHANGED <<helper, pipe, open, expired, lines, counted>>
    BY DEF Start, Started
<1>2. CASE main' = "failed" /\ UNCHANGED <<child, reader, closer>>
    BY <1>1, <1>2
    DEF Facts, Started, ReadersEnd, Order, ClosedWhen, Counted, Outcome, AtEnd, Returned, Held
<1>3. CASE /\ main' = "outputs" /\ child' = "running" /\ closer' = "select"
           /\ reader' = [s \in Streams |-> "scan"]
    BY <1>1, <1>3
    DEF Facts, Started, ReadersEnd, Order, ClosedWhen, Counted, Outcome, AtEnd, Returned, Held
<1> QED
    BY <1>2, <1>3 DEF Start

(* The end of the call: the outputs, the third goroutine, the child.         *)
LEMMA EndKeeps ==
    ASSUME Inductive, ClosePipes \/ Stopped \/ StopClosing \/ Wait PROVE Facts'
<1> USE DEF Inductive
<1>1. CASE ClosePipes
  <2>1. /\ expired /\ closer' = "ended" /\ \A s \in Streams : open'[s] = FALSE
        /\ UNCHANGED <<child, helper, lines, pipe, reader, main, expired, counted>>
      BY <1>1 DEF ClosePipes, process
  <2>2. \E s \in Streams : ~open'[s]
      BY <2>1 DEF Streams
  <2> QED
      BY <2>1, <2>2
      DEF Facts, Started, ReadersEnd, Order, ClosedWhen, Counted, Outcome, AtEnd, Returned, Held
<1>2. CASE Stopped
    BY <1>2 DEF Stopped, process,
       Facts, Started, ReadersEnd, Order, ClosedWhen, Counted, Outcome, AtEnd, Returned, Held
<1>3. CASE StopClosing
    BY <1>3 DEF StopClosing, process,
       Facts, Started, ReadersEnd, Order, ClosedWhen, Counted, Outcome, AtEnd, Returned, Held
<1>4. CASE Wait
  <2>1. /\ main = "closed" /\ closer = "ended" /\ child # "running"
        /\ main' \in {"signed", "failed"} /\ (main' = "signed" => child = "signed")
        /\ ~expired => (child = "signed" => main' = "signed")
        /\ \A s \in Streams : open'[s] = FALSE
        /\ UNCHANGED <<child, helper, lines, pipe, reader, closer, expired, counted>>
      BY <1>4 DEF Wait, process
  <2>2. child # "none" /\ \A s \in Streams : reader[s] \in {"logged", "dropped"}
      BY <2>1 DEF Started, Order
  <2>3. ASSUME ~expired PROVE counted = lines
    <3>1. \A s \in Streams : open[s] /\ pipe[s] = << >>
        BY <2>1, <2>2, <2>3 DEF ClosedWhen, ReadersEnd, AtEnd, Returned, TypeOK
    <3>2. pipe["stdout"] = << >> /\ pipe["stderr"] = << >>
        BY <3>1 DEF Streams
    <3>3. Len(pipe["stdout"]) = 0 /\ Len(pipe["stderr"]) = 0
        BY <3>2
    <3>4. Held = 0
        BY <3>3 DEF Held
    <3> QED
        BY <3>1, <3>4 DEF Counted, TypeOK
  <2>4. \E s \in Streams : ~open'[s]
      BY <2>1 DEF Streams
  <2>5. Outcome'
      BY <2>1, <2>3 DEF Outcome, Returned
  <2> QED
      BY <2>1, <2>2, <2>4, <2>5
      DEF Facts, Started, ReadersEnd, Order, ClosedWhen, Counted, AtEnd, Returned
<1> QED
    BY <1>1, <1>2, <1>3, <1>4

LEMMA InductiveNext == Inductive /\ [CosignNext]_cosignVars => Inductive'
<1> SUFFICES ASSUME Inductive, [CosignNext]_cosignVars PROVE Inductive'
    OBVIOUS
<1>1. TypeOK'
    BY TypeNext DEF Inductive
<1>2. ASSUME Cosign \/ Kill \/ Expire PROVE Facts'
    BY <1>2, WriteKeeps, ChildKeeps DEF Cosign
<1>3. ASSUME Goroutine PROVE Facts'
    BY <1>3, StartKeeps, EndKeeps, ReadKeeps DEF Goroutine
<1>4. ASSUME UNCHANGED cosignVars PROVE Facts'
    BY <1>4 DEF cosignVars, Inductive,
       Facts, Started, ReadersEnd, Order, ClosedWhen, Counted, Outcome, AtEnd, Returned, Held
<1>5. Facts'
    BY <1>2, <1>3, <1>4 DEF CosignNext, Quiet
<1> QED
    BY <1>1, <1>5 DEF Facts, Inductive

(* The invariant holds in every state of the specification.                  *)
THEOREM CosignInvariant == CosignSpec => []Inductive
<1> QED
    BY InductiveInit, InductiveNext, PTL DEF CosignSpec

--------------------------------------------------------------------------------
(* What follows from it. *)

(* NobodyWaits: while the child runs, a pipe that is open has a reader, for  *)
(* a pipe of any capacity.                                                   *)
THEOREM CosignNeverWaits == CosignSpec => []NobodyWaits
<1>1. Inductive => NobodyWaits
    BY DEF Inductive, NobodyWaits, TypeOK, Started, ReadersEnd, AtEnd, Reads
<1> QED
    BY <1>1, CosignInvariant, PTL

(* OutcomeOfCosign: processCosignIO never returns a failure as success, and  *)
(* without a timeout it has read all the output and returns what cosign did. *)
THEOREM CosignOutcomeReturned == CosignSpec => []OutcomeOfCosign
<1>1. Inductive => OutcomeOfCosign
    BY DEF Inductive, OutcomeOfCosign, Outcome
<1> QED
    BY <1>1, CosignInvariant, PTL

(* NothingLeft: when processCosignIO returns, its goroutines have ended.     *)
THEOREM CosignLeavesNothing == CosignSpec => []NothingLeft
<1>1. Inductive => NothingLeft
    BY DEF Inductive, NothingLeft, Order, Reads
<1> QED
    BY <1>1, CosignInvariant, PTL

(* CosignSound: the three together, for any capacity and any output.         *)
THEOREM CosignSoundHolds == CosignSpec => []CosignSound
<1> QED
    BY CosignNeverWaits, CosignOutcomeReturned, CosignLeavesNothing, PTL DEF CosignSound

================================================================================
