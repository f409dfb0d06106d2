-------------------------- MODULE TenantToolsProofs --------------------------
(***************************************************************************)
(* Theorems about TenantTools for every set of tenants, hostnames and      *)
(* operators: the types, that one onboarding that runs through by itself   *)
(* repairs the files and the tenant's realm, and that a realm never has    *)
(* more user storage providers than there are operators.                   *)
(***************************************************************************)
EXTENDS TenantTools, FiniteSetTheorems, TLAPS

Onboards(o)  == script[o].kind = "onboard"
Offboards(o) == script[o].kind = "offboard"

\* What a script was started with.
ScriptsOK ==
    \A o \in Operators :
        /\ script[o].kind \in {"onboard", "assess"} =>
               script[o].tenant \in Tenants /\ script[o].hostname \in Hostnames
        /\ Offboards(o) => script[o].tenant \in Tenants /\ script[o].hostname = NULL
        /\ script[o].kind = "publish" => script[o].view \in Map

TypeInv == TypeOK /\ ScriptsOK

-----------------------------------------------------------------------------
\* The commands of the four scripts.
LEMMA CommandTable ==
    /\ DOMAIN Commands["onboard"] = 1..8 /\ Len(Commands["onboard"]) = 8
    /\ DOMAIN Commands["offboard"] = 1..4 /\ Len(Commands["offboard"]) = 4
    /\ DOMAIN Commands["assess"] = 1..1 /\ Len(Commands["assess"]) = 1
    /\ DOMAIN Commands["publish"] = 1..3 /\ Len(Commands["publish"]) = 3
BY DEF Commands

LEMMA CommandNames ==
    /\ Commands["onboard"][1] = "client"
    /\ Commands["onboard"][2] = "mappers"
    /\ Commands["onboard"][3] = "provider"
    /\ Commands["onboard"][4] = "upsert"
    /\ Commands["onboard"][5] = "policies"
    /\ Commands["onboard"][6] = "auth"
    /\ Commands["onboard"][7] = "envoy"
    /\ Commands["onboard"][8] = "restart"
    /\ Commands["offboard"][1] = "delete"
    /\ Commands["offboard"][2] = "policies"
    /\ Commands["offboard"][3] = "envoy"
    /\ Commands["offboard"][4] = "restart"
    /\ Commands["assess"][1] = "starter"
    /\ Commands["publish"][1] = "auth"
    /\ Commands["publish"][2] = "policies"
    /\ Commands["publish"][3] = "envoy"
BY DEF Commands

\* Where a script is that is at one of its commands.
LEMMA CommandSteps ==
    ASSUME TypeOK, NEW o \in Operators, Running(o)
    PROVE  /\ script[o].kind \in Kinds
           /\ script[o].step \in 1..8
           /\ Onboards(o) =>
                  \/ script[o].step = 1 /\ Command(o) = "client"
                  \/ script[o].step = 2 /\ Command(o) = "mappers"
                  \/ script[o].step = 3 /\ Command(o) = "provider"
                  \/ script[o].step = 4 /\ Command(o) = "upsert"
                  \/ script[o].step = 5 /\ Command(o) = "policies"
                  \/ script[o].step = 6 /\ Command(o) = "auth"
                  \/ script[o].step = 7 /\ Command(o) = "envoy"
                  \/ script[o].step = 8 /\ Command(o) = "restart"
           /\ Offboards(o) =>
                  \/ script[o].step = 1 /\ Command(o) = "delete"
                  \/ script[o].step = 2 /\ Command(o) = "policies"
                  \/ script[o].step = 3 /\ Command(o) = "envoy"
                  \/ script[o].step = 4 /\ Command(o) = "restart"
           /\ script[o].kind = "assess" =>
                  script[o].step = 1 /\ Command(o) = "starter"
           /\ script[o].kind = "publish" =>
                  \/ script[o].step = 1 /\ Command(o) = "auth"
                  \/ script[o].step = 2 /\ Command(o) = "policies"
                  \/ script[o].step = 3 /\ Command(o) = "envoy"
<1>1. script[o] \in Script /\ script[o].step \in DOMAIN Commands[script[o].kind]
  BY DEF TypeOK
<1>2. script[o].kind \in Kinds
  BY <1>1 DEF Script, Running
<1>3. script[o].step \in 1..8
  BY <1>1, <1>2, CommandTable DEF Kinds
<1>. QED
  BY <1>1, <1>2, <1>3, CommandTable, CommandNames
     DEF Kinds, Command, Onboards, Offboards

LEMMA LastSteps ==
    ASSUME TypeOK, NEW o \in Operators, Running(o)
    PROVE  /\ Onboards(o) => (Last(o) <=> script[o].step = 8)
           /\ Offboards(o) => (Last(o) <=> script[o].step = 4)
           /\ script[o].kind = "assess" => Last(o)
           /\ script[o].kind = "publish" => (Last(o) <=> script[o].step = 3)
           /\ ~Last(o) => script[o].step + 1 \in DOMAIN Commands[script[o].kind]
<1>1. /\ script[o].kind \in Kinds
      /\ script[o].step \in Nat
      /\ script[o].step \in DOMAIN Commands[script[o].kind]
  BY DEF TypeOK, Script, Running
<1>2. ASSUME NEW n \in Nat,
             DOMAIN Commands[script[o].kind] = 1..n,
             Len(Commands[script[o].kind]) = n
      PROVE  /\ Last(o) <=> script[o].step = n
             /\ ~Last(o) => script[o].step + 1 \in DOMAIN Commands[script[o].kind]
  BY <1>1, <1>2 DEF Last
<1>3. CASE Onboards(o)
  BY <1>2, <1>3, CommandTable DEF Onboards, Offboards
<1>4. CASE Offboards(o)
  BY <1>2, <1>4, CommandTable DEF Onboards, Offboards
<1>5. CASE script[o].kind = "assess"
  BY <1>1, <1>2, <1>5, CommandTable DEF Onboards, Offboards
<1>6. CASE script[o].kind = "publish"
  BY <1>2, <1>6, CommandTable DEF Onboards, Offboards
<1>. QED  BY <1>1, <1>3, <1>4, <1>5, <1>6 DEF Onboards, Offboards, Kinds

-----------------------------------------------------------------------------
(* What the steps make of the scripts.                                     *)

\* The scripts of the other operators.
OthersKeep(o) == \A p \in Operators \ {o} : script'[p] = script[p]

\* The script goes on to the next command with nothing found and nothing read.
GoesOn(o) ==
    /\ script' \in [Operators -> Script]
    /\ script'[o].kind = script[o].kind
    /\ script'[o].tenant = script[o].tenant
    /\ script'[o].hostname = script[o].hostname
    /\ script'[o].secret = script[o].secret
    /\ script'[o].alone = script[o].alone
    /\ script'[o].step = script[o].step + 1
    /\ script'[o].found = NULL
    /\ OthersKeep(o)

\* It is still at its command.
StaysAt(o) ==
    /\ script' \in [Operators -> Script]
    /\ script'[o].kind = script[o].kind
    /\ script'[o].tenant = script[o].tenant
    /\ script'[o].hostname = script[o].hostname
    /\ script'[o].secret = script[o].secret
    /\ script'[o].alone = script[o].alone
    /\ script'[o].step = script[o].step
    /\ OthersKeep(o)

\* A script starts; the others are not alone any more.
Starts(o, kind, t, h, view) ==
    /\ script' \in [Operators -> Script]
    /\ script'[o].kind = kind
    /\ script'[o].tenant = t
    /\ script'[o].hostname = h
    /\ script'[o].view = view
    /\ script'[o].found = NULL
    /\ script'[o].step = 1
    /\ script'[o].alone = Quiet
    /\ \A p \in Operators \ {o} :
           /\ script'[p].kind = script[p].kind
           /\ script'[p].tenant = script[p].tenant
           /\ script'[p].hostname = script[p].hostname
           /\ script'[p].secret = script[p].secret
           /\ script'[p].step = script[p].step
           /\ script'[p].found = script[p].found
           /\ script'[p].view = script[p].view
           /\ script'[p].alone = FALSE

\* It is over.
Ends(o) ==
    /\ script' \in [Operators -> Script]
    /\ script'[o] = NoScript
    /\ OthersKeep(o)

LEMMA NoScriptType ==
    /\ NoScript \in Script
    /\ NoScript.kind = NULL
    /\ NoScript.alone = FALSE
<1>1. NoScript \in Script
  BY DEF NoScript, Script
<1>. QED  BY <1>1 DEF NoScript

LEMMA NoKind == \A k \in Kinds : k # NULL
BY NullAssumption

LEMMA AdvanceDoes ==
    ASSUME TypeOK, NEW o \in Operators, Running(o), Advance(o)
    PROVE  \/ /\ ~Last(o)
              /\ GoesOn(o)
              /\ script'[o].view = NULL
              /\ UNCHANGED <<dirty, begun>>
           \/ /\ Last(o)
              /\ Ends(o)
              /\ \/ /\ Onboards(o) /\ script[o].alone
                    /\ dirty' = FALSE
                    /\ begun' = begun \ {script[o].tenant}
                 \/ /\ ~(Onboards(o) /\ script[o].alone)
                    /\ UNCHANGED <<dirty, begun>>
<1>1. script[o] \in Script
  BY DEF TypeOK
<1>2. CASE Last(o)
  <2>1. script' = [script EXCEPT ![o] = NoScript]
    BY <1>2 DEF Advance, RunsThrough
  <2>2. Ends(o)
    BY <2>1, NoScriptType DEF Ends, OthersKeep, TypeOK
  <2>3. CASE Onboards(o) /\ script[o].alone
    BY <1>2, <2>2, <2>3 DEF Advance, RunsThrough, Repairs, Onboards
  <2>4. CASE ~(Onboards(o) /\ script[o].alone)
    <3>1. dirty' = dirty /\ begun' = begun
      BY <1>2, <2>4, Zenon DEF Advance, RunsThrough, Repairs, Onboards, TypeOK
    <3>. QED  BY <1>2, <2>2, <2>4, <3>1
  <2>. QED  BY <2>3, <2>4
<1>3. CASE ~Last(o)
  <2>1. script' = [script EXCEPT ![o].step = @ + 1, ![o].found = NULL, ![o].view = NULL]
    BY <1>3 DEF Advance
  <2>2. script[o].step + 1 \in Nat
    BY <1>1 DEF Script
  <2>3. script' = [script EXCEPT ![o] =
            [script[o] EXCEPT !.step = @ + 1, !.found = NULL, !.view = NULL]]
    BY <1>1, <2>1, Zenon DEF TypeOK
  <2>4. [script[o] EXCEPT !.step = @ + 1, !.found = NULL, !.view = NULL] \in Script
    BY <1>1, <2>2, Zenon DEF Script
  <2>5. GoesOn(o) /\ script'[o].view = NULL
    BY <1>1, <2>3, <2>4, Zenon DEF GoesOn, OthersKeep, TypeOK, Script
  <2>. QED  BY <1>3, <2>5 DEF Advance
<1>. QED  BY <1>2, <1>3

LEMMA AbortDoes ==
    ASSUME TypeOK, NEW o \in Operators, Abort(o)
    PROVE  Ends(o) /\ dirty' = TRUE /\ UNCHANGED begun
BY NoScriptType DEF Abort, Ends, OthersKeep, TypeOK

LEMMA StartDoes ==
    ASSUME TypeOK, NEW o \in Operators, NEW kind \in Kinds,
           NEW t \in Tenants \cup {NULL}, NEW h \in Hostnames \cup {NULL},
           NEW view \in Map \cup {NULL},
           Start(o, kind, t, h, view)
    PROVE  Starts(o, kind, t, h, view)
<1> DEFINE s == IF kind = "onboard" THEN runs' ELSE 0
           q == Quiet
           new == [NoScript EXCEPT !.kind = kind, !.tenant = t, !.hostname = h,
                                   !.secret = s, !.view = view, !.alone = q]
           old(p) == [script[p] EXCEPT !.alone = FALSE]
<1>1. script' = [p \in Operators |-> IF p = o THEN new ELSE old(p)]
  BY DEF Start
<1>2. s \in Nat /\ q \in BOOLEAN
  <2>1. s \in Nat
    BY BoundsAssumption DEF Start, TypeOK
  <2>2. q \in BOOLEAN
    BY DEF Quiet
  <2>. QED  BY <2>1, <2>2
<1>. HIDE DEF s, q
<1>3. new \in Script
  BY <1>2, Zenon DEF NoScript, Script
<1>4. /\ new.kind = kind /\ new.tenant = t /\ new.hostname = h
      /\ new.view = view /\ new.found = NULL /\ new.step = 1
      /\ new.alone = q
  BY <1>2, Zenon DEF NoScript
<1>5. ASSUME NEW p \in Operators
      PROVE  /\ old(p) \in Script
             /\ old(p).kind = script[p].kind
             /\ old(p).tenant = script[p].tenant
             /\ old(p).hostname = script[p].hostname
             /\ old(p).secret = script[p].secret
             /\ old(p).step = script[p].step
             /\ old(p).found = script[p].found
             /\ old(p).view = script[p].view
             /\ old(p).alone = FALSE
  <2>1. script[p] \in Script
    BY DEF TypeOK
  <2>2. old(p) \in Script
    BY <2>1, Zenon DEF Script
  <2>. QED  BY <2>1, <2>2, Zenon DEF Script
<1>. HIDE DEF new, old
<1>6. script' \in [Operators -> Script] /\ script'[o] = new
  BY <1>1, <1>3, <1>5
<1>7. \A p \in Operators \ {o} : script'[p] = old(p)
  BY <1>1
<1>8. script'[o].alone = Quiet
  BY <1>4, <1>6, Zenon DEF q
<1>9. /\ script'[o].kind = kind
      /\ script'[o].tenant = t
      /\ script'[o].hostname = h
      /\ script'[o].view = view
      /\ script'[o].found = NULL
      /\ script'[o].step = 1
  BY <1>4, <1>6
<1>10. ASSUME NEW p \in Operators \ {o}
       PROVE  /\ script'[p].kind = script[p].kind
              /\ script'[p].tenant = script[p].tenant
              /\ script'[p].hostname = script[p].hostname
              /\ script'[p].secret = script[p].secret
              /\ script'[p].step = script[p].step
              /\ script'[p].found = script[p].found
              /\ script'[p].view = script[p].view
              /\ script'[p].alone = FALSE
  BY <1>5, <1>7, Zenon
<1>. QED  BY <1>6, <1>8, <1>9, <1>10, Zenon DEF Starts

\* A step within a command: something has been found,
LEMMA FoundDoes ==
    ASSUME TypeOK, NEW o \in Operators, NEW n \in Nat,
           script' = [script EXCEPT ![o].found = n]
    PROVE  /\ StaysAt(o)
           /\ script'[o].found = n
           /\ script'[o].view = script[o].view
<1>1. script[o] \in Script
  BY DEF TypeOK
<1>2. script' = [script EXCEPT ![o] = [script[o] EXCEPT !.found = n]]
  BY <1>1, Zenon DEF TypeOK
<1>3. [script[o] EXCEPT !.found = n] \in Script
  BY <1>1, Zenon DEF Script
<1>. QED
  BY <1>1, <1>2, <1>3, Zenon DEF StaysAt, OthersKeep, TypeOK, Script

\* or the configs have been read,
LEMMA ViewDoes ==
    ASSUME TypeOK, NEW o \in Operators, NEW m \in Map,
           script' = [script EXCEPT ![o].view = m]
    PROVE  /\ StaysAt(o)
           /\ script'[o].found = script[o].found
           /\ script'[o].view = m
<1>1. script[o] \in Script
  BY DEF TypeOK
<1>2. script' = [script EXCEPT ![o] = [script[o] EXCEPT !.view = m]]
  BY <1>1, Zenon DEF TypeOK
<1>3. [script[o] EXCEPT !.view = m] \in Script
  BY <1>1, Zenon DEF Script
<1>. QED
  BY <1>1, <1>2, <1>3, Zenon DEF StaysAt, OthersKeep, TypeOK, Script

\* or a publication has written a file.
LEMMA StepDoes ==
    ASSUME TypeOK, NEW o \in Operators, script[o].kind = "publish",
           script' = [script EXCEPT ![o].step = @ + 1]
    PROVE  /\ script' \in [Operators -> Script]
           /\ script'[o].kind = "publish"
           /\ script'[o].tenant = script[o].tenant
           /\ script'[o].alone = script[o].alone
           /\ script'[o].step = script[o].step + 1
           /\ script'[o].view = script[o].view
           /\ OthersKeep(o)
<1>1. script[o] \in Script
  BY DEF TypeOK
<1>2. script[o].step + 1 \in Nat
  BY <1>1 DEF Script
<1>3. script' = [script EXCEPT ![o] = [script[o] EXCEPT !.step = @ + 1]]
  BY <1>1, Zenon DEF TypeOK
<1>4. [script[o] EXCEPT !.step = @ + 1] \in Script
  BY <1>1, <1>2, Zenon DEF Script
<1>. QED
  BY <1>1, <1>3, <1>4, Zenon DEF OthersKeep, TypeOK, Script

\* What is put into a realm.
LEMMA PutDoes ==
    ASSUME TypeOK, NEW o \in Operators, NEW t \in Tenants, script[o].tenant = t,
           NEW n \in Nat
    PROVE  /\ Put(o, "secret", n) =>
                  /\ realms' \in [Tenants -> Realm]
                  /\ realms'[t].secret = n
                  /\ realms'[t].mappers = realms[t].mappers
                  /\ realms'[t].providers = realms[t].providers
           /\ Put(o, "mappers", n) /\ n <= Len(Mappers) =>
                  /\ realms' \in [Tenants -> Realm]
                  /\ realms'[t].secret = realms[t].secret
                  /\ realms'[t].mappers = n
                  /\ realms'[t].providers = realms[t].providers
           /\ Put(o, "providers", n) =>
                  /\ realms' \in [Tenants -> Realm]
                  /\ realms'[t].secret = realms[t].secret
                  /\ realms'[t].mappers = realms[t].mappers
                  /\ realms'[t].providers = n
           /\ \A field : Put(o, field, n) =>
                  \A u \in Tenants \ {t} : realms'[u] = realms[u]
<1>1. realms \in [Tenants -> Realm] /\ realms[t] \in Realm
  BY DEF TypeOK
<1>2. Len(Mappers) = 2
  BY DEF Mappers
<1>3. ASSUME Put(o, "secret", n)
      PROVE  /\ realms' \in [Tenants -> Realm]
             /\ realms'[t].secret = n
             /\ realms'[t].mappers = realms[t].mappers
             /\ realms'[t].providers = realms[t].providers
  BY <1>1, <1>3 DEF Put, Realm
<1>4. ASSUME Put(o, "mappers", n), n <= Len(Mappers)
      PROVE  /\ realms' \in [Tenants -> Realm]
             /\ realms'[t].secret = realms[t].secret
             /\ realms'[t].mappers = n
             /\ realms'[t].providers = realms[t].providers
  BY <1>1, <1>2, <1>4 DEF Put, Realm
<1>5. ASSUME Put(o, "providers", n)
      PROVE  /\ realms' \in [Tenants -> Realm]
             /\ realms'[t].secret = realms[t].secret
             /\ realms'[t].mappers = realms[t].mappers
             /\ realms'[t].providers = n
  BY <1>1, <1>5 DEF Put, Realm
<1>6. ASSUME NEW field, Put(o, field, n), NEW u \in Tenants \ {t}
      PROVE  realms'[u] = realms[u]
  BY <1>1, <1>6 DEF Put
<1>. QED  BY <1>3, <1>4, <1>5, <1>6

-----------------------------------------------------------------------------
(* Types.                                                                  *)

\* The part of the types that is about scripts.
ScriptTypes ==
    /\ script \in [Operators -> Script]
    /\ \A o \in Operators : Running(o) => script[o].step \in DOMAIN Commands[script[o].kind]
    /\ ScriptsOK

SharedTypes ==
    /\ realms \in [Tenants -> Realm]
    /\ configs \in Map
    /\ secrets \in [Tenants -> Nat \cup {NULL}]
    /\ files \in [Files -> Map]
    /\ gateway \in Map
    /\ dirty \in BOOLEAN /\ begun \subseteq Tenants
    /\ runs \in 0..MaxRuns /\ failures \in 0..MaxFailures

LEMMA TypesTogether == TypeInv <=> SharedTypes /\ ScriptTypes
BY Zenon DEF TypeInv, TypeOK, SharedTypes, ScriptTypes

LEMMA GoesOnTypes ==
    ASSUME TypeInv, NEW o \in Operators, Running(o), GoesOn(o), ~Last(o),
           script[o].kind # "publish"
    PROVE  ScriptTypes'
<1>1. script[o].step + 1 \in DOMAIN Commands[script[o].kind]
  BY LastSteps DEF TypeInv
<1>2. ASSUME NEW p \in Operators, Running(p)'
      PROVE  script'[p].step \in DOMAIN Commands[script'[p].kind]
  BY <1>1, <1>2 DEF GoesOn, OthersKeep, TypeInv, TypeOK, Running
<1>3. ScriptsOK'
  BY DEF GoesOn, OthersKeep, TypeInv, ScriptsOK, Offboards
<1>. QED  BY <1>2, <1>3 DEF ScriptTypes, GoesOn

LEMMA StaysAtTypes ==
    ASSUME TypeInv, NEW o \in Operators, StaysAt(o),
           script[o].kind = "publish" => script'[o].view \in Map
    PROVE  ScriptTypes'
<1>1. ASSUME NEW p \in Operators, Running(p)'
      PROVE  script'[p].step \in DOMAIN Commands[script'[p].kind]
  BY <1>1 DEF StaysAt, OthersKeep, TypeInv, TypeOK, Running
<1>2. ScriptsOK'
  BY DEF StaysAt, OthersKeep, TypeInv, ScriptsOK, Offboards
<1>. QED  BY <1>1, <1>2 DEF ScriptTypes, StaysAt

LEMMA EndsTypes ==
    ASSUME TypeInv, NEW o \in Operators, Ends(o) PROVE ScriptTypes'
<1>1. ~Running(o)' /\ script'[o].kind \notin Kinds
  BY NoScriptType, NoKind DEF Ends, Running
<1>2. ASSUME NEW p \in Operators, Running(p)'
      PROVE  script'[p].step \in DOMAIN Commands[script'[p].kind]
  BY <1>1, <1>2 DEF Ends, OthersKeep, TypeInv, TypeOK, Running
<1>3. ScriptsOK'
  BY <1>1 DEF Ends, OthersKeep, TypeInv, ScriptsOK, Offboards, Kinds
<1>. QED  BY <1>2, <1>3 DEF ScriptTypes, Ends

LEMMA AdvanceTypes ==
    ASSUME TypeInv, NEW o \in Operators, Running(o), Advance(o),
           script[o].kind # "publish" \/ Last(o)
    PROVE  /\ ScriptTypes'
           /\ dirty' \in BOOLEAN
           /\ begun' \subseteq Tenants
<1>1. CASE GoesOn(o) /\ ~Last(o) /\ UNCHANGED <<dirty, begun>>
  BY <1>1, GoesOnTypes DEF TypeInv, TypeOK
<1>2. ASSUME Ends(o), begun' \subseteq begun, dirty' \in {FALSE, dirty}
      PROVE  /\ ScriptTypes'
             /\ dirty' \in BOOLEAN
             /\ begun' \subseteq Tenants
  BY <1>2, EndsTypes DEF TypeInv, TypeOK
<1>. QED  BY <1>1, <1>2, AdvanceDoes DEF TypeInv

LEMMA AbortTypes ==
    ASSUME TypeInv, NEW o \in Operators, Abort(o)
    PROVE  /\ ScriptTypes'
           /\ dirty' \in BOOLEAN
           /\ begun' \subseteq Tenants
<1>1. Ends(o) /\ dirty' = TRUE /\ begun' = begun
  BY AbortDoes DEF TypeInv
<1>. QED  BY <1>1, EndsTypes DEF TypeInv, TypeOK

LEMMA StartTypes ==
    ASSUME TypeInv, NEW o \in Operators, NEW kind \in Kinds,
           NEW t \in Tenants \cup {NULL}, NEW h \in Hostnames \cup {NULL},
           NEW view \in Map \cup {NULL},
           Start(o, kind, t, h, view),
           kind # "publish" => t \in Tenants,
           kind \in {"onboard", "assess"} => h \in Hostnames,
           kind = "offboard" => h = NULL,
           kind = "publish" => view \in Map
    PROVE  TypeInv'
<1>1. /\ script' \in [Operators -> Script]
      /\ script'[o].kind = kind
      /\ script'[o].tenant = t
      /\ script'[o].hostname = h
      /\ script'[o].view = view
      /\ script'[o].step = 1
      /\ \A p \in Operators \ {o} :
             /\ script'[p].kind = script[p].kind
             /\ script'[p].tenant = script[p].tenant
             /\ script'[p].hostname = script[p].hostname
             /\ script'[p].step = script[p].step
             /\ script'[p].view = script[p].view
  <2>1. Starts(o, kind, t, h, view)
    BY StartDoes DEF TypeInv
  <2>. QED  BY <2>1, Zenon DEF Starts
<1>2. 1 \in DOMAIN Commands[kind]
  BY CommandTable DEF Kinds
<1>3. ASSUME NEW p \in Operators, Running(p)'
      PROVE  script'[p].step \in DOMAIN Commands[script'[p].kind]
  BY <1>1, <1>2, <1>3 DEF TypeInv, TypeOK, Running
<1>4. ScriptsOK'
  BY <1>1 DEF TypeInv, ScriptsOK, Offboards
<1>5. ScriptTypes'
  BY <1>1, <1>3, <1>4 DEF ScriptTypes
<1>6. dirty' \in BOOLEAN /\ begun' \subseteq Tenants
  <2>1. (dirty \/ ~Quiet \/ kind \in {"publish", "assess"}) \in BOOLEAN
    OBVIOUS
  <2>2. dirty' \in BOOLEAN
    BY <2>1, Zenon DEF Start
  <2>. QED  BY <2>2 DEF Start, TypeInv, TypeOK
<1>7. runs' \in 0..MaxRuns
  BY BoundsAssumption DEF Start, TypeInv, TypeOK
<1>8. /\ realms' \in [Tenants -> Realm]
      /\ configs' \in Map
      /\ secrets' \in [Tenants -> Nat \cup {NULL}]
      /\ files' \in [Files -> Map]
      /\ gateway' \in Map
      /\ failures' \in 0..MaxFailures
  BY DEF Start, kept, TypeInv, TypeOK
<1>. QED
  BY <1>5, <1>6, <1>7, <1>8, Zenon
     DEF TypeInv, TypeOK, ScriptTypes

\* The tenant of a script of a realm or of the configs, and its secret.
LEMMA ScriptFields ==
    ASSUME TypeInv, NEW o \in Operators, Running(o)
    PROVE  /\ script[o].kind \in Kinds
           /\ script[o].kind # "publish" => script[o].tenant \in Tenants
           /\ script[o].hostname \in Hostnames \cup {NULL}
           /\ script[o].secret \in Nat
           /\ script[o].found \in Nat \cup {NULL}
           /\ script[o].view \in Map \cup {NULL}
           /\ script[o].alone \in BOOLEAN
<1>1. script[o] \in Script /\ script[o].kind # NULL
  BY DEF TypeInv, TypeOK, Running
<1>2. /\ script[o].kind \in Kinds
      /\ script[o].hostname \in Hostnames \cup {NULL}
      /\ script[o].secret \in Nat
      /\ script[o].found \in Nat \cup {NULL}
      /\ script[o].view \in Map \cup {NULL}
      /\ script[o].alone \in BOOLEAN
  BY <1>1, Zenon DEF Script
<1>. QED  BY <1>2 DEF TypeInv, ScriptsOK, Offboards, Kinds

-----------------------------------------------------------------------------
(* The invariants.                                                         *)

\* How far an onboarding has come shows in the realm: what the others put there is
\* never taken away.
RealmSoFar(o, t) ==
    /\ script[o].step = 2 /\ script[o].found # NULL => script[o].found <= realms[t].mappers
    /\ script[o].step = 3 /\ script[o].found \notin {NULL, 0} => realms[t].providers > 0
    /\ script[o].step > 2 => realms[t].mappers = Len(Mappers)
    /\ script[o].step > 3 => realms[t].providers > 0

Progress == \A o \in Operators : Onboards(o) => RealmSoFar(o, script[o].tenant)

\* A script that is alone has no other beside it,
Alone ==
    \A o, p \in Operators : Running(o) /\ script[o].alone /\ Running(p) => o = p

\* an onboarding that is alone finds its own secret in Keycloak and in the config,
HasSecret(o) ==
    /\ script[o].step > 1 => realms[script[o].tenant].secret = script[o].secret
    /\ script[o].step > 4 => secrets[script[o].tenant] = script[o].secret

\* and the files an alone script has generated are those of the configs.
HasFiles(o) ==
    /\ Onboards(o) =>
           /\ script[o].step \in 5..7 /\ script[o].view # NULL => script[o].view = configs
           /\ script[o].step > 5 => files["policies"] = configs
           /\ script[o].step > 6 => files["auth"] = configs
           /\ script[o].step > 7 => files["envoy"] = configs
    /\ Offboards(o) =>
           /\ script[o].step \in 2..3 /\ script[o].view # NULL => script[o].view = configs
           /\ script[o].step > 2 => files["policies"] = configs
           /\ script[o].step > 3 => files["envoy"] = configs

AloneOK ==
    \A o \in Operators : Running(o) /\ script[o].alone =>
        /\ Onboards(o) => HasSecret(o)
        /\ HasFiles(o)

\* The tenants of onboardings and assessments are marked.
BegunOK ==
    \A o \in Operators :
        script[o].kind \in {"onboard", "assess"} => script[o].tenant \in begun

Covered == \A t \in Tenants : configs[t] # NULL => files["auth"][t] = configs[t]

\* With no mishap there are only onboardings and offboardings, each alone; and but
\* during an onboarding, the middleware's file covers the configs.
CleanOK ==
    ~dirty =>
        /\ \A o \in Operators :
               Running(o) => script[o].alone /\ (Onboards(o) \/ Offboards(o))
        /\ (\A o \in Operators : ~Onboards(o)) => Covered

\* The onboardings that have found no provider and are about to create one.
Creating(t) ==
    {o \in Operators : /\ Onboards(o) /\ script[o].tenant = t
                       /\ script[o].step = 3 /\ script[o].found = 0}

ProvidersInv ==
    \A t \in Tenants :
        realms[t].providers + Cardinality(Creating(t)) <= Cardinality(Operators)

IInv ==
    /\ TypeInv
    /\ Progress
    /\ Alone
    /\ AloneOK
    /\ BegunOK
    /\ CleanOK
    /\ ProvidersInv
    /\ OnboardedCanLogIn
    /\ OnboardingRepairs

-----------------------------------------------------------------------------
(* What the invariants need of every step.                                 *)

\* Which script is at a command, and where.
LEMMA CommandIs ==
    ASSUME TypeOK, NEW o \in Operators, Running(o)
    PROVE  /\ Command(o) = "client" => Onboards(o) /\ script[o].step = 1
           /\ Command(o) = "mappers" => Onboards(o) /\ script[o].step = 2
           /\ Command(o) = "provider" => Onboards(o) /\ script[o].step = 3
           /\ Command(o) = "upsert" => Onboards(o) /\ script[o].step = 4
           /\ Command(o) = "delete" => Offboards(o) /\ script[o].step = 1
           /\ Command(o) = "starter" => script[o].kind = "assess" /\ script[o].step = 1
           /\ Command(o) = "policies" =>
                  \/ Onboards(o) /\ script[o].step = 5
                  \/ Offboards(o) /\ script[o].step = 2
                  \/ script[o].kind = "publish" /\ script[o].step = 2
           /\ Command(o) = "auth" =>
                  \/ Onboards(o) /\ script[o].step = 6
                  \/ script[o].kind = "publish" /\ script[o].step = 1
           /\ Command(o) = "envoy" =>
                  \/ Onboards(o) /\ script[o].step = 7
                  \/ Offboards(o) /\ script[o].step = 3
                  \/ script[o].kind = "publish" /\ script[o].step = 3
           /\ Command(o) = "restart" =>
                  \/ Onboards(o) /\ script[o].step = 8
                  \/ Offboards(o) /\ script[o].step = 4
<1>1. script[o].kind \in Kinds
  BY CommandSteps
<1>2. CASE Onboards(o)
  BY <1>2, CommandSteps
<1>3. CASE Offboards(o)
  BY <1>3, CommandSteps
<1>4. CASE script[o].kind = "assess"
  BY <1>4, CommandSteps
<1>5. CASE script[o].kind = "publish"
  BY <1>5, CommandSteps
<1>. QED  BY <1>1, <1>2, <1>3, <1>4, <1>5 DEF Kinds, Onboards, Offboards

\* The script of one operator goes on or is over.
Proceeds(o) ==
    /\ script' \in [Operators -> Script]
    /\ OthersKeep(o)
    /\ \/ script'[o] = NoScript
       \/ /\ script'[o].kind = script[o].kind
          /\ script'[o].tenant = script[o].tenant
          /\ script'[o].alone = script[o].alone

LEMMA GoesOnProceeds == ASSUME NEW o \in Operators, GoesOn(o) PROVE Proceeds(o)
BY Zenon DEF GoesOn, Proceeds
LEMMA StaysAtProceeds == ASSUME NEW o \in Operators, StaysAt(o) PROVE Proceeds(o)
BY Zenon DEF StaysAt, Proceeds
LEMMA EndsProceeds == ASSUME NEW o \in Operators, Ends(o) PROVE Proceeds(o)
BY Zenon DEF Ends, Proceeds

\* Then the scripts that are alone are still alone, and a script that is alone is the one
\* that proceeds.
LEMMA AloneStays ==
    ASSUME Alone, NEW o \in Operators, Running(o), Proceeds(o)
    PROVE  /\ Alone'
           /\ \A p \in Operators : Running(p)' /\ script'[p].alone => p = o /\ script[o].alone
<1>1. ASSUME NEW p \in Operators, Running(p)', script'[p].alone
      PROVE  Running(p) /\ script[p].alone
  <2>1. CASE p = o
    BY <1>1, <2>1, NoScriptType, Zenon DEF Proceeds, Running
  <2>2. CASE p # o
    <3>1. script'[p] = script[p]
      BY <2>2 DEF Proceeds, OthersKeep
    <3>. QED  BY <1>1, <3>1, Zenon DEF Running
  <2>. QED  BY <2>1, <2>2
<1>2. ASSUME NEW p \in Operators, Running(p)'
      PROVE  Running(p)
  <2>1. CASE p = o
    BY <2>1
  <2>2. CASE p # o
    BY <1>2, <2>2 DEF Proceeds, OthersKeep, Running
  <2>. QED  BY <2>1, <2>2
<1>3. ASSUME NEW p \in Operators, NEW q \in Operators,
             Running(p)', script'[p].alone, Running(q)'
      PROVE  p = q
  BY <1>1, <1>2, <1>3, Zenon DEF Alone
<1>4. ASSUME NEW p \in Operators, Running(p)', script'[p].alone
      PROVE  p = o /\ script[o].alone
  <2>1. p = o
    BY <1>1, <1>4, Zenon DEF Alone
  <2>. QED  BY <1>1, <1>4, <2>1
<1>5. Alone'
  BY <1>3, Zenon DEF Alone
<1>. QED  BY <1>4, <1>5, Zenon

\* A script that is over, or not of a realm's, asks nothing.
LEMMA BegunStays ==
    ASSUME BegunOK, NEW o \in Operators, Proceeds(o), begun' = begun
    PROVE  BegunOK'
<1>1. ASSUME NEW p \in Operators, script'[p].kind \in {"onboard", "assess"}
      PROVE  script'[p].tenant \in begun
  <2>1. CASE p = o
    BY <1>1, <2>1, NoScriptType, NoKind DEF Proceeds, BegunOK, Kinds
  <2>2. CASE p # o
    BY <1>1, <2>2 DEF Proceeds, OthersKeep, BegunOK
  <2>. QED  BY <2>1, <2>2
<1>. QED  BY <1>1 DEF BegunOK

\* Nothing is taken from a realm but its client's secret, so what the other onboardings
\* have seen is still there.
LEMMA ProgressStays ==
    ASSUME TypeInv, Progress, TypeInv', NEW o \in Operators, OthersKeep(o),
           \A t \in Tenants : /\ realms[t].mappers <= realms'[t].mappers
                              /\ realms[t].providers <= realms'[t].providers,
           Onboards(o)' => RealmSoFar(o, script[o].tenant)'
    PROVE  Progress'
<1>1. ASSUME NEW p \in Operators, p # o, Onboards(p)'
      PROVE  RealmSoFar(p, script[p].tenant)'
  <2>1. script'[p] = script[p]
    BY <1>1 DEF OthersKeep
  <2>2. Onboards(p)
    BY <1>1, <2>1 DEF Onboards
  <2>3. PICK t \in Tenants : script[p].tenant = t
    BY <2>2 DEF TypeInv, ScriptsOK, Onboards
  <2>4. RealmSoFar(p, t)
    BY <2>2, <2>3 DEF Progress
  <2>5. /\ realms[t] \in Realm /\ realms'[t] \in Realm
        /\ script[p] \in Script
    BY DEF TypeInv, TypeOK
  <2>6. /\ realms[t].mappers \in 0..2 /\ realms'[t].mappers \in 0..2
        /\ realms[t].providers \in Nat /\ realms'[t].providers \in Nat
        /\ Len(Mappers) = 2
        /\ script[p].found \in Nat \cup {NULL}
    BY <2>5 DEF Realm, Mappers, Script
  <2>7. /\ realms[t].mappers <= realms'[t].mappers
        /\ realms[t].providers <= realms'[t].providers
    OBVIOUS
  <2>. QED
    BY <2>1, <2>3, <2>4, <2>6, <2>7 DEF RealmSoFar
<1>2. ASSUME NEW p \in Operators, Onboards(p)'
      PROVE  RealmSoFar(p, script[p].tenant)'
  BY <1>1, <1>2
<1>. QED  BY <1>2 DEF Progress

\* The invariants that only look at the scripts and the files, at a step after which the
\* script still runs.
LEMMA OnwardStep ==
    ASSUME IInv, NEW o \in Operators, Running(o), Proceeds(o), Running(o)',
           dirty' = dirty, begun' = begun,
           Offboards(o) /\ Covered => Covered',
           script[o].alone => (Onboards(o) => HasSecret(o)') /\ HasFiles(o)'
    PROVE  Alone' /\ AloneOK' /\ BegunOK' /\ CleanOK' /\ OnboardingRepairs'
<1>1. Alone' /\ BegunOK'
  BY AloneStays, BegunStays, Zenon DEF IInv
<1>2. script'[o].kind = script[o].kind /\ script'[o].alone = script[o].alone
  BY NoScriptType, Zenon DEF Proceeds, Running
<1>3. AloneOK'
  <2>1. ASSUME NEW p \in Operators, Running(p)', script'[p].alone
        PROVE  (Onboards(p)' => HasSecret(p)') /\ HasFiles(p)'
    <3>1. p = o /\ script[o].alone
      BY <2>1, AloneStays, Zenon DEF IInv
    <3>2. Onboards(p)' => Onboards(o)
      BY <3>1, <1>2, Zenon DEF Onboards
    <3>. QED  BY <3>1, <3>2, Zenon
  <2>. QED  BY <2>1, Zenon DEF AloneOK
<1>4. CleanOK'
  <2>. SUFFICES ASSUME ~dirty
       PROVE  /\ \A p \in Operators :
                     Running(p)' => script'[p].alone /\ (Onboards(p)' \/ Offboards(p)')
              /\ (\A p \in Operators : ~Onboards(p)') => Covered'
    BY Zenon DEF CleanOK
  <2>1. ASSUME NEW p \in Operators, Running(p)'
        PROVE  script'[p].alone /\ (Onboards(p)' \/ Offboards(p)')
    <3>1. /\ script'[p].kind = script[p].kind
          /\ script'[p].alone = script[p].alone
      BY <1>2, Zenon DEF Proceeds, OthersKeep
    <3>2. Running(p)
      BY <2>1, <3>1, Zenon DEF Running
    <3>3. script[p].alone /\ (Onboards(p) \/ Offboards(p))
      BY <3>2, Zenon DEF IInv, CleanOK
    <3>. QED  BY <3>1, <3>3, Zenon DEF Onboards, Offboards
  <2>2. ASSUME \A p \in Operators : ~Onboards(p)' PROVE Covered'
    <3>1. ~Onboards(o)
      BY <2>2, <1>2, Zenon DEF Onboards
    <3>2. \A p \in Operators : ~Onboards(p)
      BY <3>1, <2>2, Zenon DEF Onboards, Proceeds, OthersKeep
    <3>3. Offboards(o) /\ Covered
      BY <3>1, <3>2, Zenon DEF IInv, CleanOK
    <3>. QED  BY <3>3
  <2>. QED  BY <2>1, <2>2
<1>5. OnboardingRepairs'
  <2>1. ~Quiet'
    BY DEF Quiet
  <2>. QED  BY <2>1, Zenon DEF OnboardingRepairs
<1>. QED  BY <1>1, <1>3, <1>4, <1>5

\* The same at a mishap: the script is over.
LEMMA MishapStep ==
    ASSUME IInv, NEW o \in Operators, Running(o), Ends(o), dirty' = TRUE, begun' = begun
    PROVE  Alone' /\ AloneOK' /\ BegunOK' /\ CleanOK' /\ OnboardingRepairs'
<1>1. Proceeds(o) /\ ~Running(o)'
  BY EndsProceeds, NoScriptType DEF Ends, Running
<1>2. Alone' /\ BegunOK'
  BY <1>1, AloneStays, BegunStays, Zenon DEF IInv
<1>3. AloneOK'
  BY <1>1, AloneStays, Zenon DEF IInv, AloneOK
<1>. QED  BY <1>2, <1>3, Zenon DEF CleanOK, OnboardingRepairs

\* No onboarding is about to create a provider that was not, unless a look-up found none.
LEMMA CreatingStays ==
    ASSUME NEW o \in Operators, Proceeds(o),
           Onboards(o)' => ~(script'[o].step = 3 /\ script'[o].found = 0),
           NEW t \in Tenants
    PROVE  Creating(t)' \subseteq Creating(t) \ {o}
BY DEF Creating, Proceeds, OthersKeep, Onboards

LEMMA CreatingFew ==
    ASSUME NEW t \in Tenants
    PROVE  /\ IsFiniteSet(Creating(t))
           /\ Cardinality(Creating(t)) \in Nat
           /\ Cardinality(Operators) \in Nat
           /\ Cardinality(Creating(t)) <= Cardinality(Operators)
<1>1. Creating(t) \subseteq Operators
  BY DEF Creating
<1>. QED
  BY <1>1, OperatorsAssumption, FS_Subset, FS_CardinalityType

LEMMA ProvidersStay ==
    ASSUME TypeInv, ProvidersInv, NEW o \in Operators, Proceeds(o),
           Onboards(o)' => ~(script'[o].step = 3 /\ script'[o].found = 0),
           \A t \in Tenants : realms'[t].providers = realms[t].providers
    PROVE  ProvidersInv'
<1>1. ASSUME NEW t \in Tenants
      PROVE  realms'[t].providers + Cardinality(Creating(t)') <= Cardinality(Operators)
  <2>1. Creating(t)' \subseteq Creating(t)
    BY CreatingStays
  <2>2. /\ Cardinality(Creating(t)') \in Nat
        /\ Cardinality(Creating(t)') <= Cardinality(Creating(t))
    BY <2>1, CreatingFew, FS_Subset, FS_CardinalityType
  <2>3. realms[t].providers + Cardinality(Creating(t)) <= Cardinality(Operators)
    BY DEF ProvidersInv
  <2>4. realms[t].providers \in Nat /\ realms'[t].providers = realms[t].providers
    BY DEF TypeInv, TypeOK, Realm
  <2>. QED  BY <2>2, <2>3, <2>4, CreatingFew
<1>. QED  BY <1>1 DEF ProvidersInv

\* What a mishap leaves as it is.
LEMMA AbortStep ==
    ASSUME IInv, NEW o \in Operators, Running(o), Abort(o), gateway' \in Map,
           UNCHANGED <<realms, configs, secrets, files, runs>>,
           failures' \in 0..MaxFailures
    PROVE  IInv'
<1>1. Ends(o) /\ dirty' = TRUE /\ begun' = begun
  BY AbortDoes DEF IInv, TypeInv
<1>2. ~Onboards(o)'
  BY <1>1, NoScriptType, NoKind DEF Ends, Onboards, Kinds
<1>3. TypeInv'
  <2>1. ScriptTypes' /\ dirty' \in BOOLEAN /\ begun' \subseteq Tenants
    BY AbortTypes DEF IInv
  <2>2. SharedTypes'
    BY <2>1 DEF IInv, TypeInv, TypeOK, SharedTypes
  <2>. QED  BY <2>1, <2>2, Zenon DEF TypeInv, TypeOK, SharedTypes, ScriptTypes
<1>4. Progress'
  <2>1. \A t \in Tenants : /\ realms[t].mappers <= realms'[t].mappers
                           /\ realms[t].providers <= realms'[t].providers
    BY DEF IInv, TypeInv, TypeOK, Realm
  <2>. QED  BY <1>1, <1>2, <1>3, <2>1, ProgressStays DEF IInv, Ends
<1>5. ProvidersInv'
  BY <1>1, <1>2, EndsProceeds, ProvidersStay DEF IInv
<1>6. OnboardedCanLogIn'
  BY <1>1 DEF IInv, OnboardedCanLogIn
<1>. QED  BY <1>1, <1>3, <1>4, <1>5, <1>6, MishapStep DEF IInv

-----------------------------------------------------------------------------
(* Every step keeps the invariants.                                        *)

LEMMA LookUpStep ==
    ASSUME IInv, NEW o \in Operators, LookUp(o) PROVE IInv'
<1> DEFINE n == Found(script[o].tenant, Command(o))
<1>1. /\ TypeInv /\ TypeOK /\ Running(o) /\ Onboards(o)
      /\ \/ Command(o) = "client" /\ script[o].step = 1
         \/ Command(o) = "mappers" /\ script[o].step = 2
         \/ Command(o) = "provider" /\ script[o].step = 3
  BY CommandIs DEF IInv, TypeInv, LookUp
<1>2. PICK t \in Tenants : script[o].tenant = t
  BY <1>1, ScriptFields DEF Onboards
<1>3. realms[t] \in Realm /\ realms[t].mappers \in Nat /\ realms[t].providers \in Nat
  BY <1>1 DEF TypeOK, Realm, Mappers
<1>4. n \in Nat
  BY <1>1, <1>2, <1>3 DEF Found
<1>5. /\ Command(o) = "mappers" => n = realms[t].mappers
      /\ Command(o) = "provider" => n = realms[t].providers
  BY <1>1, <1>2 DEF Found
<1>. HIDE DEF n
<1>6. script' = [script EXCEPT ![o].found = n]
  BY DEF LookUp, n
<1>7. StaysAt(o) /\ script'[o].found = n /\ script'[o].view = script[o].view
  BY <1>1, <1>4, <1>6, FoundDoes
<1>8. /\ UNCHANGED <<realms, configs, secrets, files, gateway>>
      /\ UNCHANGED <<dirty, begun, runs, failures>>
  BY DEF LookUp, kept
<1>9. Proceeds(o) /\ Running(o)' /\ Onboards(o)'
  BY <1>1, <1>7, StaysAtProceeds DEF StaysAt, Running, Onboards
<1>10. TypeInv'
  <2>1. ScriptTypes'
    BY <1>1, <1>7, StaysAtTypes DEF Onboards
  <2>. QED
    BY <2>1, <1>1, <1>8, Zenon DEF TypeInv, TypeOK, SharedTypes, ScriptTypes
<1>11. Progress'
  <2>1. RealmSoFar(o, t)
    BY <1>1, <1>2 DEF IInv, Progress
  <2>2. RealmSoFar(o, script[o].tenant)'
    BY <2>1, <1>1, <1>2, <1>3, <1>4, <1>5, <1>7, <1>8 DEF RealmSoFar, StaysAt
  <2>3. \A u \in Tenants : /\ realms[u].mappers <= realms'[u].mappers
                           /\ realms[u].providers <= realms'[u].providers
    BY <1>1, <1>8 DEF TypeOK, Realm
  <2>. QED  BY <2>2, <2>3, <1>1, <1>7, <1>10, ProgressStays DEF IInv, StaysAt
<1>12. Alone' /\ AloneOK' /\ BegunOK' /\ CleanOK' /\ OnboardingRepairs'
  <2>1. HasSecret(o) => HasSecret(o)'
    BY <1>7, <1>8 DEF HasSecret, StaysAt
  <2>2. HasFiles(o) => HasFiles(o)'
    BY <1>7, <1>8 DEF HasFiles, StaysAt, Onboards, Offboards
  <2>3. script[o].alone => HasSecret(o) /\ HasFiles(o)
    BY <1>1, Zenon DEF IInv, AloneOK
  <2>4. ~Offboards(o)
    BY <1>1 DEF Onboards, Offboards
  <2>. QED  BY <2>1, <2>2, <2>3, <2>4, <1>1, <1>8, <1>9, OnwardStep
<1>13. ProvidersInv'
  <2>1. ASSUME NEW u \in Tenants
        PROVE  realms[u].providers + Cardinality(Creating(u)') <= Cardinality(Operators)
    <3>1. CASE u = t /\ Command(o) = "provider" /\ n = 0
      <4>1. realms[u].providers = 0
        BY <3>1, <1>5
      <4>2. /\ Cardinality(Creating(u)') <= Cardinality(Operators)
            /\ Cardinality(Creating(u)') \in Nat
        <5>1. Creating(u)' \subseteq Operators
          BY DEF Creating
        <5>. QED  BY <5>1, OperatorsAssumption, FS_Subset, FS_CardinalityType
      <4>. QED  BY <4>1, <4>2, CreatingFew
    <3>2. CASE ~(u = t /\ Command(o) = "provider" /\ n = 0)
      <4>1. Creating(u)' \subseteq Creating(u)
        <5>1. o \notin Creating(u)'
          BY <3>2, <1>1, <1>2, <1>7 DEF Creating, StaysAt
        <5>. QED  BY <5>1, <1>7 DEF Creating, StaysAt, OthersKeep, Onboards
      <4>2. /\ Cardinality(Creating(u)') \in Nat
            /\ Cardinality(Creating(u)') <= Cardinality(Creating(u))
        BY <4>1, CreatingFew, FS_Subset, FS_CardinalityType
      <4>3. realms[u].providers + Cardinality(Creating(u)) <= Cardinality(Operators)
        BY DEF IInv, ProvidersInv
      <4>4. realms[u].providers \in Nat
        BY <1>1 DEF TypeOK, Realm
      <4>. QED  BY <4>2, <4>3, <4>4, CreatingFew
    <3>. QED  BY <3>1, <3>2
  <2>. QED  BY <2>1, <1>8 DEF ProvidersInv
<1>14. OnboardedCanLogIn'
  BY <1>8 DEF IInv, OnboardedCanLogIn
<1>. QED  BY <1>10, <1>11, <1>12, <1>13, <1>14 DEF IInv

LEMMA EnsureClientStep ==
    ASSUME IInv, NEW o \in Operators, EnsureClient(o) PROVE IInv'
<1>1. /\ TypeInv /\ TypeOK /\ Running(o) /\ Onboards(o)
      /\ Command(o) = "client" /\ script[o].step = 1
  BY CommandIs DEF IInv, TypeInv, EnsureClient, Sending
<1>2. PICK t \in Tenants : script[o].tenant = t
  BY <1>1, ScriptFields DEF Onboards
<1>3. UNCHANGED <<configs, secrets, files, gateway, runs, failures>>
  BY DEF EnsureClient
<1>4. CASE Abort(o) /\ UNCHANGED realms
  BY <1>1, <1>3, <1>4, AbortStep DEF TypeOK
<1>5. CASE Put(o, "secret", ClientSecret(o)) /\ Advance(o)
  <2>1. ~Last(o)
    BY <1>1, LastSteps
  <2>2. GoesOn(o) /\ script'[o].view = NULL /\ UNCHANGED <<dirty, begun>>
    BY <1>1, <1>5, <2>1, AdvanceDoes
  <2>3. Proceeds(o) /\ Running(o)' /\ Onboards(o)'
    BY <1>1, <2>2, GoesOnProceeds DEF GoesOn, Running, Onboards
  <2>4. /\ realms' \in [Tenants -> Realm]
        /\ realms'[t].secret = script[o].secret
        /\ realms'[t].mappers = realms[t].mappers
        /\ realms'[t].providers = realms[t].providers
        /\ \A u \in Tenants \ {t} : realms'[u] = realms[u]
    <3>1. script[o].secret \in Nat
      BY <1>1, ScriptFields
    <3>. QED  BY <3>1, <1>1, <1>2, <1>5, PutDoes DEF ClientSecret
  <2>5. TypeInv'
    <3>1. ScriptTypes'
      BY <1>1, <2>1, <2>2, GoesOnTypes DEF Onboards
    <3>. QED
      BY <3>1, <1>1, <1>3, <2>2, <2>4, Zenon DEF TypeInv, TypeOK, SharedTypes, ScriptTypes
  <2>6. \A u \in Tenants : /\ realms'[u].mappers = realms[u].mappers
                           /\ realms'[u].providers = realms[u].providers
                           /\ realms[u].mappers \in Nat
                           /\ realms[u].providers \in Nat
    BY <1>1, <2>4 DEF TypeOK, Realm, Mappers
  <2>7. Progress'
    <3>1. RealmSoFar(o, script[o].tenant)'
      BY <1>1, <2>2 DEF RealmSoFar, GoesOn
    <3>2. \A u \in Tenants : /\ realms[u].mappers <= realms'[u].mappers
                             /\ realms[u].providers <= realms'[u].providers
      BY <2>6
    <3>. QED  BY <3>1, <3>2, <1>1, <2>2, <2>5, ProgressStays DEF IInv, GoesOn
  <2>8. Alone' /\ AloneOK' /\ BegunOK' /\ CleanOK' /\ OnboardingRepairs'
    <3>1. HasSecret(o)'
      BY <1>1, <1>2, <2>2, <2>4 DEF HasSecret, GoesOn
    <3>2. HasFiles(o)'
      BY <1>1, <2>2 DEF HasFiles, GoesOn, Onboards, Offboards
    <3>3. ~Offboards(o)
      BY <1>1 DEF Onboards, Offboards
    <3>. QED  BY <3>1, <3>2, <3>3, <1>1, <2>2, <2>3, OnwardStep
  <2>9. ProvidersInv'
    <3>1. ~(script'[o].step = 3 /\ script'[o].found = 0)
      BY <1>1, <2>2 DEF GoesOn
    <3>. QED  BY <3>1, <1>1, <2>3, <2>6, ProvidersStay DEF IInv
  <2>10. OnboardedCanLogIn'
    <3>1. t \in begun
      BY <1>1, <1>2 DEF IInv, BegunOK, Onboards
    <3>. QED  BY <3>1, <1>3, <2>2, <2>4 DEF IInv, OnboardedCanLogIn
  <2>. QED  BY <2>5, <2>7, <2>8, <2>9, <2>10 DEF IInv
<1>. QED  BY <1>4, <1>5 DEF EnsureClient

LEMMA EnsureMappersStep ==
    ASSUME IInv, NEW o \in Operators, EnsureMappers(o) PROVE IInv'
<1>1. /\ TypeInv /\ TypeOK /\ Running(o) /\ Onboards(o)
      /\ Command(o) = "mappers" /\ script[o].step = 2
      /\ script[o].found # NULL
  BY CommandIs DEF IInv, TypeInv, EnsureMappers, Sending
<1>2. PICK t \in Tenants : script[o].tenant = t
  BY <1>1, ScriptFields DEF Onboards
<1>3. UNCHANGED <<configs, secrets, files, gateway, runs, failures>>
  BY DEF EnsureMappers
<1>4. /\ script[o].found \in Nat
      /\ Len(Mappers) = 2
      /\ \A u \in Tenants : /\ realms[u].mappers \in 0..2
                            /\ realms[u].providers \in Nat
  BY <1>1, ScriptFields DEF TypeOK, Realm, Mappers
<1>5. script[o].alone => HasSecret(o) /\ HasFiles(o)
  BY <1>1, Zenon DEF IInv, AloneOK
<1>6. ~Offboards(o)
  BY <1>1 DEF Onboards, Offboards
<1>7. CASE Abort(o) /\ UNCHANGED realms
  BY <1>1, <1>3, <1>7, AbortStep DEF TypeOK
<1>8. CASE script[o].found = Len(Mappers) /\ Advance(o) /\ UNCHANGED realms
  <2>1. ~Last(o)
    BY <1>1, LastSteps
  <2>2. GoesOn(o) /\ script'[o].view = NULL /\ UNCHANGED <<dirty, begun>>
    BY <1>1, <1>8, <2>1, AdvanceDoes
  <2>3. Proceeds(o) /\ Running(o)' /\ Onboards(o)'
    BY <1>1, <2>2, GoesOnProceeds DEF GoesOn, Running, Onboards
  <2>4. TypeInv'
    <3>1. ScriptTypes'
      BY <1>1, <2>1, <2>2, GoesOnTypes DEF Onboards
    <3>. QED
      BY <3>1, <1>1, <1>3, <1>8, <2>2, Zenon
         DEF TypeInv, TypeOK, SharedTypes, ScriptTypes
  <2>5. Progress'
    <3>1. RealmSoFar(o, t)
      BY <1>1, <1>2 DEF IInv, Progress
    <3>2. realms[t].mappers = Len(Mappers)
      BY <3>1, <1>1, <1>2, <1>4, <1>8 DEF RealmSoFar
    <3>3. RealmSoFar(o, script[o].tenant)'
      BY <3>2, <1>1, <1>2, <1>8, <2>2 DEF RealmSoFar, GoesOn
    <3>4. \A u \in Tenants : /\ realms[u].mappers <= realms'[u].mappers
                             /\ realms[u].providers <= realms'[u].providers
      BY <1>4, <1>8
    <3>. QED  BY <3>3, <3>4, <1>1, <2>2, <2>4, ProgressStays DEF IInv, GoesOn
  <2>6. Alone' /\ AloneOK' /\ BegunOK' /\ CleanOK' /\ OnboardingRepairs'
    <3>1. HasSecret(o) => HasSecret(o)'
      BY <1>1, <1>2, <1>8, <2>2 DEF HasSecret, GoesOn
    <3>2. HasFiles(o)'
      BY <1>1, <2>2 DEF HasFiles, GoesOn, Onboards, Offboards
    <3>. QED  BY <3>1, <3>2, <1>1, <1>5, <1>6, <2>2, <2>3, OnwardStep
  <2>7. ProvidersInv'
    <3>1. ~(script'[o].step = 3 /\ script'[o].found = 0)
      BY <1>1, <2>2, NullAssumption DEF GoesOn
    <3>. QED  BY <3>1, <1>1, <1>8, <2>3, ProvidersStay DEF IInv
  <2>8. OnboardedCanLogIn'
    BY <1>3, <1>8, <2>2 DEF IInv, OnboardedCanLogIn
  <2>. QED  BY <2>4, <2>5, <2>6, <2>7, <2>8 DEF IInv
<1>9. CASE /\ script[o].found < Len(Mappers)
           /\ realms[script[o].tenant].mappers = script[o].found
           /\ Put(o, "mappers", realms[script[o].tenant].mappers + 1)
           /\ script' = [script EXCEPT ![o].found = @ + 1]
           /\ UNCHANGED <<dirty, begun>>
  <2> DEFINE n == script[o].found + 1
  <2>1. n \in Nat /\ n <= Len(Mappers)
    BY <1>4, <1>9
  <2>2. script' = [script EXCEPT ![o].found = n]
    BY <1>1, <1>9, Zenon DEF TypeOK
  <2>3. Put(o, "mappers", n)
    BY <1>9
  <2>. HIDE DEF n
  <2>4. StaysAt(o) /\ script'[o].found = n /\ script'[o].view = script[o].view
    BY <1>1, <2>1, <2>2, FoundDoes
  <2>5. /\ realms' \in [Tenants -> Realm]
        /\ realms'[t].secret = realms[t].secret
        /\ realms'[t].mappers = n
        /\ realms'[t].providers = realms[t].providers
        /\ \A u \in Tenants \ {t} : realms'[u] = realms[u]
    BY <1>1, <1>2, <2>1, <2>3, PutDoes
  <2>6. Proceeds(o) /\ Running(o)' /\ Onboards(o)'
    BY <1>1, <2>4, StaysAtProceeds DEF StaysAt, Running, Onboards
  <2>7. TypeInv'
    <3>1. ScriptTypes'
      BY <1>1, <2>4, StaysAtTypes DEF Onboards
    <3>. QED
      BY <3>1, <1>1, <1>3, <1>9, <2>5, Zenon
         DEF TypeInv, TypeOK, SharedTypes, ScriptTypes
  <2>8. Progress'
    <3>1. RealmSoFar(o, script[o].tenant)'
      BY <1>1, <1>2, <2>1, <2>4, <2>5 DEF RealmSoFar, StaysAt
    <3>2. \A u \in Tenants : /\ realms[u].mappers <= realms'[u].mappers
                             /\ realms[u].providers <= realms'[u].providers
      BY <1>2, <1>4, <1>9, <2>5 DEF n
    <3>. QED  BY <3>1, <3>2, <1>1, <2>4, <2>7, ProgressStays DEF IInv, StaysAt
  <2>9. Alone' /\ AloneOK' /\ BegunOK' /\ CleanOK' /\ OnboardingRepairs'
    <3>1. HasSecret(o) => HasSecret(o)'
      BY <1>1, <1>2, <2>4, <2>5 DEF HasSecret, StaysAt
    <3>2. HasFiles(o)'
      BY <1>1, <2>4 DEF HasFiles, StaysAt, Onboards, Offboards
    <3>. QED  BY <3>1, <3>2, <1>1, <1>5, <1>6, <1>9, <2>6, OnwardStep
  <2>10. ProvidersInv'
    <3>1. ~(script'[o].step = 3 /\ script'[o].found = 0)
      BY <1>1, <2>4 DEF StaysAt
    <3>2. \A u \in Tenants : realms'[u].providers = realms[u].providers
      BY <2>5
    <3>. QED  BY <3>1, <3>2, <1>1, <2>6, ProvidersStay DEF IInv
  <2>11. OnboardedCanLogIn'
    <3>1. t \in begun
      BY <1>1, <1>2 DEF IInv, BegunOK, Onboards
    <3>. QED  BY <3>1, <1>3, <1>9, <2>5 DEF IInv, OnboardedCanLogIn
  <2>. QED  BY <2>7, <2>8, <2>9, <2>10, <2>11 DEF IInv
<1>. QED  BY <1>7, <1>8, <1>9 DEF EnsureMappers

LEMMA EnsureProviderStep ==
    ASSUME IInv, NEW o \in Operators, EnsureProvider(o) PROVE IInv'
<1>1. /\ TypeInv /\ TypeOK /\ Running(o) /\ Onboards(o)
      /\ Command(o) = "provider" /\ script[o].step = 3
      /\ script[o].found # NULL /\ Advance(o)
  BY CommandIs DEF IInv, TypeInv, EnsureProvider, Sending
<1>2. PICK t \in Tenants : script[o].tenant = t
  BY <1>1, ScriptFields DEF Onboards
<1>3. UNCHANGED <<configs, secrets, files, gateway, runs, failures>>
  BY DEF EnsureProvider
<1>4. ~Last(o)
  BY <1>1, LastSteps
<1>5. GoesOn(o) /\ script'[o].view = NULL /\ UNCHANGED <<dirty, begun>>
  BY <1>1, <1>4, AdvanceDoes
<1>6. Proceeds(o) /\ Running(o)' /\ Onboards(o)'
  BY <1>1, <1>5, GoesOnProceeds DEF GoesOn, Running, Onboards
<1>7. \A u \in Tenants : realms[u].mappers \in Nat /\ realms[u].providers \in Nat
  BY <1>1 DEF TypeOK, Realm, Mappers
<1>8. /\ realms' \in [Tenants -> Realm]
      /\ realms'[t].secret = realms[t].secret
      /\ realms'[t].mappers = realms[t].mappers
      /\ script[o].found = 0 => realms'[t].providers = realms[t].providers + 1
      /\ script[o].found # 0 => realms'[t].providers = realms[t].providers
      /\ \A u \in Tenants \ {t} : realms'[u] = realms[u]
  <2>1. CASE script[o].found = 0
    <3>1. Put(o, "providers", realms[t].providers + 1)
      BY <1>2, <2>1 DEF EnsureProvider
    <3>2. realms[t].providers + 1 \in Nat
      BY <1>7
    <3>. QED  BY <3>1, <3>2, <1>1, <1>2, <2>1, PutDoes
  <2>2. CASE script[o].found # 0
    BY <1>1, <2>2 DEF EnsureProvider, TypeOK
  <2>. QED  BY <2>1, <2>2
<1>9. TypeInv'
  <2>1. ScriptTypes'
    BY <1>1, <1>4, <1>5, GoesOnTypes DEF Onboards
  <2>. QED
    BY <2>1, <1>1, <1>3, <1>5, <1>8, Zenon DEF TypeInv, TypeOK, SharedTypes, ScriptTypes
<1>10. Progress'
  <2>1. RealmSoFar(o, t)
    BY <1>1, <1>2 DEF IInv, Progress
  <2>2. realms'[t].mappers = Len(Mappers) /\ realms'[t].providers > 0
    BY <2>1, <1>1, <1>2, <1>7, <1>8 DEF RealmSoFar
  <2>3. RealmSoFar(o, script[o].tenant)'
    BY <2>2, <1>1, <1>2, <1>5 DEF RealmSoFar, GoesOn
  <2>4. \A u \in Tenants : /\ realms[u].mappers <= realms'[u].mappers
                           /\ realms[u].providers <= realms'[u].providers
    BY <1>7, <1>8
  <2>. QED  BY <2>3, <2>4, <1>1, <1>5, <1>9, ProgressStays DEF IInv, GoesOn
<1>11. Alone' /\ AloneOK' /\ BegunOK' /\ CleanOK' /\ OnboardingRepairs'
  <2>1. HasSecret(o) => HasSecret(o)'
    BY <1>1, <1>2, <1>5, <1>8 DEF HasSecret, GoesOn
  <2>2. HasFiles(o)'
    BY <1>1, <1>5 DEF HasFiles, GoesOn, Onboards, Offboards
  <2>3. script[o].alone => HasSecret(o)
    BY <1>1, Zenon DEF IInv, AloneOK
  <2>4. ~Offboards(o)
    BY <1>1 DEF Onboards, Offboards
  <2>. QED  BY <2>1, <2>2, <2>3, <2>4, <1>1, <1>5, <1>6, OnwardStep
<1>12. ProvidersInv'
  <2>1. ASSUME NEW u \in Tenants
        PROVE  realms'[u].providers + Cardinality(Creating(u)') <= Cardinality(Operators)
    <3>1. Creating(u)' \subseteq Creating(u) \ {o}
      <4>1. ~(script'[o].step = 3 /\ script'[o].found = 0)
        BY <1>1, <1>5 DEF GoesOn
      <4>. QED  BY <4>1, <1>6, CreatingStays
    <3>2. realms[u].providers + Cardinality(Creating(u)) <= Cardinality(Operators)
      BY DEF IInv, ProvidersInv
    <3>3. CASE u = t /\ script[o].found = 0
      <4>1. o \in Creating(u)
        BY <3>3, <1>1, <1>2 DEF Creating
      <4>2. /\ IsFiniteSet(Creating(u) \ {o})
            /\ Cardinality(Creating(u) \ {o}) = Cardinality(Creating(u)) - 1
        BY <4>1, CreatingFew, FS_RemoveElement
      <4>3. /\ Cardinality(Creating(u)') \in Nat
            /\ Cardinality(Creating(u)') <= Cardinality(Creating(u)) - 1
        BY <4>2, <3>1, FS_Subset, FS_CardinalityType
      <4>. QED  BY <4>3, <3>2, <3>3, <1>7, <1>8, CreatingFew
    <3>4. CASE ~(u = t /\ script[o].found = 0)
      <4>1. /\ Cardinality(Creating(u)') \in Nat
            /\ Cardinality(Creating(u)') <= Cardinality(Creating(u))
        BY <3>1, CreatingFew, FS_Subset, FS_CardinalityType
      <4>2. realms'[u].providers = realms[u].providers
        BY <3>4, <1>8
      <4>. QED  BY <4>1, <4>2, <3>2, <1>7, CreatingFew
    <3>. QED  BY <3>3, <3>4
  <2>. QED  BY <2>1 DEF ProvidersInv
<1>13. OnboardedCanLogIn'
  <2>1. t \in begun
    BY <1>1, <1>2 DEF IInv, BegunOK, Onboards
  <2>. QED  BY <2>1, <1>3, <1>5, <1>8 DEF IInv, OnboardedCanLogIn
<1>. QED  BY <1>9, <1>10, <1>11, <1>12, <1>13 DEF IInv

LEMMA WriteConfigStep ==
    ASSUME IInv, NEW o \in Operators, WriteConfig(o) PROVE IInv'
<1>1. /\ TypeInv /\ TypeOK /\ Running(o) /\ Advance(o)
      /\ \/ Command(o) = "upsert" /\ Onboards(o) /\ script[o].step = 4
         \/ Command(o) = "delete" /\ Offboards(o) /\ script[o].step = 1
  BY CommandIs DEF IInv, TypeInv, WriteConfig
<1>2. PICK t \in Tenants : script[o].tenant = t
  BY <1>1, ScriptFields DEF Onboards, Offboards
<1>3. UNCHANGED <<realms, files, gateway, runs, failures>>
  BY DEF WriteConfig
<1>4. ~Last(o)
  BY <1>1, LastSteps
<1>5. GoesOn(o) /\ script'[o].view = NULL /\ UNCHANGED <<dirty, begun>>
  BY <1>1, <1>4, AdvanceDoes
<1>6. Proceeds(o) /\ Running(o)' /\ (Onboards(o)' <=> Onboards(o))
  BY <1>1, <1>5, GoesOnProceeds DEF GoesOn, Running, Onboards
<1>7. /\ script[o].hostname \in Hostnames \cup {NULL}
      /\ script[o].secret \in Nat
  BY <1>1, ScriptFields
<1>8. /\ configs' \in Map
      /\ configs' = [configs EXCEPT ![t] = script[o].hostname]
      /\ secrets' \in [Tenants -> Nat \cup {NULL}]
      /\ Command(o) = "upsert" => secrets'[t] = script[o].secret
      /\ \A u \in Tenants \ {t} : secrets'[u] = secrets[u] /\ configs'[u] = configs[u]
  BY <1>1, <1>2, <1>7 DEF WriteConfig, TypeOK, Map
<1>9. TypeInv'
  <2>1. ScriptTypes'
    BY <1>1, <1>4, <1>5, GoesOnTypes DEF Onboards, Offboards
  <2>. QED
    BY <2>1, <1>1, <1>3, <1>5, <1>8, Zenon DEF TypeInv, TypeOK, SharedTypes, ScriptTypes
<1>10. Progress'
  <2>1. Onboards(o) => RealmSoFar(o, t)
    BY <1>1, <1>2 DEF IInv, Progress
  <2>2. Onboards(o)' => RealmSoFar(o, script[o].tenant)'
    BY <2>1, <1>1, <1>2, <1>3, <1>5, <1>6 DEF RealmSoFar, GoesOn, Onboards, Offboards
  <2>3. \A u \in Tenants : /\ realms[u].mappers <= realms'[u].mappers
                           /\ realms[u].providers <= realms'[u].providers
    BY <1>1, <1>3 DEF TypeOK, Realm
  <2>. QED  BY <2>2, <2>3, <1>1, <1>5, <1>9, ProgressStays DEF IInv, GoesOn
<1>11. Alone' /\ AloneOK' /\ BegunOK' /\ CleanOK' /\ OnboardingRepairs'
  <2>1. Onboards(o) /\ HasSecret(o) => HasSecret(o)'
    BY <1>1, <1>2, <1>3, <1>5, <1>8 DEF HasSecret, GoesOn, Onboards, Offboards
  <2>2. HasFiles(o)'
    BY <1>1, <1>5 DEF HasFiles, GoesOn, Onboards, Offboards
  <2>3. script[o].alone /\ Onboards(o) => HasSecret(o)
    BY <1>1, Zenon DEF IInv, AloneOK
  <2>4. Offboards(o) /\ Covered => Covered'
    <3>1. Offboards(o) => script[o].hostname = NULL
      BY <1>1 DEF TypeInv, ScriptsOK
    <3>2. Offboards(o) => configs'[t] = NULL
      BY <3>1, <1>1, <1>2, <1>8 DEF TypeOK, Map
    <3>. QED  BY <3>2, <1>3, <1>8 DEF Covered
  <2>. QED  BY <2>1, <2>2, <2>3, <2>4, <1>1, <1>5, <1>6, OnwardStep
<1>12. ProvidersInv'
  <2>1. ~(script'[o].step = 3 /\ script'[o].found = 0)
    BY <1>1, <1>5 DEF GoesOn
  <2>. QED  BY <2>1, <1>1, <1>3, <1>6, ProvidersStay DEF IInv
<1>13. OnboardedCanLogIn'
  <2>1. CASE Onboards(o)
    <3>1. t \in begun
      BY <2>1, <1>2 DEF IInv, BegunOK, Onboards
    <3>. QED  BY <3>1, <1>3, <1>5, <1>8 DEF IInv, OnboardedCanLogIn
  <2>2. CASE Offboards(o)
    <3>1. configs'[t] = NULL
      BY <2>2, <1>1, <1>2, <1>8 DEF TypeInv, ScriptsOK, TypeOK, Map
    <3>. QED  BY <3>1, <1>3, <1>5, <1>8 DEF IInv, OnboardedCanLogIn
  <2>. QED  BY <2>1, <2>2, <1>1
<1>. QED  BY <1>9, <1>10, <1>11, <1>12, <1>13 DEF IInv

\* A script of another kind only runs after a mishap.
LEMMA OthersAreMishaps ==
    ASSUME IInv, NEW o \in Operators, Running(o), ~Onboards(o), ~Offboards(o)
    PROVE  dirty = TRUE
BY DEF IInv, CleanOK, TypeInv, TypeOK

LEMMA WriteStarterStep ==
    ASSUME IInv, NEW o \in Operators, WriteStarter(o) PROVE IInv'
<1>1. /\ TypeInv /\ TypeOK /\ Running(o)
      /\ script[o].kind = "assess" /\ script[o].step = 1
  BY CommandIs DEF IInv, TypeInv, WriteStarter
<1>2. PICK t \in Tenants : script[o].tenant = t
  BY <1>1, ScriptFields
<1>3. UNCHANGED <<realms, secrets, files, gateway, runs, failures>>
  BY DEF WriteStarter
<1>4. CASE Abort(o) /\ UNCHANGED configs
  BY <1>1, <1>3, <1>4, AbortStep DEF TypeOK
<1>5. CASE configs' = [configs EXCEPT ![t] = script[o].hostname] /\ Advance(o)
  <2>1. Last(o) /\ ~Onboards(o) /\ ~Offboards(o)
    BY <1>1, LastSteps DEF Onboards, Offboards
  <2>2. dirty = TRUE
    BY <2>1, <1>1, OthersAreMishaps
  <2>3. Ends(o) /\ dirty' = TRUE /\ begun' = begun
    BY <1>1, <1>5, <2>1, <2>2, AdvanceDoes
  <2>4. ~Onboards(o)'
    BY <2>3, NoScriptType, NoKind DEF Ends, Onboards, Kinds
  <2>5. configs' \in Map
    BY <1>1, <1>5, ScriptFields DEF TypeOK, Map
  <2>6. TypeInv'
    <3>1. ScriptTypes'
      BY <1>1, <2>3, EndsTypes
    <3>. QED
      BY <3>1, <1>1, <1>3, <2>3, <2>5 DEF TypeInv, TypeOK, SharedTypes, ScriptTypes
  <2>7. Progress'
    <3>1. \A u \in Tenants : /\ realms[u].mappers <= realms'[u].mappers
                             /\ realms[u].providers <= realms'[u].providers
      BY <1>1, <1>3 DEF TypeOK, Realm
    <3>. QED  BY <3>1, <1>1, <2>3, <2>4, <2>6, ProgressStays DEF IInv, Ends
  <2>8. ProvidersInv'
    BY <1>1, <1>3, <2>3, <2>4, EndsProceeds, ProvidersStay DEF IInv
  <2>9. OnboardedCanLogIn'
    <3>1. t \in begun
      BY <1>1, <1>2 DEF IInv, BegunOK
    <3>. QED  BY <3>1, <1>1, <1>3, <1>5, <2>3 DEF IInv, OnboardedCanLogIn, TypeOK, Map
  <2>. QED  BY <1>1, <2>3, <2>6, <2>7, <2>8, <2>9, MishapStep DEF IInv
<1>. QED  BY <1>2, <1>4, <1>5 DEF WriteStarter

LEMMA LoadTenantsStep ==
    ASSUME IInv, NEW o \in Operators, LoadTenants(o) PROVE IInv'
<1>1. /\ TypeInv /\ TypeOK /\ Running(o)
      /\ Command(o) \in {"policies", "auth", "envoy"}
      /\ \/ Onboards(o) /\ script[o].step \in 5..7
         \/ Offboards(o) /\ script[o].step \in 2..3
         \/ script[o].kind = "publish"
  BY CommandIs DEF IInv, TypeInv, LoadTenants, Files
<1>2. UNCHANGED <<realms, configs, secrets, files, gateway, runs, failures>>
  BY DEF LoadTenants, kept
<1>3. CASE Abort(o)
  BY <1>1, <1>2, <1>3, AbortStep DEF TypeOK
<1>4. CASE script' = [script EXCEPT ![o].view = configs] /\ UNCHANGED <<dirty, begun>>
  <2>1. StaysAt(o) /\ script'[o].found = script[o].found /\ script'[o].view = configs
    BY <1>1, <1>4, ViewDoes DEF TypeOK
  <2>2. Proceeds(o) /\ Running(o)' /\ (Onboards(o)' <=> Onboards(o))
    BY <1>1, <2>1, StaysAtProceeds DEF StaysAt, Running, Onboards
  <2>3. TypeInv'
    <3>1. ScriptTypes'
      BY <1>1, <2>1, StaysAtTypes DEF TypeOK
    <3>. QED
      BY <3>1, <1>1, <1>2, <1>4, Zenon DEF TypeInv, TypeOK, SharedTypes, ScriptTypes
  <2>4. Progress'
    <3>1. Onboards(o) => RealmSoFar(o, script[o].tenant)
      BY DEF IInv, Progress
    <3>2. Onboards(o)' => RealmSoFar(o, script[o].tenant)'
      BY <3>1, <1>2, <2>1, <2>2 DEF RealmSoFar, StaysAt
    <3>3. \A u \in Tenants : /\ realms[u].mappers <= realms'[u].mappers
                             /\ realms[u].providers <= realms'[u].providers
      BY <1>1, <1>2 DEF TypeOK, Realm
    <3>. QED  BY <3>2, <3>3, <1>1, <2>1, <2>3, ProgressStays DEF IInv, StaysAt
  <2>5. Alone' /\ AloneOK' /\ BegunOK' /\ CleanOK' /\ OnboardingRepairs'
    <3>1. HasSecret(o) => HasSecret(o)'
      BY <1>2, <2>1 DEF HasSecret, StaysAt
    <3>2. HasFiles(o) => HasFiles(o)'
      BY <1>2, <2>1 DEF HasFiles, StaysAt, Onboards, Offboards
    <3>3. script[o].alone => (Onboards(o) => HasSecret(o)) /\ HasFiles(o)
      BY <1>1, Zenon DEF IInv, AloneOK
    <3>4. Covered => Covered'
      BY <1>2 DEF Covered
    <3>. QED  BY <3>1, <3>2, <3>3, <3>4, <1>1, <1>4, <2>2, OnwardStep
  <2>6. ProvidersInv'
    <3>1. Onboards(o)' => ~(script'[o].step = 3 /\ script'[o].found = 0)
      BY <1>1, <2>1, <2>2 DEF StaysAt, Onboards, Offboards
    <3>. QED  BY <3>1, <1>1, <1>2, <2>2, ProvidersStay DEF IInv
  <2>7. OnboardedCanLogIn'
    BY <1>2, <1>4 DEF IInv, OnboardedCanLogIn
  <2>. QED  BY <2>3, <2>4, <2>5, <2>6, <2>7 DEF IInv
<1>. QED  BY <1>3, <1>4 DEF LoadTenants

LEMMA WriteFileStep ==
    ASSUME IInv, NEW o \in Operators, WriteFile(o) PROVE IInv'
<1> DEFINE c == Command(o)
           m == script[o].view
<1>1. /\ TypeInv /\ TypeOK /\ Running(o) /\ m # NULL
      /\ \/ Onboards(o) /\ script[o].step = 5 /\ c = "policies"
         \/ Onboards(o) /\ script[o].step = 6 /\ c = "auth"
         \/ Onboards(o) /\ script[o].step = 7 /\ c = "envoy"
         \/ Offboards(o) /\ script[o].step = 2 /\ c = "policies"
         \/ Offboards(o) /\ script[o].step = 3 /\ c = "envoy"
         \/ script[o].kind = "publish"
  BY CommandIs DEF IInv, TypeInv, WriteFile, Files
<1>2. c \in Files /\ m \in Map
  BY <1>1, ScriptFields DEF WriteFile
<1>3. UNCHANGED <<realms, configs, secrets, gateway, runs, failures>>
  BY DEF WriteFile, kept
<1>4. /\ files' \in [Files -> Map]
      /\ files'[c] = m
      /\ \A f \in Files \ {c} : files'[f] = files[f]
  BY <1>1, <1>2 DEF WriteFile, Written, TypeOK
<1>. HIDE DEF c, m
<1>5. \A u \in Tenants : /\ realms[u].mappers <= realms'[u].mappers
                         /\ realms[u].providers <= realms'[u].providers
  BY <1>1, <1>3 DEF TypeOK, Realm
<1>6. CASE Onboards(o) \/ Offboards(o)
  <2>1. ~Last(o) /\ Advance(o)
    BY <1>1, <1>6, LastSteps DEF WriteFile, Onboards, Offboards
  <2>2. GoesOn(o) /\ script'[o].view = NULL /\ UNCHANGED <<dirty, begun>>
    BY <1>1, <2>1, AdvanceDoes
  <2>3. Proceeds(o) /\ Running(o)' /\ (Onboards(o)' <=> Onboards(o))
    BY <1>1, <2>2, GoesOnProceeds DEF GoesOn, Running, Onboards
  <2>4. TypeInv'
    <3>1. ScriptTypes'
      BY <1>1, <1>6, <2>1, <2>2, GoesOnTypes DEF Onboards, Offboards
    <3>. QED
      BY <3>1, <1>1, <1>3, <1>4, <2>2, Zenon DEF TypeInv, TypeOK, SharedTypes, ScriptTypes
  <2>5. Progress'
    <3>1. Onboards(o) => RealmSoFar(o, script[o].tenant)
      BY DEF IInv, Progress
    <3>2. Onboards(o)' => RealmSoFar(o, script[o].tenant)'
      BY <3>1, <1>1, <1>3, <1>6, <2>2, <2>3 DEF RealmSoFar, GoesOn, Onboards, Offboards
    <3>. QED  BY <3>2, <1>1, <1>5, <2>2, <2>4, ProgressStays DEF IInv, GoesOn
  <2>6. Alone' /\ AloneOK' /\ BegunOK' /\ CleanOK' /\ OnboardingRepairs'
    <3>1. Onboards(o) /\ HasSecret(o) => HasSecret(o)'
      BY <1>1, <1>3, <2>2 DEF HasSecret, GoesOn, Onboards, Offboards
    <3>2. HasFiles(o) => HasFiles(o)'
      <4>1. Onboards(o)' <=> Onboards(o)
        BY <2>3
      <4>2. Offboards(o)' <=> Offboards(o)
        BY <2>2 DEF GoesOn, Offboards
      <4>. QED
        BY <4>1, <4>2, <1>1, <1>3, <1>4, <1>6, <2>2
           DEF HasFiles, GoesOn, Onboards, Offboards, Files, m
    <3>3. script[o].alone => (Onboards(o) => HasSecret(o)) /\ HasFiles(o)
      BY <1>1, Zenon DEF IInv, AloneOK
    <3>4. Offboards(o) /\ Covered => Covered'
      BY <1>1, <1>3, <1>4 DEF Covered, Files, Onboards, Offboards
    <3>. QED  BY <3>1, <3>2, <3>3, <3>4, <1>1, <2>2, <2>3, OnwardStep
  <2>7. ProvidersInv'
    <3>1. ~(script'[o].step = 3 /\ script'[o].found = 0)
      BY <2>2, NullAssumption DEF GoesOn
    <3>. QED  BY <3>1, <1>1, <1>3, <2>3, ProvidersStay DEF IInv
  <2>8. OnboardedCanLogIn'
    BY <1>3, <2>2 DEF IInv, OnboardedCanLogIn
  <2>. QED  BY <2>4, <2>5, <2>6, <2>7, <2>8 DEF IInv
<1>7. CASE ~Onboards(o) /\ ~Offboards(o)
  <2>1. dirty = TRUE
    BY <1>1, <1>7, OthersAreMishaps
  <2>2. script[o].kind = "publish"
    BY <1>1, <1>7
  <2>3. CASE Last(o)
    <3>1. Advance(o)
      BY <2>3 DEF WriteFile
    <3>2. Ends(o) /\ dirty' = TRUE /\ begun' = begun
      BY <1>1, <1>7, <2>1, <2>3, <3>1, AdvanceDoes
    <3>3. ~Onboards(o)'
      BY <3>2, NoScriptType, NoKind DEF Ends, Onboards, Kinds
    <3>4. TypeInv'
      <4>1. ScriptTypes'
        BY <1>1, <3>2, EndsTypes
      <4>. QED
        BY <4>1, <1>1, <1>3, <1>4, <3>2 DEF TypeInv, TypeOK, SharedTypes, ScriptTypes
    <3>5. Progress'
      BY <1>1, <1>5, <3>2, <3>3, <3>4, ProgressStays DEF IInv, Ends
    <3>6. ProvidersInv'
      BY <1>1, <1>3, <3>2, <3>3, EndsProceeds, ProvidersStay DEF IInv
    <3>7. OnboardedCanLogIn'
      BY <1>3, <3>2 DEF IInv, OnboardedCanLogIn
    <3>. QED  BY <1>1, <3>2, <3>4, <3>5, <3>6, <3>7, MishapStep DEF IInv
  <2>4. CASE ~Last(o)
    <3>1. script' = [script EXCEPT ![o].step = @ + 1] /\ UNCHANGED <<dirty, begun>>
      BY <2>2, <2>4 DEF WriteFile
    <3>2. /\ script' \in [Operators -> Script]
          /\ script'[o].kind = "publish"
          /\ script'[o].tenant = script[o].tenant
          /\ script'[o].alone = script[o].alone
          /\ script'[o].step = script[o].step + 1
          /\ script'[o].view = script[o].view
          /\ OthersKeep(o)
      BY <1>1, <2>2, <3>1, StepDoes, Zenon
    <3>3. Proceeds(o) /\ Running(o)' /\ ~Onboards(o)' /\ ~Offboards(o)'
      <4>1. Proceeds(o)
        BY <2>2, <3>2, Zenon DEF Proceeds
      <4>2. "publish" # NULL
        BY NoKind DEF Kinds
      <4>. QED  BY <4>1, <4>2, <3>2 DEF Running, Onboards, Offboards
    <3>4. TypeInv'
      <4>1. script[o].step + 1 \in DOMAIN Commands["publish"]
        BY <1>1, <2>2, <2>4, LastSteps
      <4>2. ASSUME NEW p \in Operators, Running(p)'
            PROVE  script'[p].step \in DOMAIN Commands[script'[p].kind]
        BY <4>1, <4>2, <1>1, <3>2 DEF OthersKeep, TypeOK, Running
      <4>3. ScriptsOK'
        BY <1>1, <1>2, <3>2, <2>2 DEF OthersKeep, TypeInv, ScriptsOK, Offboards, m
      <4>4. ScriptTypes'
        BY <4>2, <4>3, <3>2, Zenon DEF ScriptTypes
      <4>. QED
        BY <4>4, <1>1, <1>3, <1>4, <3>1, Zenon
           DEF TypeInv, TypeOK, SharedTypes, ScriptTypes
    <3>5. Progress'
      BY <1>1, <1>5, <3>2, <3>3, <3>4, ProgressStays DEF IInv
    <3>6. Alone' /\ AloneOK' /\ BegunOK' /\ CleanOK' /\ OnboardingRepairs'
      <4>1. HasFiles(o)'
        BY <3>3 DEF HasFiles
      <4>. QED  BY <4>1, <1>1, <1>7, <3>1, <3>3, OnwardStep
    <3>7. ProvidersInv'
      BY <1>1, <1>3, <3>3, ProvidersStay DEF IInv
    <3>8. OnboardedCanLogIn'
      BY <1>3, <3>1 DEF IInv, OnboardedCanLogIn
    <3>. QED  BY <3>4, <3>5, <3>6, <3>7, <3>8 DEF IInv
  <2>. QED  BY <2>3, <2>4
<1>. QED  BY <1>6, <1>7

\* What a script that ends and changes neither Keycloak nor the configs keeps.
LEMMA EndKeeps ==
    ASSUME IInv, NEW o \in Operators, Ends(o), ~Onboards(o)', ~Running(o)',
           ScriptTypes', begun' \subseteq Tenants, dirty' \in BOOLEAN,
           gateway' \in Map, failures' \in 0..MaxFailures,
           UNCHANGED <<realms, configs, secrets, files, runs>>
    PROVE  TypeInv' /\ Progress' /\ ProvidersInv'
<1>1. TypeInv /\ TypeOK
  BY DEF IInv, TypeInv
<1>2. TypeInv'
  BY <1>1, Zenon DEF TypeInv, TypeOK, SharedTypes, ScriptTypes
<1>3. \A u \in Tenants : /\ realms[u].mappers <= realms'[u].mappers
                         /\ realms[u].providers <= realms'[u].providers
  BY <1>1 DEF TypeOK, Realm
<1>4. Progress'
  BY <1>2, <1>3, ProgressStays DEF IInv, Ends
<1>5. ProvidersInv'
  BY <1>1, EndsProceeds, ProvidersStay DEF IInv
<1>. QED  BY <1>2, <1>4, <1>5

\* An onboarding that has come to its last command by itself has completed the realm and
\* written its secret to the config; and when it is over nobody is at work.
LEMMA OnboardedAlone ==
    ASSUME IInv, NEW o \in Operators, Running(o), Onboards(o),
           script[o].step = 8, script[o].alone,
           Ends(o), ~Onboards(o)', ~Running(o)', begun' = begun \ {script[o].tenant},
           UNCHANGED <<realms, configs, secrets, files>>
    PROVE  Alone' /\ AloneOK' /\ BegunOK' /\ OnboardedCanLogIn'
<1>1. TypeInv /\ TypeOK
  BY DEF IInv, TypeInv
<1>2. \A p \in Operators : ~Running(p)'
  <2>1. \A p \in Operators \ {o} : ~Running(p)
    BY Zenon DEF IInv, Alone
  <2>. QED  BY <2>1 DEF Ends, OthersKeep, Running
<1>3. Alone' /\ AloneOK'
  BY <1>2, Zenon DEF Alone, AloneOK
<1>4. BegunOK'
  <2>1. \A p \in Operators : script'[p].kind \notin {"onboard", "assess"}
    BY <1>2, NoKind DEF Running, Kinds
  <2>. QED  BY <2>1 DEF BegunOK
<1>5. OnboardedCanLogIn'
  <2>1. PICK t \in Tenants : script[o].tenant = t
    BY <1>1, ScriptFields DEF Onboards
  <2>2. HasSecret(o)
    BY Zenon DEF IInv, AloneOK
  <2>3. RealmSoFar(o, t)
    BY <2>1 DEF IInv, Progress
  <2>4. /\ realms[t].secret = secrets[t]
        /\ realms[t].mappers = Len(Mappers)
        /\ realms[t].providers > 0
    BY <2>1, <2>2, <2>3 DEF HasSecret, RealmSoFar, Onboards
  <2>5. \A u \in Tenants : u \notin begun' => u \notin begun \/ u = t
    BY <2>1
  <2>. QED  BY <2>4, <2>5 DEF IInv, OnboardedCanLogIn
<1>. QED  BY <1>3, <1>4, <1>5

LEMMA RestartEnvoyStep ==
    ASSUME IInv, NEW o \in Operators, RestartEnvoy(o) PROVE IInv'
<1>1. /\ TypeInv /\ TypeOK /\ Running(o)
      /\ \/ Onboards(o) /\ script[o].step = 8
         \/ Offboards(o) /\ script[o].step = 4
  BY CommandIs DEF IInv, TypeInv, RestartEnvoy
<1>2. UNCHANGED <<realms, configs, secrets, files, runs>>
  BY DEF RestartEnvoy, kept
<1>3. CASE /\ failures < MaxFailures /\ failures' = failures + 1
           /\ RunsThrough(o) /\ dirty' = TRUE /\ UNCHANGED gateway
  <2>1. failures' \in 0..MaxFailures
    BY <1>1, <1>3, BoundsAssumption DEF TypeOK
  <2>2. CASE Repairs(o)
    <3>1. /\ Onboards(o) /\ script[o].alone
          /\ Ends(o) /\ begun' = begun \ {script[o].tenant}
      BY <1>1, <1>3, <2>2, NoScriptType
         DEF Repairs, RunsThrough, Onboards, Ends, OthersKeep, TypeOK
    <3>2. ~Onboards(o)' /\ ~Running(o)'
      BY <3>1, NoScriptType, NoKind DEF Ends, Onboards, Running, Kinds
    <3>3. TypeInv' /\ Progress' /\ ProvidersInv'
      <4>1. ScriptTypes' /\ begun' \subseteq Tenants /\ dirty' \in BOOLEAN
        BY <1>1, <1>3, <3>1, EndsTypes DEF TypeOK
      <4>. QED  BY <1>1, <1>2, <1>3, <2>1, <3>1, <3>2, <4>1, EndKeeps DEF TypeOK
    <3>4. Alone' /\ AloneOK' /\ BegunOK' /\ OnboardedCanLogIn'
      <4>1. script[o].step = 8
        BY <1>1, <3>1 DEF Onboards, Offboards
      <4>. QED  BY <4>1, <1>1, <1>2, <3>1, <3>2, OnboardedAlone
    <3>5. CleanOK' /\ OnboardingRepairs'
      BY <1>3, Zenon DEF CleanOK, OnboardingRepairs
    <3>. QED  BY <3>3, <3>4, <3>5 DEF IInv
  <2>3. CASE ~Repairs(o)
    <3>1. Abort(o)
      BY <1>3, <2>3 DEF RunsThrough, Abort
    <3>. QED  BY <2>1, <3>1, <1>1, <1>2, <1>3, AbortStep DEF TypeOK
  <2>. QED  BY <2>2, <2>3
<1>4. CASE gateway' = files["envoy"] /\ Advance(o) /\ UNCHANGED failures
  <2>1. Last(o)
    BY <1>1, LastSteps
  <2>2. /\ Ends(o)
        /\ \/ /\ Onboards(o) /\ script[o].alone
              /\ dirty' = FALSE
              /\ begun' = begun \ {script[o].tenant}
           \/ /\ ~(Onboards(o) /\ script[o].alone)
              /\ UNCHANGED <<dirty, begun>>
    BY <1>1, <1>4, <2>1, AdvanceDoes
  <2>3. ~Onboards(o)' /\ ~Running(o)'
    BY <2>2, NoScriptType, NoKind DEF Ends, Onboards, Running, Kinds
  <2>4. /\ TypeInv'
        /\ Progress'
        /\ ProvidersInv'
    <3>1. ScriptTypes' /\ begun' \subseteq Tenants /\ dirty' \in BOOLEAN
      BY <1>1, <1>4, <2>1, AdvanceTypes
    <3>2. gateway' \in Map
      BY <1>1, <1>4 DEF TypeOK, Files
    <3>. QED
      BY <3>1, <3>2, <1>1, <1>2, <1>4, <2>2, <2>3, EndKeeps DEF TypeOK
  <2>5. CASE script[o].alone
    <3>1. \A p \in Operators : ~Running(p)'
      <4>1. \A p \in Operators \ {o} : ~Running(p)
        BY <1>1, <2>5, Zenon DEF IInv, Alone
      <4>. QED  BY <4>1, <2>2, <2>3 DEF Ends, OthersKeep, Running
    <3>2. Alone' /\ AloneOK'
      BY <3>1, Zenon DEF Alone, AloneOK
    <3>3. BegunOK'
      <4>1. \A p \in Operators : script'[p].kind \notin {"onboard", "assess"}
        BY <3>1, NoKind DEF Running, Kinds
      <4>. QED  BY <4>1 DEF BegunOK
    <3>4. (Onboards(o) => HasSecret(o)) /\ HasFiles(o)
      BY <1>1, <2>5, Zenon DEF IInv, AloneOK
    <3>5. ~dirty' => /\ files["policies"] = configs
                     /\ files["envoy"] = configs
                     /\ Covered
      <4>1. CASE Onboards(o)
        BY <4>1, <3>4, <1>1 DEF HasFiles, Covered, Onboards, Offboards
      <4>2. CASE Offboards(o)
        <5>1. files["policies"] = configs /\ files["envoy"] = configs
          BY <4>2, <3>4, <1>1 DEF HasFiles, Onboards, Offboards
        <5>2. \A p \in Operators : ~Onboards(p)
          <6>1. \A p \in Operators \ {o} : ~Running(p)
            BY <1>1, <2>5, Zenon DEF IInv, Alone
          <6>2. ~Onboards(o)
            BY <4>2 DEF Onboards, Offboards
          <6>3. ASSUME NEW p \in Operators, Onboards(p) PROVE FALSE
            BY <6>1, <6>2, <6>3, NoKind DEF Running, Onboards, Kinds
          <6>. QED  BY <6>3
        <5>3. ~dirty' => ~dirty
          BY <4>2, <2>2 DEF Onboards, Offboards
        <5>4. ~dirty => Covered
          BY <5>2, Zenon DEF IInv, CleanOK
        <5>. QED  BY <5>1, <5>3, <5>4, Zenon
      <4>. QED  BY <4>1, <4>2, <1>1
    <3>6. CleanOK'
      <4>1. Covered => Covered'
        BY <1>2 DEF Covered
      <4>. QED  BY <4>1, <3>1, <3>5, Zenon DEF CleanOK
    <3>7. OnboardingRepairs'
      BY <3>5, <1>2, <1>4 DEF OnboardingRepairs, Covered
    <3>8. OnboardedCanLogIn'
      <4>1. CASE Onboards(o)
        <5>1. script[o].step = 8 /\ begun' = begun \ {script[o].tenant}
          BY <4>1, <1>1, <2>2, <2>5 DEF Onboards, Offboards
        <5>. QED  BY <5>1, <4>1, <1>1, <1>2, <2>2, <2>3, <2>5, OnboardedAlone
      <4>2. CASE ~Onboards(o)
        BY <4>2, <2>2, <1>2 DEF IInv, OnboardedCanLogIn
      <4>. QED  BY <4>1, <4>2
    <3>. QED  BY <3>2, <3>3, <3>6, <3>7, <3>8, <2>4 DEF IInv
  <2>6. CASE ~script[o].alone
    <3>1. dirty = TRUE
      BY <1>1, <2>6, Zenon DEF IInv, CleanOK, TypeOK
    <3>2. dirty' = TRUE /\ begun' = begun
      BY <2>2, <2>6, <3>1
    <3>3. OnboardedCanLogIn'
      BY <1>2, <3>2 DEF IInv, OnboardedCanLogIn
    <3>. QED  BY <1>1, <2>2, <2>4, <3>2, <3>3, MishapStep DEF IInv
  <2>. QED  BY <2>5, <2>6
<1>. QED  BY <1>3, <1>4 DEF RestartEnvoy

\* A script that starts is alone if there is no other, and has done nothing yet.
LEMMA StartStep ==
    ASSUME IInv, NEW o \in Operators, NEW kind \in Kinds,
           NEW t \in Tenants \cup {NULL}, NEW h \in Hostnames \cup {NULL},
           NEW view \in Map \cup {NULL},
           Start(o, kind, t, h, view),
           kind # "publish" => t \in Tenants,
           kind \in {"onboard", "assess"} => h \in Hostnames,
           kind = "offboard" => h = NULL,
           kind = "publish" => view \in Map
    PROVE  IInv'
<1>1. TypeInv /\ TypeOK /\ ~Running(o)
  BY DEF IInv, TypeInv, Start
<1>2. TypeInv'
  BY <1>1, StartTypes
<1>3. Starts(o, kind, t, h, view)
  BY <1>1, StartDoes
<1>4. /\ UNCHANGED <<realms, configs, secrets, files, gateway>>
      /\ begun \subseteq begun'
      /\ kind \in {"onboard", "assess"} => t \in begun'
  BY DEF Start, kept
<1>5. /\ script'[o].kind = kind
      /\ script'[o].tenant = t
      /\ script'[o].step = 1
      /\ script'[o].found = NULL
      /\ \A p \in Operators \ {o} :
             /\ script'[p].kind = script[p].kind
             /\ script'[p].tenant = script[p].tenant
             /\ script'[p].step = script[p].step
             /\ script'[p].found = script[p].found
  BY <1>3, Zenon DEF Starts
<1>6. /\ script'[o].alone = Quiet
      /\ \A p \in Operators \ {o} : ~script'[p].alone
  BY <1>3, Zenon DEF Starts
<1>7. /\ Running(o)'
      /\ \A p \in Operators \ {o} : Running(p)' <=> Running(p)
  BY <1>5, NoKind DEF Running
<1>8. Progress'
  <2>1. ASSUME NEW p \in Operators, Onboards(p)'
        PROVE  RealmSoFar(p, script[p].tenant)'
    <3>1. CASE p = o
      BY <3>1, <1>5 DEF RealmSoFar
    <3>2. CASE p # o
      <4>1. RealmSoFar(p, script[p].tenant)
        BY <2>1, <3>2, <1>5 DEF IInv, Progress, Onboards
      <4>. QED  BY <4>1, <3>2, <1>4, <1>5 DEF RealmSoFar
    <3>. QED  BY <3>1, <3>2
  <2>. QED  BY <2>1 DEF Progress
<1>9. ASSUME NEW p \in Operators, script'[p].alone
      PROVE  p = o /\ Quiet
  BY <1>6, <1>9, Zenon
<1>10. Alone'
  <2>1. ASSUME NEW p \in Operators, NEW q \in Operators, script'[p].alone, Running(q)'
        PROVE  p = q
    <3>1. p = o /\ \A r \in Operators : ~Running(r)
      BY <2>1, <1>9, Zenon DEF Quiet
    <3>. QED  BY <3>1, <2>1, <1>7, Zenon
  <2>. QED  BY <2>1, Zenon DEF Alone
<1>11. AloneOK'
  <2>1. HasSecret(o)' /\ HasFiles(o)'
    BY <1>5 DEF HasSecret, HasFiles
  <2>. QED  BY <2>1, <1>9, Zenon DEF AloneOK
<1>12. BegunOK'
  BY <1>4, <1>5 DEF IInv, BegunOK
<1>13. CleanOK'
  <2>. SUFFICES ASSUME ~dirty'
       PROVE  /\ \A p \in Operators :
                     Running(p)' => script'[p].alone /\ (Onboards(p)' \/ Offboards(p)')
              /\ (\A p \in Operators : ~Onboards(p)') => Covered'
    BY Zenon DEF CleanOK
  <2>1. ~dirty /\ Quiet /\ kind \notin {"publish", "assess"}
    BY Zenon DEF Start
  <2>2. \A p \in Operators : ~Running(p)
    BY <2>1, Zenon DEF Quiet
  <2>3. Onboards(o)' \/ Offboards(o)'
    BY <2>1, <1>5 DEF Kinds, Onboards, Offboards
  <2>4. script'[o].alone
    BY <2>1, <1>6, Zenon
  <2>5. Covered'
    <3>1. ASSUME NEW p \in Operators, Onboards(p) PROVE FALSE
      BY <2>2, <3>1, NoKind DEF Running, Onboards, Kinds
    <3>2. Covered
      BY <2>1, <3>1, Zenon DEF IInv, CleanOK
    <3>. QED  BY <3>2, <1>4 DEF Covered
  <2>. QED  BY <2>2, <2>3, <2>4, <2>5, <1>7, Zenon
<1>14. ProvidersInv'
  <2>1. ASSUME NEW u \in Tenants
        PROVE  realms[u].providers + Cardinality(Creating(u)') <= Cardinality(Operators)
    <3>1. Creating(u)' \subseteq Creating(u)
      BY <1>5 DEF Creating, Onboards
    <3>2. /\ Cardinality(Creating(u)') \in Nat
          /\ Cardinality(Creating(u)') <= Cardinality(Creating(u))
      BY <3>1, CreatingFew, FS_Subset, FS_CardinalityType
    <3>3. realms[u].providers + Cardinality(Creating(u)) <= Cardinality(Operators)
      BY DEF IInv, ProvidersInv
    <3>4. realms[u].providers \in Nat
      BY <1>1 DEF TypeOK, Realm
    <3>. QED  BY <3>2, <3>3, <3>4, CreatingFew
  <2>. QED  BY <2>1, <1>4 DEF ProvidersInv
<1>15. OnboardedCanLogIn'
  BY <1>4 DEF IInv, OnboardedCanLogIn
<1>16. OnboardingRepairs'
  <2>1. ~Quiet'
    BY <1>7 DEF Quiet
  <2>. QED  BY <2>1, Zenon DEF OnboardingRepairs
<1>. QED
  BY <1>2, <1>8, <1>10, <1>11, <1>12, <1>13, <1>14, <1>15, <1>16 DEF IInv

\* A restart of Envoy loads the file, and leaves the scripts alone.
LEMMA EnvoyRestartsStep ==
    ASSUME IInv, EnvoyRestarts PROVE IInv'
<1>1. /\ UNCHANGED <<realms, configs, secrets, files, script, dirty>>
      /\ UNCHANGED <<begun, runs, failures>>
  BY DEF EnvoyRestarts, kept
<1>2. gateway' \in Map
  BY DEF EnvoyRestarts, IInv, TypeInv, TypeOK, Files
<1>3. TypeInv'
  BY <1>1, <1>2, Zenon DEF IInv, TypeInv, TypeOK, ScriptsOK, Running, Onboards, Offboards
<1>4. Progress' /\ Alone' /\ BegunOK'
  BY <1>1, Zenon DEF IInv, Progress, RealmSoFar, Alone, BegunOK, Running, Onboards
<1>5. AloneOK'
  BY <1>1, Zenon DEF IInv, AloneOK, HasSecret, HasFiles, Running, Onboards, Offboards
<1>6. CleanOK'
  BY <1>1, Zenon DEF IInv, CleanOK, Covered, Running, Onboards, Offboards
<1>7. ProvidersInv'
  BY <1>1, Zenon DEF IInv, ProvidersInv, Creating, Onboards
<1>8. OnboardedCanLogIn'
  BY <1>1, Zenon DEF IInv, OnboardedCanLogIn
<1>9. OnboardingRepairs'
  <2>1. Quiet' /\ ~dirty' => Quiet /\ ~dirty
    BY <1>1, Zenon DEF Quiet, Running
  <2>. QED  BY <1>1, <2>1 DEF IInv, OnboardingRepairs, EnvoyRestarts
<1>. QED  BY <1>3, <1>4, <1>5, <1>6, <1>7, <1>8, <1>9 DEF IInv

LEMMA StutterStep ==
    ASSUME IInv, UNCHANGED vars PROVE IInv'
<1>1. /\ UNCHANGED <<realms, configs, secrets, files, gateway, script, dirty>>
      /\ UNCHANGED <<begun, runs, failures>>
  BY DEF vars
<1>2. TypeInv'
  BY <1>1, Zenon DEF IInv, TypeInv, TypeOK, ScriptsOK, Running, Onboards, Offboards
<1>3. Progress' /\ Alone' /\ BegunOK'
  BY <1>1, Zenon DEF IInv, Progress, RealmSoFar, Alone, BegunOK, Running, Onboards
<1>4. AloneOK'
  BY <1>1, Zenon DEF IInv, AloneOK, HasSecret, HasFiles, Running, Onboards, Offboards
<1>5. CleanOK'
  BY <1>1, Zenon DEF IInv, CleanOK, Covered, Running, Onboards, Offboards
<1>6. ProvidersInv'
  BY <1>1, Zenon DEF IInv, ProvidersInv, Creating, Onboards
<1>7. OnboardedCanLogIn' /\ OnboardingRepairs'
  BY <1>1, Zenon DEF IInv, OnboardedCanLogIn, OnboardingRepairs, Quiet, Running
<1>. QED  BY <1>2, <1>3, <1>4, <1>5, <1>6, <1>7 DEF IInv

LEMMA InitInv == Init => IInv
<1>. SUFFICES ASSUME Init PROVE IInv
  OBVIOUS
<1>1. PICK m \in Map : configs = m
  BY DEF Init
<1>2. /\ \A o \in Operators : script[o] = NoScript
      /\ script \in [Operators -> Script]
  BY NoScriptType DEF Init
<1>3. \A o \in Operators : ~Running(o) /\ script[o].kind \notin Kinds
  BY <1>2, NoScriptType, NoKind DEF Running
<1>4. \A o \in Operators : ~Onboards(o) /\ ~Offboards(o)
  BY <1>3 DEF Onboards, Offboards, Kinds
<1>5. /\ realms \in [Tenants -> Realm]
      /\ \A t \in Tenants : /\ configs[t] # NULL => /\ realms[t].mappers = Len(Mappers)
                                                   /\ realms[t].providers = 1
                            /\ realms[t].providers \in 0..1
                            /\ secrets[t] = realms[t].secret
      /\ secrets \in [Tenants -> Nat \cup {NULL}]
  <2>1. NoRealm \in Realm /\ NoRealm.providers = 0 /\ NoRealm.secret = NULL
    BY DEF NoRealm, Realm, Mappers
  <2>2. [secret |-> 0, mappers |-> Len(Mappers), providers |-> 1] \in Realm
    BY DEF Realm, Mappers
  <2>3. realms \in [Tenants -> Realm]
    BY <2>1, <2>2 DEF Init
  <2>4. \A t \in Tenants : realms[t].secret \in Nat \cup {NULL}
    BY <2>3 DEF Realm
  <2>. QED  BY <2>1, <2>3, <2>4 DEF Init
<1>6. TypeInv
  <2>1. SharedTypes
    <3>1. configs \in Map /\ gateway \in Map /\ files \in [Files -> Map]
      BY <1>1 DEF Init
    <3>2. dirty \in BOOLEAN /\ begun \subseteq Tenants
      BY DEF Init
    <3>3. runs \in 0..MaxRuns /\ failures \in 0..MaxFailures
      BY BoundsAssumption DEF Init
    <3>. QED  BY <1>5, <3>1, <3>2, <3>3, Zenon DEF SharedTypes
  <2>2. ScriptsOK
    BY <1>3, <1>4 DEF ScriptsOK, Kinds
  <2>. QED  BY <2>1, <2>2, <1>2, <1>3 DEF TypeInv, TypeOK, SharedTypes
<1>7. Progress
  BY <1>4 DEF Progress
<1>8. Alone /\ AloneOK
  BY <1>3, Zenon DEF Alone, AloneOK
<1>9. BegunOK
  BY <1>3 DEF BegunOK, Kinds
<1>10. CleanOK
  <2>1. Covered
    BY <1>1 DEF Init, Covered, Files
  <2>. QED  BY <2>1, <1>3, Zenon DEF CleanOK
<1>11. ProvidersInv
  <2>1. ASSUME NEW t \in Tenants
        PROVE  realms[t].providers + Cardinality(Creating(t)) <= Cardinality(Operators)
    <3>1. Creating(t) = {}
      BY <1>4 DEF Creating
    <3>2. Cardinality(Creating(t)) = 0
      BY <3>1, FS_EmptySet
    <3>3. Cardinality(Operators) # 0 /\ Cardinality(Operators) \in Nat
      BY OperatorsAssumption, FS_EmptySet, FS_CardinalityType
    <3>. QED  BY <3>2, <3>3, <1>5
  <2>. QED  BY <2>1 DEF ProvidersInv
<1>12. OnboardedCanLogIn
  BY <1>5 DEF OnboardedCanLogIn
<1>13. OnboardingRepairs
  BY DEF Init, OnboardingRepairs, Files
<1>. QED  BY <1>6, <1>7, <1>8, <1>9, <1>10, <1>11, <1>12, <1>13 DEF IInv

LEMMA NextInv == IInv /\ [Next]_vars => IInv'
<1>. SUFFICES ASSUME IInv, [Next]_vars PROVE IInv'
  OBVIOUS
<1>1. ASSUME NEW o \in Operators, Step(o) PROVE IInv'
  <2>1. ASSUME NEW t \in Tenants, NEW h \in Hostnames, OnboardTenant(o, t, h)
        PROVE  IInv'
    BY <2>1, StartStep DEF OnboardTenant, Kinds
  <2>2. ASSUME NEW t \in Tenants, OffboardTenant(o, t) PROVE IInv'
    BY <2>2, StartStep DEF OffboardTenant, Kinds
  <2>3. ASSUME NEW t \in Tenants, NEW h \in Hostnames, AssessTenant(o, t, h)
        PROVE  IInv'
    BY <2>3, StartStep DEF AssessTenant, Kinds
  <2>4. ASSUME NEW rows \in Rows, Publish(o, rows) PROVE IInv'
    BY <2>4, StartStep, RowsAssumption DEF Publish, Kinds
  <2>5. CASE Stops(o)
    <3>1. /\ Running(o) /\ Abort(o)
          /\ UNCHANGED <<realms, configs, secrets, files, gateway, runs>>
      BY <2>5 DEF Stops, kept
    <3>2. gateway' \in Map /\ failures' \in 0..MaxFailures
      BY <2>5, BoundsAssumption DEF IInv, TypeInv, TypeOK, Stops
    <3>. QED  BY <3>1, <3>2, AbortStep
  <2>. QED
    BY <1>1, <2>1, <2>2, <2>3, <2>4, <2>5, LookUpStep, EnsureClientStep,
       EnsureMappersStep, EnsureProviderStep, WriteConfigStep, WriteStarterStep,
       LoadTenantsStep, WriteFileStep, RestartEnvoyStep DEF Step
<1>2. CASE EnvoyRestarts
  BY <1>2, EnvoyRestartsStep
<1>3. CASE Rest \/ UNCHANGED vars
  BY <1>3, StutterStep DEF Rest
<1>. QED  BY <1>1, <1>2, <1>3 DEF Next

\* In every reachable state realms, configs and files are as far as the scripts are.
LEMMA Invariant == Spec => []IInv
BY InitInv, NextInv, PTL DEF Spec

-----------------------------------------------------------------------------
\* Keycloak, the configs, the files and the scripts have their types, and a script is at
\* one of its commands, whatever operators type.
THEOREM TypeCorrect == Spec => []TypeOK
<1>1. IInv => TypeOK
  BY DEF IInv, TypeInv
<1>. QED  BY <1>1, Invariant, PTL

\* One onboarding that runs through by itself puts policies, routes, gateway and the
\* middleware's tenants right, whatever overlapping and stopped scripts, assessments and
\* publications left, with any number of tenants, operators and scripts.
THEOREM OneOnboardingRepairs == Spec => []OnboardingRepairs
<1>1. IInv => OnboardingRepairs
  BY DEF IInv
<1>. QED  BY <1>1, Invariant, PTL

\* It also leaves the tenant's realm complete and one secret in Keycloak and the config,
\* and no script of another tenant takes that away.
THEOREM OnboardedStaysReachable == Spec => []OnboardedCanLogIn
<1>1. IInv => OnboardedCanLogIn
  BY DEF IInv
<1>. QED  BY <1>1, Invariant, PTL

\* Looking first and creating then makes at most as many providers of one name as there
\* are shells, however often the tenant is onboarded.
THEOREM DuplicatesAreBounded == Spec => []ProvidersAreFew
<1>1. IInv => ProvidersAreFew
  <2>. SUFFICES ASSUME IInv, NEW t \in Tenants
       PROVE  realms[t].providers <= Cardinality(Operators)
    BY DEF ProvidersAreFew
  <2>1. realms[t].providers + Cardinality(Creating(t)) <= Cardinality(Operators)
    BY DEF IInv, ProvidersInv
  <2>2. realms[t].providers \in Nat
    BY DEF IInv, TypeInv, TypeOK, Realm
  <2>. QED  BY <2>1, <2>2, CreatingFew
<1>. QED  BY <1>1, Invariant, PTL
=============================================================================
