-------------------------- MODULE LifecycleProofs ---------------------------
(***************************************************************************)
(* Theorems about Lifecycle, for every directory: whatever it holds, in    *)
(* whatever order, with however many names for a library, and whichever of *)
(* its libraries fail.                                                     *)
(***************************************************************************)
EXTENDS Lifecycle, SequenceTheorems, TLAPS

Disposing == app.pc \in {"disposing", "disposed"}

Serves(l) == \E k \in DOMAIN commandRoot : commandRoot[k] = l

(***************************************************************************)
(* The inductive invariant, in named parts.                                *)
(***************************************************************************)
\* Before the loader starts there is nothing but what has been made so far.
Beginning ==
    app.pc = "init" =>
        /\ app.step \in 1 .. 8 /\ ext = NoCtor /\ ~connected
        /\ mHandles = <<>> /\ commandRoot = <<>>
        /\ live \ NetconfObject = {Core(InitOrder[k]) : k \in 1 .. app.step - 1}

\* What Netconf refers to is there once it has been made, for good.
NetconfLive ==
    live \cap NetconfObject =
        IF app.pc = "init" /\ app.step < 3 THEN {} ELSE NetconfHas

\* A library's code is there exactly while it is open.
CodeLive == \A l \in Libs : Of("code", l) \in live <=> IsOpen(l)

\* A constructor runs for the file being read; it has not added its parsers to
\* the roots before it announces itself.
Constructing ==
    ext # NoCtor =>
        /\ app.pc = "loading" /\ app.step \in DOMAIN Entries
        /\ Entries[app.step] \in Wanted /\ ext.lib = LibOf[Entries[app.step]]
        /\ IsOpen(ext.lib)
        /\ Serves(ext.lib) <=> ext.pc = "announce"
        /\ ext.pc # "construct" => ext.lib = "netconf"

\* While extensions are loaded and serve, the core is complete, and whoever
\* serves is open.
InService ==
    app.pc \in {"loading", "running"} =>
        /\ CoreObject \subseteq live
        /\ \A l \in Libs : Serves(l) => IsOpen(l)

\* A library's parsers exist exactly while it is open, once its constructor
\* has made them, until the last handle is closed.
ParsersLive ==
    \A l \in Libs :
        /\ IsOpen(l) /\ l \notin Unfit /\ ~(ext.pc = "construct" /\ ext.lib = l) =>
               Parsers(l) \subseteq live
        /\ \A p \in Parsers(l) : p \in live => IsOpen(l) /\ l \notin Unfit

\* The RIL client is there before the daemon can call back, and ever after; its
\* code until smmcore_dispose.
ClientLive ==
    /\ connected \/ ext.pc \in {"connect", "register", "announce"} =>
           Of("rilClient", "netconf") \in live
    /\ connected /\ ~Disposing => IsOpen("netconf")

\* What dispose has not deleted yet, and no more of the core.
Dismantling ==
    app.pc = "disposing" =>
        /\ app.step \in 1 .. 6
        /\ Core("factory") \in live /\ Core("sharedEnv") \in live
        /\ \A j \in app.step .. 5 : Core(DisposeOrder[j]) \in live
        /\ live \cap CoreObject \subseteq
               {Core("factory"), Core("sharedEnv")} \cup
               {Core(DisposeOrder[j]) : j \in app.step .. 5}

\* Every file read so far has been settled.
Settled(i) ==
    Entries[i] \notin Wanted \/ i \in unopened \/ LibOf[Entries[i]] \in refused
    \/ Serves(LibOf[Entries[i]])

ReadSettled ==
    /\ app.pc = "loading" =>
           /\ \A i \in DOMAIN Entries : i < app.step => Settled(i)
           /\ \A l \in Libs : IsOpen(l) =>
                  l \in refused \/ Serves(l) \/ (ext # NoCtor /\ ext.lib = l)
    /\ app.pc = "running" => \A i \in DOMAIN Entries : Settled(i)

LifeInv ==
    /\ TypeOK /\ RootsAgree
    /\ Beginning /\ NetconfLive /\ CodeLive /\ Constructing /\ InService
    /\ ParsersLive /\ ClientLive /\ Dismantling /\ ReadSettled
    /\ NothingMissing /\ FreedOnce /\ OnlyKnownLeaks

-----------------------------------------------------------------------------
(***************************************************************************)
(* Lemmas about sequences, names and the core.                             *)
(***************************************************************************)
LEMMA AppendHas ==
    ASSUME NEW S, NEW s \in Seq(S), NEW e \in S, NEW x
    PROVE  (\E i \in DOMAIN Append(s, e) : Append(s, e)[i] = x) <=>
               (\E i \in DOMAIN s : s[i] = x) \/ x = e
<1> DEFINE t == Append(s, e)
<1>1. /\ Len(s) \in Nat /\ DOMAIN s = 1 .. Len(s) /\ DOMAIN t = 1 .. Len(s) + 1
      /\ \A i \in 1 .. Len(s) : t[i] = s[i]
      /\ t[Len(s) + 1] = e
  BY AppendProperties, LenProperties
<1>2. \A i \in DOMAIN t : i \in DOMAIN s \/ i = Len(s) + 1
  BY <1>1
<1>3. Len(s) + 1 \in DOMAIN t /\ \A i \in DOMAIN s : i \in DOMAIN t
  BY <1>1
<1> HIDE DEF t
<1> QED
  BY <1>1, <1>2, <1>3 DEF t

LEMMA TailHas ==
    ASSUME NEW S, NEW s \in Seq(S), s # <<>>, NEW x
    PROVE  /\ (\E i \in DOMAIN s : s[i] = x) <=>
                  x = Head(s) \/ (\E i \in DOMAIN Tail(s) : Tail(s)[i] = x)
           /\ (\A h \in 2 .. Len(s) : s[h] # x) <=>
                  ~ \E i \in DOMAIN Tail(s) : Tail(s)[i] = x
<1> DEFINE t == Tail(s)
<1>1. /\ Len(s) \in Nat \ {0} /\ DOMAIN s = 1 .. Len(s)
      /\ Len(t) = Len(s) - 1 /\ DOMAIN t = 1 .. Len(t) /\ Head(s) = s[1]
      /\ \A i \in 1 .. Len(t) : t[i] = s[i + 1]
  BY EmptySeq, HeadTailProperties, LenProperties
<1>2. \A i \in DOMAIN t : i + 1 \in 2 .. Len(s) /\ t[i] = s[i + 1]
  BY <1>1
<1>3. \A h \in 2 .. Len(s) : h - 1 \in DOMAIN t /\ t[h - 1] = s[h]
  BY <1>1
<1>4. DOMAIN s = {1} \cup 2 .. Len(s)
  BY <1>1
<1> HIDE DEF t
<1> QED
  BY <1>1, <1>2, <1>3, <1>4 DEF t

\* No two kinds of object share a name.
LEMMA Names ==
    /\ \A l : Parsers(l) \cap (CoreObject \cup NetconfObject) = {}
    /\ \A l : /\ Of("rilClient", l) \notin CoreObject \cup NetconfObject
              /\ Of("env", l) \notin CoreObject \cup NetconfObject
              /\ Of("code", l) \notin CoreObject \cup NetconfObject
    /\ \A l, m : /\ Of("rilClient", l) \notin Parsers(m)
                 /\ Of("env", l) \notin Parsers(m)
                 /\ Of("code", l) \notin Parsers(m)
                 /\ Of("code", l) # Of("rilClient", m) /\ Of("code", l) # Of("env", m)
                 /\ l # m => Parsers(l) \cap Parsers(m) = {} /\ Of("code", l) # Of("code", m)
    /\ Environment \cup Writers \cup {Core("factory"), Core("commandRoot"),
           Core("responseRoot")} \subseteq CoreObject
    /\ CoreObject \cap NetconfObject = {} /\ NetconfHas \subseteq NetconfObject
    /\ ExtObject \cap (CoreObject \cup NetconfObject) = {}
<1>1. /\ \A l : Parsers(l) \cap (CoreObject \cup NetconfObject) = {}
      /\ \A l : /\ Of("rilClient", l) \notin CoreObject \cup NetconfObject
                /\ Of("env", l) \notin CoreObject \cup NetconfObject
                /\ Of("code", l) \notin CoreObject \cup NetconfObject
  BY DEF Parsers, CoreObject, NetconfObject, Data, Of, Core
<1>2. \A l, m : /\ Of("rilClient", l) \notin Parsers(m)
                /\ Of("env", l) \notin Parsers(m)
                /\ Of("code", l) \notin Parsers(m)
                /\ Of("code", l) # Of("rilClient", m) /\ Of("code", l) # Of("env", m)
                /\ l # m => Parsers(l) \cap Parsers(m) = {} /\ Of("code", l) # Of("code", m)
  BY DEF Parsers, Of
<1>3. Environment \cup Writers \cup {Core("factory"), Core("commandRoot"),
          Core("responseRoot")} \subseteq CoreObject
  BY DEF CoreObject, Core, Environment, Writers
<1>4. CoreObject \cap NetconfObject = {} /\ NetconfHas \subseteq NetconfObject
  BY DEF CoreObject, NetconfObject, NetconfHas, Data, Core
<1>5. ExtObject \cap (CoreObject \cup NetconfObject) = {}
  BY DEF ExtObject, CoreObject, NetconfObject, Data, Core
<1> QED
  BY <1>1, <1>2, <1>3, <1>4, <1>5

\* smmcore_init makes all of the core.
LEMMA InitMakesCore ==
    /\ \A n \in 1 .. 8 : InitOrder[n] = "extensions" <=> n = 8
    /\ CoreObject = {Core(InitOrder[k]) : k \in 1 .. 7}
    /\ \A k \in 1 .. 7 : Core(InitOrder[k]) \in CoreObject
<1>1. /\ InitOrder[1] = "factory" /\ InitOrder[2] = "netconf"
      /\ InitOrder[3] = "commandRoot" /\ InitOrder[4] = "responseRoot"
      /\ InitOrder[5] = "finalWriter" /\ InitOrder[6] = "proxyWriter"
      /\ InitOrder[7] = "sharedEnv" /\ InitOrder[8] = "extensions"
  BY DEF InitOrder
<1>2. 1 .. 7 = {1, 2, 3, 4, 5, 6, 7} /\ 1 .. 8 = 1 .. 7 \cup {8}
  OBVIOUS
<1>3. \A n \in 1 .. 8 : InitOrder[n] = "extensions" <=> n = 8
  BY <1>1, <1>2
<1>4. \A k \in 1 .. 7 : Core(InitOrder[k]) \in CoreObject
  BY <1>1, <1>2 DEF CoreObject
<1>5. \A o \in CoreObject : \E k \in 1 .. 7 : o = Core(InitOrder[k])
  BY <1>1, <1>2 DEF CoreObject
<1> QED
  BY <1>3, <1>4, <1>5

LEMMA InitNames == \A n \in 1 .. 7 : InitOrder[n] = "netconf" <=> n = 2
<1>1. /\ InitOrder[1] = "factory" /\ InitOrder[2] = "netconf"
      /\ InitOrder[3] = "commandRoot" /\ InitOrder[4] = "responseRoot"
      /\ InitOrder[5] = "finalWriter" /\ InitOrder[6] = "proxyWriter"
      /\ InitOrder[7] = "sharedEnv"
  BY DEF InitOrder
<1>2. 1 .. 7 = {1, 2, 3, 4, 5, 6, 7}
  OBVIOUS
<1> QED
  BY <1>1, <1>2

\* The factory's destructor deletes five objects of the core, each once.
LEMMA DisposeDeletes ==
    /\ DOMAIN DisposeOrder = 1 .. 5 /\ Len(DisposeOrder) = 5
    /\ \A j \in 1 .. 5 : /\ Core(DisposeOrder[j]) \in CoreObject
                         /\ DisposeOrder[j] \notin {"factory", "sharedEnv"}
    /\ \A j, k \in 1 .. 5 : DisposeOrder[j] = DisposeOrder[k] => j = k
    /\ CoreObject = {Core("factory"), Core("sharedEnv")} \cup
                    {Core(DisposeOrder[j]) : j \in 1 .. 5}
<1>1. /\ DisposeOrder[1] = "netconf" /\ DisposeOrder[2] = "finalWriter"
      /\ DisposeOrder[3] = "proxyWriter" /\ DisposeOrder[4] = "commandRoot"
      /\ DisposeOrder[5] = "responseRoot"
      /\ DOMAIN DisposeOrder = 1 .. 5 /\ Len(DisposeOrder) = 5
  BY DEF DisposeOrder
<1>2. 1 .. 5 = {1, 2, 3, 4, 5}
  OBVIOUS
<1>3. \A j \in 1 .. 5 : /\ Core(DisposeOrder[j]) \in CoreObject
                        /\ DisposeOrder[j] \notin {"factory", "sharedEnv"}
  BY <1>1, <1>2 DEF CoreObject
<1>4. \A j, k \in 1 .. 5 : DisposeOrder[j] = DisposeOrder[k] => j = k
  BY <1>1, <1>2
<1>5. \A o \in CoreObject : \/ o \in {Core("factory"), Core("sharedEnv")}
                            \/ \E j \in 1 .. 5 : o = Core(DisposeOrder[j])
  BY <1>1, <1>2 DEF CoreObject
<1>6. Core("factory") \in CoreObject /\ Core("sharedEnv") \in CoreObject
  BY DEF CoreObject
<1> QED
  BY <1>1, <1>3, <1>4, <1>5, <1>6

LEMMA CoreNames == \A o, p : Core(o) = Core(p) <=> o = p
BY DEF Core

Phase == {"init", "loading", "running", "disposing", "disposed"}

LEMMA NextStep ==
    ASSUME TypeOK, app' = [app EXCEPT !.step = @ + 1]
    PROVE  /\ app' \in [pc : Phase, step : Nat \ {0}]
           /\ app'.pc = app.pc /\ app'.step = app.step + 1
BY DEF TypeOK, Phase

LEMMA NewPhase ==
    ASSUME NEW pc \in Phase, app' = [pc |-> pc, step |-> 1]
    PROVE  /\ app' \in [pc : Phase, step : Nat \ {0}]
           /\ app'.pc = pc /\ app'.step = 1
OBVIOUS

\* While extensions are loaded and serve, everything a message can reach exists.
LEMMA CorePresent ==
    ASSUME LifeInv, app.pc \in {"loading", "running"}
    PROVE  /\ Environment \cup Writers \cup {Core("factory"), Core("commandRoot"),
                  Core("responseRoot")} \subseteq live
           /\ \A l : Serves(l) => /\ l \in Libs \ Unfit /\ Parsers(l) \subseteq live
                                 /\ Of("code", l) \in live
<1>1. TypeOK /\ InService /\ ParsersLive /\ Constructing /\ CodeLive
  BY DEF LifeInv
<1>2. CoreObject \subseteq live
  BY <1>1 DEF InService
<1>3. ASSUME NEW l, Serves(l)
      PROVE  l \in Libs \ Unfit /\ Parsers(l) \subseteq live /\ Of("code", l) \in live
  <2>1. l \in Libs \ Unfit
    BY <1>1, <1>3, ElementOfSeq, LenProperties DEF TypeOK, Serves
  <2>2. IsOpen(l)
    BY <1>1, <1>3, <2>1 DEF InService
  <2>3. ~(ext.pc = "construct" /\ ext.lib = l)
    BY <1>1, <1>3 DEF Constructing, NoCtor
  <2> QED
    BY <1>1, <2>1, <2>2, <2>3 DEF ParsersLive, CodeLive
<1> QED
  BY <1>2, <1>3, Names

\* What has been missing is remembered; what may be missing is never less.
LEMMA NothingNew ==
    ASSUME NothingMissing, UNCHANGED <<testMode, missing>>,
           Disposing /\ connected => (Disposing /\ connected)'
    PROVE  NothingMissing'
BY DEF NothingMissing, Disposing, TakenAway

\* Objects of an extension come and go without touching what Netconf has.
LEMMA NetconfKeeps ==
    ASSUME NetconfLive, UNCHANGED testMode, app.pc = "init" => UNCHANGED app,
           app'.pc = "init" => app.pc = "init",
           \A o \in NetconfObject : o \in live' <=> o \in live
    PROVE  NetconfLive'
BY DEF NetconfLive, NetconfHas

LEMMA CodeKeeps ==
    ASSUME CodeLive, UNCHANGED mHandles,
           \A l \in Libs : Of("code", l) \in live' <=> Of("code", l) \in live
    PROVE  CodeLive'
BY DEF CodeLive, IsOpen

\* A constructor that returns has settled the file being read.
LEMMA ReturnSettles ==
    ASSUME LifeInv, ext # NoCtor, Returns, UNCHANGED <<mHandles, unopened>>,
           refused \subseteq refused', \A m : Serves(m) => Serves(m)',
           NEW e, ext.lib = e, e \in refused' \/ Serves(e)'
    PROVE  ReadSettled'
<1>1. TypeOK /\ ReadSettled /\ Constructing
  BY DEF LifeInv
<1>2. /\ app.pc = "loading" /\ app'.pc = "loading" /\ app'.step = app.step + 1
      /\ app.step \in Nat /\ ext' = NoCtor /\ e = LibOf[Entries[app.step]]
  BY <1>1, NextStep DEF Returns, Constructing, TypeOK
<1>3. ASSUME NEW i \in DOMAIN Entries, i < app'.step PROVE Settled(i)'
  <2>1. i \in Nat
    BY DirectoryAssumption, LenProperties
  <2>2. i < app.step \/ i = app.step
    BY <1>2, <1>3, <2>1
  <2>3. CASE i < app.step
    BY <1>1, <1>2, <2>3 DEF ReadSettled, Settled
  <2>4. CASE i = app.step
    BY <1>2, <2>4 DEF Settled
  <2> QED
    BY <2>2, <2>3, <2>4
<1>4. ASSUME NEW l \in Libs, IsOpen(l)'
      PROVE  (l \in refused \/ Serves(l) \/ (ext # NoCtor /\ ext.lib = l))'
  <2>1. IsOpen(l)
    BY <1>4 DEF IsOpen
  <2>2. l \in refused \/ Serves(l) \/ l = e
    BY <1>1, <1>2, <2>1 DEF ReadSettled
  <2> QED
    BY <2>2
<1> QED
  BY <1>2, <1>3, <1>4 DEF ReadSettled

\* What dlopen and dlclose do to the set of open libraries.
LEMMA OpenAfterAppend ==
    ASSUME mHandles \in Seq(Libs), NEW l \in Libs, mHandles' = Append(mHandles, l)
    PROVE  \A m : IsOpen(m)' <=> IsOpen(m) \/ m = l
BY AppendHas DEF IsOpen

LEMMA OpenAfterTail ==
    ASSUME mHandles \in Seq(Libs), mHandles # <<>>, NEW l, l = Head(mHandles),
           mHandles' = Tail(mHandles)
    PROVE  /\ \A m : IsOpen(m) <=> m = l \/ IsOpen(m)'
           /\ ClosedForGood(l) <=> ~IsOpen(l)'
<1>1. \A m : IsOpen(m) <=> m = l \/ IsOpen(m)'
  BY TailHas DEF IsOpen
<1>2. ClosedForGood(l) <=> ~IsOpen(l)'
  BY TailHas DEF IsOpen, ClosedForGood
<1> QED
  BY <1>1, <1>2

\* A step that uses only what exists is seen by nobody.
LEMMA UsesExisting ==
    ASSUME NEW used, used \subseteq live, Uses(used) PROVE missing' = missing
BY DEF Uses
-----------------------------------------------------------------------------
(***************************************************************************)
(* Each action keeps the invariant: smmcore_init.                          *)
(***************************************************************************)
\* An action that touches only app, and the history of names.
LEMMA MakeCoreKeeps == LifeInv /\ UNCHANGED testMode /\ MakeCore => LifeInv'
<1> SUFFICES ASSUME LifeInv, UNCHANGED testMode, MakeCore PROVE LifeInv'
  OBVIOUS
<1> USE DEF LifeInv, MakeCore, Makes, roots, history
<1>1. /\ app.pc = "init" /\ app.step \in 1 .. 7 /\ app'.pc = "init"
      /\ app'.step = app.step + 1 /\ app' \in [pc : Phase, step : Nat \ {0}]
  BY NextStep, InitMakesCore DEF Beginning
<1>2. Core(InitOrder[app.step]) \in CoreObject
  BY <1>1, InitMakesCore
<1> DEFINE more == IF InitOrder[app.step] = "netconf" THEN NetconfHas ELSE {}
<1>8. /\ live' = live \cup {Core(InitOrder[app.step])} \cup more
      /\ more \subseteq NetconfObject /\ missing' = missing
      /\ live \subseteq CoreObject \cup NetconfObject
  <2>1. more \subseteq NetconfObject
    BY Names
  <2>2. live \subseteq CoreObject \cup NetconfObject
    BY <1>1, InitMakesCore DEF Beginning
  <2> QED
    BY <2>1, <2>2
<1>9. /\ more = IF app.step = 2 THEN NetconfHas ELSE {}
      /\ NetconfHas \subseteq NetconfObject /\ CoreObject \cap NetconfObject = {}
      /\ (live \cap NetconfObject)' = (live \cap NetconfObject) \cup more
  <2>1. \A n \in 1 .. 7 : InitOrder[n] = "netconf" <=> n = 2
    BY InitNames
  <2> HIDE DEF more
  <2>2. (live \cap NetconfObject)' = (live \cap NetconfObject) \cup more
    BY <1>2, <1>8, Names
  <2>3. more = IF app.step = 2 THEN NetconfHas ELSE {}
    BY <1>1, <2>1 DEF more
  <2> QED
    BY <2>2, <2>3, Names
<1> HIDE DEF more
<1>10. NetconfLive' /\ CodeLive'
  <2>1. NetconfHas' = NetconfHas
    BY DEF NetconfHas
  <2>2. NetconfLive'
    BY <1>1, <1>9, <2>1 DEF NetconfLive
  <2>3. \A l : Of("code", l) \notin live' /\ ~IsOpen(l)'
    BY <1>1, <1>2, <1>8, Names DEF Beginning, IsOpen
  <2> QED
    BY <2>2, <2>3 DEF CodeLive
<1>3. TypeOK' /\ RootsAgree'
  BY <1>1, <1>2, <1>8 DEF TypeOK, Phase, Object, RootsAgree
<1>4. Beginning'
  <2>1. \A k : k \in 1 .. app'.step - 1 <=> k \in 1 .. app.step - 1 \/ k = app.step
    BY <1>1
  <2>3. live' \ NetconfObject = (live \ NetconfObject) \cup {Core(InitOrder[app.step])}
    BY <1>2, <1>8, Names
  <2>2. live' \ NetconfObject = {Core(InitOrder[k]) : k \in 1 .. app'.step - 1}
    BY <1>1, <2>1, <2>3 DEF Beginning
  <2> QED
    BY <1>1, <2>2 DEF Beginning
<1>5. Constructing' /\ InService' /\ Dismantling' /\ ReadSettled' /\ OnlyKnownLeaks'
  BY <1>1 DEF Constructing, Beginning, InService, Dismantling, ReadSettled, OnlyKnownLeaks
<1>6. ParsersLive'
  <2>1. live' \subseteq CoreObject \cup NetconfObject
    BY <1>2, <1>8
  <2> QED
    BY <1>1, <2>1, Names DEF ParsersLive, Beginning, IsOpen
<1>7. ClientLive' /\ NothingMissing' /\ FreedOnce'
  BY <1>1, <1>8, NothingNew DEF ClientLive, Beginning, NoCtor, Disposing, FreedOnce
<1> QED
  BY <1>3, <1>4, <1>5, <1>6, <1>7, <1>10

LEMMA BeginLoadingKeeps == LifeInv /\ UNCHANGED testMode /\ BeginLoading => LifeInv'
<1> SUFFICES ASSUME LifeInv, UNCHANGED testMode, BeginLoading PROVE LifeInv'
  OBVIOUS
<1> USE DEF LifeInv, BeginLoading, roots
<1>1. /\ app.pc = "init" /\ app.step = 8 /\ app'.pc = "loading" /\ app'.step = 1
      /\ app' \in [pc : Phase, step : Nat \ {0}]
      /\ ext = NoCtor /\ mHandles = <<>> /\ commandRoot = <<>>
  BY InitMakesCore DEF Beginning, Phase
<1>2. CoreObject = live \ NetconfObject
  <2>1. live \ NetconfObject = {Core(InitOrder[k]) : k \in 1 .. 7}
    BY <1>1 DEF Beginning
  <2> QED
    BY <2>1, InitMakesCore
<1>3. missing' = missing
  <2>1. {Core("factory")} \subseteq live
    BY <1>2, Names
  <2> QED
    BY <2>1, UsesExisting
<1>4. TypeOK' /\ RootsAgree' /\ Beginning' /\ Constructing' /\ InService'
  BY <1>1, <1>2, <1>3
  DEF TypeOK, Phase, RootsAgree, Beginning, Constructing, InService, Serves
<1>5. ParsersLive' /\ ClientLive' /\ Dismantling'
  BY <1>1 DEF ParsersLive, IsOpen, ClientLive, Disposing, Beginning, Dismantling
<1>6. ReadSettled'
  BY <1>1, DirectoryAssumption, LenProperties DEF ReadSettled, IsOpen
<1>7. NothingMissing' /\ FreedOnce' /\ OnlyKnownLeaks'
  BY <1>1, <1>3, NothingNew DEF Disposing, FreedOnce, OnlyKnownLeaks
<1>8. NetconfLive' /\ CodeLive'
  BY <1>1, CodeKeeps DEF NetconfLive, NetconfHas
<1> QED
  BY <1>4, <1>5, <1>6, <1>7, <1>8

LEMMA EndInitKeeps == LifeInv /\ UNCHANGED testMode /\ EndInit => LifeInv'
<1> SUFFICES ASSUME LifeInv, UNCHANGED testMode, EndInit PROVE LifeInv'
  OBVIOUS
<1> USE DEF LifeInv, EndInit, roots, history
<1>1. /\ app.pc = "loading" /\ app'.pc = "running" /\ ext = NoCtor
      /\ app' \in [pc : Phase, step : Nat \ {0}]
  BY DEF Phase
<1>2. TypeOK' /\ RootsAgree' /\ Beginning' /\ Constructing' /\ InService'
  BY <1>1 DEF TypeOK, Phase, RootsAgree, Beginning, Constructing, InService, IsOpen, Serves
<1>3. ParsersLive' /\ ClientLive' /\ Dismantling'
  BY <1>1 DEF ParsersLive, IsOpen, ClientLive, Disposing, Dismantling
<1>4. ReadSettled'
  <2>1. \A i \in DOMAIN Entries : i < app.step
    BY DirectoryAssumption, LenProperties DEF TypeOK
  <2>2. \A i \in DOMAIN Entries : Settled(i)'
    BY <1>1, <2>1 DEF ReadSettled, Settled, Serves
  <2> QED
    BY <1>1, <2>2 DEF ReadSettled
<1>5. NothingMissing' /\ FreedOnce' /\ OnlyKnownLeaks'
  BY <1>1, NothingNew DEF Disposing, FreedOnce, OnlyKnownLeaks
<1>6. NetconfLive' /\ CodeLive'
  BY <1>1, NetconfKeeps, CodeKeeps
<1> QED
  BY <1>2, <1>3, <1>4, <1>5, <1>6

\* Reading a file that is not opened.
LEMMA PassOver ==
    ASSUME LifeInv, UNCHANGED testMode, NEW i \in DOMAIN Entries, Reading(i),
           app' = [app EXCEPT !.step = @ + 1], unopened \subseteq unopened',
           unopened' \subseteq DOMAIN Entries, Entries[i] \notin Wanted \/ i \in unopened',
           UNCHANGED <<ext, mHandles, roots, live, connected, refused, missing, freedTwice>>
    PROVE  LifeInv'
<1> USE DEF LifeInv, Reading, roots
<1>1. /\ app.pc = "loading" /\ app'.pc = "loading" /\ ext = NoCtor
      /\ app.step = i /\ app'.step = i + 1 /\ i \in Nat
      /\ app' \in [pc : Phase, step : Nat \ {0}]
  BY NextStep DEF TypeOK
<1>2. TypeOK' /\ RootsAgree' /\ Beginning' /\ Constructing' /\ InService'
  BY <1>1 DEF TypeOK, Phase, RootsAgree, Beginning, Constructing, InService, IsOpen, Serves
<1>3. ParsersLive' /\ ClientLive' /\ Dismantling'
  BY <1>1 DEF ParsersLive, IsOpen, ClientLive, Disposing, Dismantling
<1>4. ReadSettled'
  <2>1. \A j \in DOMAIN Entries : j < app'.step => j < app.step \/ j = i
    BY <1>1, DirectoryAssumption, LenProperties
  <2>2. \A j \in DOMAIN Entries : j < app'.step => Settled(j)'
    BY <1>1, <2>1 DEF ReadSettled, Settled, Serves
  <2> QED
    BY <1>1, <2>2 DEF ReadSettled, IsOpen, Serves
<1>5. NothingMissing' /\ FreedOnce' /\ OnlyKnownLeaks'
  BY <1>1, NothingNew DEF Disposing, FreedOnce, OnlyKnownLeaks
<1>6. NetconfLive' /\ CodeLive'
  BY <1>1, NetconfKeeps, CodeKeeps
<1> QED
  BY <1>2, <1>3, <1>4, <1>5, <1>6

LEMMA OpenSucceedsKeeps ==
    ASSUME LifeInv, UNCHANGED testMode, NEW i \in DOMAIN Entries, OpenSucceeds(i) PROVE LifeInv'
<1> DEFINE l == LibOf[Entries[i]]
<1> USE DEF LifeInv, Reading, roots, history
<1>1. /\ app.pc = "loading" /\ app'.pc = "loading" /\ ext = NoCtor
      /\ app.step = i /\ i \in Nat /\ Entries[i] \in Wanted
      /\ app' \in [pc : Phase, step : Nat \ {0}]
      /\ app'.step = IF IsOpen(l) THEN i + 1 ELSE i
      /\ l \in Libs /\ mHandles' = Append(mHandles, l)
      /\ ext' = IF IsOpen(l) THEN NoCtor ELSE [pc |-> "construct", lib |-> l]
      /\ live' = live \cup {Of("code", l)}
      /\ UNCHANGED <<roots, connected, history>>
  <2>1. app' = app \/ app' = [app EXCEPT !.step = @ + 1]
    BY DEF OpenSucceeds
  <2>2. app' \in [pc : Phase, step : Nat \ {0}] /\ app'.pc = app.pc
    BY <2>1, NextStep DEF TypeOK, Phase
  <2>3. app.step = i /\ i \in Nat
    BY DEF OpenSucceeds, TypeOK
  <2>4. IsOpen(l) => app' = [app EXCEPT !.step = @ + 1] /\ ext' = ext
    BY DEF OpenSucceeds
  <2>5. ~IsOpen(l) => app' = app /\ ext' = [pc |-> "construct", lib |-> l]
    BY DEF OpenSucceeds
  <2>6. /\ app.pc = "loading" /\ ext = NoCtor /\ Entries[i] \in Wanted
        /\ mHandles' = Append(mHandles, l) /\ live' = live \cup {Of("code", l)}
        /\ UNCHANGED <<roots, connected, history>>
    BY DEF OpenSucceeds, Makes
  <2>7. l \in Libs
    BY <2>6 DEF Libs
  <2>8. IsOpen(l) => app'.step = i + 1
    BY <2>3, <2>4, NextStep
  <2> HIDE DEF l
  <2> QED
    BY <2>2, <2>3, <2>4, <2>5, <2>6, <2>7, <2>8
<1> HIDE DEF l
<1>2. \A m : IsOpen(m)' <=> IsOpen(m) \/ m = l
  <2>1. mHandles \in Seq(Libs)
    BY DEF TypeOK
  <2> QED
    BY <1>1, <2>1, OpenAfterAppend
<1>3. \A m : Serves(m)' <=> Serves(m)
  BY <1>1 DEF Serves
<1>4. IsOpen(l) \/ ~Serves(l)
  BY <1>1 DEF InService
<1>11. /\ Of("code", l) \in Object
       /\ \A m : \A p \in Parsers(m) : p \in live' <=> p \in live
       /\ \A o \in CoreObject \cup NetconfObject : o \in live' <=> o \in live
       /\ \A m : Of("rilClient", m) \in live' <=> Of("rilClient", m) \in live
       /\ \A m : Of("code", m) \in live' <=> Of("code", m) \in live \/ m = l
  <2>1. Of("code", l) \in Object
    BY <1>1 DEF Object, ExtObject, Of
  <2> QED
    BY <1>1, <2>1, Names
<1>5. TypeOK' /\ RootsAgree'
  <2>1. mHandles' \in Seq(Libs)
    BY <1>1, AppendProperties DEF TypeOK
  <2>2. ext' \in [pc : {"construct", "connect", "register", "announce"}, lib : Libs]
                    \cup {NoCtor}
    BY <1>1
  <2> QED
    BY <1>1, <1>11, <2>1, <2>2 DEF TypeOK, Phase, RootsAgree
<1>6. Constructing'
  <2>1. CASE IsOpen(l)
    BY <1>1, <2>1 DEF Constructing
  <2>2. CASE ~IsOpen(l)
    <3>1. /\ ext'.lib = l /\ ext'.pc = "construct" /\ app' = app
          /\ app'.step = i
      BY <1>1, <2>2 DEF OpenSucceeds, l
    <3>2. l = LibOf[Entries[i]]
      BY DEF l
    <3>3. IsOpen(l)' /\ ~Serves(l)'
      BY <1>2, <1>3, <1>4, <2>2
    <3>4. IsOpen(ext.lib)' /\ ~Serves(ext.lib)'
      BY <3>1, <3>3 DEF IsOpen, Serves
    <3> QED
      BY <1>1, <3>1, <3>2, <3>4 DEF Constructing
  <2> QED
    BY <2>1, <2>2
<1>7. Beginning' /\ InService' /\ ClientLive' /\ Dismantling'
  <2>1. Beginning' /\ InService' /\ Dismantling'
    BY <1>1, <1>2, <1>3, <1>11 DEF Beginning, InService, Dismantling
  <2>2. ClientLive'
    BY <1>1, <1>2, <1>11 DEF ClientLive, Disposing, NoCtor
  <2> QED
    BY <2>1, <2>2
<1>12. NetconfLive' /\ CodeLive'
  <2>1. NetconfLive'
    BY <1>1, <1>11, NetconfKeeps
  <2>2. CodeLive'
    BY <1>2, <1>11 DEF CodeLive
  <2> QED
    BY <2>1, <2>2
<1>8. ParsersLive'
  <2> SUFFICES ASSUME NEW m \in Libs
               PROVE  /\ IsOpen(m)' /\ m \notin Unfit
                           /\ ~(ext'.pc = "construct" /\ ext'.lib = m) =>
                               Parsers(m) \subseteq live
                      /\ \A p \in Parsers(m) : p \in live => IsOpen(m)' /\ m \notin Unfit
    BY <1>1, <1>11 DEF ParsersLive
  <2>1. /\ ext'.pc = "construct" /\ ext'.lib = m <=> ~IsOpen(l) /\ m = l
    BY <1>1 DEF NoCtor
  <2>2. ~(ext.pc = "construct" /\ ext.lib = m)
    BY <1>1 DEF NoCtor
  <2> QED
    BY <1>2, <2>1, <2>2 DEF ParsersLive
<1>9. ReadSettled'
  <2>1. ASSUME NEW j \in DOMAIN Entries, j < app'.step
        PROVE  j < app.step \/ (j = i /\ IsOpen(l))
    <3>1. j \in Nat
      BY DirectoryAssumption, LenProperties
    <3>2. CASE IsOpen(l)
      BY <1>1, <2>1, <3>1, <3>2
    <3>3. CASE ~IsOpen(l)
      <4>1. app'.step = app.step
        BY <1>1, <3>3
      <4> QED
        BY <2>1, <4>1
    <3> QED
      BY <3>2, <3>3
  <2>2. IsOpen(l) => l \in refused \/ Serves(l)
    BY <1>1 DEF ReadSettled
  <2>3. \A j \in DOMAIN Entries : j < app'.step => Settled(j)'
    BY <1>1, <1>3, <2>1, <2>2 DEF ReadSettled, Settled, l
  <2>4. ASSUME NEW m \in Libs, IsOpen(m)'
        PROVE  m \in refused' \/ Serves(m)' \/ (ext' # NoCtor /\ ext'.lib = m)
    <3>1. CASE IsOpen(m)
      BY <1>1, <1>3, <3>1 DEF ReadSettled
    <3>2. CASE ~IsOpen(m)
      BY <1>1, <1>2, <2>4, <3>2 DEF NoCtor
    <3> QED
      BY <3>1, <3>2
  <2> QED
    BY <1>1, <2>3, <2>4 DEF ReadSettled
<1>10. NothingMissing' /\ FreedOnce' /\ OnlyKnownLeaks'
  BY <1>1, NothingNew DEF Disposing, FreedOnce, OnlyKnownLeaks
<1> QED
  BY <1>5, <1>6, <1>7, <1>8, <1>9, <1>10, <1>12
-----------------------------------------------------------------------------
(***************************************************************************)
(* The constructors.                                                       *)
(***************************************************************************)
LEMMA MakeParsersKeeps == LifeInv /\ UNCHANGED testMode /\ MakeParsers => LifeInv'
<1> SUFFICES ASSUME LifeInv, UNCHANGED testMode, MakeParsers PROVE LifeInv'
  OBVIOUS
<1> USE DEF LifeInv, MakeParsers, roots
<1> DEFINE made == Parsers("netconf") \cup {Of("rilClient", "netconf")}
<1>1. /\ ext # NoCtor /\ ext.pc = "construct" /\ ext.lib = "netconf"
      /\ app.pc = "loading" /\ "netconf" \in Libs /\ "netconf" \notin Unfit
      /\ IsOpen("netconf") /\ ~Serves("netconf")
      /\ ext' = [ext EXCEPT !.pc = "connect"]
      /\ ext'.pc = "connect" /\ ext'.lib = "netconf" /\ ext' # NoCtor
      /\ live' = live \cup made
  BY DirectoryAssumption DEF Constructing, NoCtor, TypeOK, Makes
<1>2. missing' = missing
  <2>1. {Core("sharedEnv")} \subseteq live
    BY <1>1, CorePresent DEF Environment
  <2> QED
    BY <2>1, UsesExisting
<1>3. /\ made \subseteq Object /\ made \cap (CoreObject \cup NetconfObject) = {}
      /\ \A l : Of("code", l) \notin made
      /\ \A l : l # "netconf" => made \cap Parsers(l) = {}
  <2>1. Parsers("netconf") \subseteq Object /\ Of("rilClient", "netconf") \in Object
    BY <1>1 DEF Object, ExtObject, Of, Parsers
  <2>2. \A l : l # "netconf" => made \cap Parsers(l) = {}
    BY Names
  <2> QED
    BY <2>1, <2>2, Names
<1>4. TypeOK' /\ RootsAgree' /\ Beginning' /\ Constructing'
  BY <1>1, <1>2, <1>3
  DEF TypeOK, RootsAgree, Beginning, Constructing, IsOpen, Serves
<1>5. InService' /\ ClientLive' /\ Dismantling' /\ ReadSettled'
  BY <1>1 DEF InService, ClientLive, Disposing, Dismantling, ReadSettled, Settled, IsOpen, Serves
<1>6. ParsersLive'
  <2> HIDE DEF made
  <2>1. Parsers("netconf") \subseteq live'
    BY <1>1 DEF made
  <2>2. \A l : IsOpen(l)' <=> IsOpen(l)
    BY DEF IsOpen
  <2>3. ASSUME NEW l \in Libs, l # "netconf"
        PROVE  \A p \in Parsers(l) : p \in live' <=> p \in live
    BY <1>1, <1>3, <2>3
  <2> QED
    BY <1>1, <2>1, <2>2, <2>3 DEF ParsersLive
<1>7. NothingMissing' /\ FreedOnce' /\ OnlyKnownLeaks'
  BY <1>1, <1>2, NothingNew DEF Disposing, FreedOnce, OnlyKnownLeaks
<1>8. NetconfLive' /\ CodeLive'
  <2> HIDE DEF made
  <2>1. \A o \in NetconfObject : o \in live' <=> o \in live
    BY <1>1, <1>3
  <2>2. \A l : Of("code", l) \in live' <=> Of("code", l) \in live
    BY <1>1, <1>3
  <2> QED
    BY <2>1, <2>2, NetconfKeeps, CodeKeeps
<1> QED
  BY <1>4, <1>5, <1>6, <1>7, <1>8

\* A constructor that returns: what does not depend on how it fared.
LEMMA ReturnKeeps ==
    ASSUME LifeInv, Returns, ext # NoCtor,
           UNCHANGED <<testMode, mHandles, missing, freedTwice>>
    PROVE  /\ app.pc = "loading" /\ app'.pc = "loading" /\ ext' = NoCtor
           /\ app' \in [pc : Phase, step : Nat \ {0}]
           /\ Beginning' /\ Constructing' /\ Dismantling'
           /\ NothingMissing' /\ FreedOnce' /\ OnlyKnownLeaks'
           /\ (\A o \in NetconfObject : o \in live' <=> o \in live) => NetconfLive'
           /\ (\A l \in Libs : Of("code", l) \in live' <=> Of("code", l) \in live) => CodeLive'
<1>1. /\ app.pc = "loading" /\ app'.pc = "loading" /\ ext' = NoCtor
      /\ app' \in [pc : Phase, step : Nat \ {0}]
  BY NextStep DEF LifeInv, Constructing, Returns
<1>2. NothingMissing'
  BY <1>1, NothingNew DEF LifeInv, Disposing
<1>3. /\ (\A o \in NetconfObject : o \in live' <=> o \in live) => NetconfLive'
      /\ (\A l \in Libs : Of("code", l) \in live' <=> Of("code", l) \in live) => CodeLive'
  BY <1>1, NetconfKeeps, CodeKeeps DEF LifeInv
<1> QED
  BY <1>1, <1>2, <1>3 DEF LifeInv, Beginning, Constructing, Dismantling, FreedOnce,
                          OnlyKnownLeaks

LEMMA ConnectKeeps == LifeInv /\ UNCHANGED testMode /\ Connect => LifeInv'
<1> SUFFICES ASSUME LifeInv, UNCHANGED testMode, Connect PROVE LifeInv'
  OBVIOUS
<1> USE DEF LifeInv, Connect, roots
<1>1. /\ ext # NoCtor /\ ext.pc = "connect" /\ ext.lib = "netconf"
      /\ app.pc = "loading" /\ "netconf" \in Libs /\ ~Serves("netconf")
      /\ IsOpen("netconf")
      /\ connected' \in BOOLEAN
  BY DEF Constructing, NoCtor, TypeOK
<1>2. RootsAgree' /\ InService' /\ ClientLive'
  <2>1. app'.pc = app.pc
    BY NextStep DEF Returns
  <2>2. RootsAgree' /\ InService'
    BY <2>1 DEF RootsAgree, InService, IsOpen, Serves
  <2>3. ClientLive'
    BY <1>1 DEF ClientLive, IsOpen
  <2> QED
    BY <2>2, <2>3
<1>3. ParsersLive'
  <2>1. /\ \A l : IsOpen(l)' <=> IsOpen(l)
        /\ live' = live
    BY DEF IsOpen
  <2>2. ext'.pc # "construct"
    <3>1. CASE ext' = [ext EXCEPT !.pc = "register"]
      BY <1>1, <3>1 DEF TypeOK
    <3>2. CASE Returns
      BY <3>2 DEF Returns, NoCtor
    <3> QED
      BY <3>1, <3>2
  <2> QED
    BY <1>1, <2>1, <2>2 DEF ParsersLive
<1>4. CASE ext' = [ext EXCEPT !.pc = "register"] /\ UNCHANGED <<app, refused>>
  <2>1. ext' # NoCtor /\ ext'.pc = "register" /\ ext'.lib = "netconf"
    BY <1>1, <1>4 DEF NoCtor, TypeOK
  <2>2. TypeOK' /\ Beginning' /\ Constructing'
    BY <1>1, <1>4, <2>1 DEF TypeOK, Beginning, Constructing, IsOpen, Serves
  <2>3. Dismantling' /\ ReadSettled' /\ FreedOnce' /\ OnlyKnownLeaks'
    BY <1>1, <1>4, <2>1
    DEF Dismantling, ReadSettled, Settled, IsOpen, Serves, FreedOnce, OnlyKnownLeaks
  <2>4. NothingMissing' /\ NetconfLive' /\ CodeLive'
    BY <1>1, <1>4, NothingNew, NetconfKeeps, CodeKeeps DEF Disposing
  <2> QED
    BY <1>2, <1>3, <2>2, <2>3, <2>4
<1>5. CASE Returns /\ refused' = refused \cup {"netconf"}
  <2>1. /\ app' \in [pc : Phase, step : Nat \ {0}] /\ ext' = NoCtor
        /\ Beginning' /\ Constructing' /\ Dismantling'
        /\ NothingMissing' /\ FreedOnce' /\ OnlyKnownLeaks'
        /\ NetconfLive' /\ CodeLive'
    BY <1>1, <1>5, ReturnKeeps
  <2>2. TypeOK'
    BY <1>1, <1>5, <2>1 DEF TypeOK, Phase
  <2>3. ReadSettled'
    BY <1>1, <1>5, ReturnSettles DEF Serves
  <2> QED
    BY <1>2, <1>3, <2>1, <2>2, <2>3
<1> QED
  BY <1>4, <1>5

LEMMA AnnounceKeeps == LifeInv /\ UNCHANGED testMode /\ Announce => LifeInv'
<1> SUFFICES ASSUME LifeInv, UNCHANGED testMode, Announce PROVE LifeInv'
  OBVIOUS
<1> USE DEF LifeInv, Announce, roots
<1>1. /\ ext # NoCtor /\ app.pc = "loading" /\ Serves(ext.lib) /\ ext.pc = "announce"
  BY DEF Constructing, NoCtor
<1>2. missing' = missing
  <2>1. \A i \in DOMAIN responseRoot : Serves(responseRoot[i])
    BY DEF RootsAgree, Serves
  <2>2. \A i \in DOMAIN responseRoot : Of("responseParser", responseRoot[i]) \in live
    BY <1>1, <2>1, CorePresent DEF Parsers
  <2> DEFINE used == Environment \cup Writers \cup {Core("responseRoot")}
            \cup {Of("responseParser", responseRoot[i]) : i \in DOMAIN responseRoot}
  <2>3. used \subseteq live
    BY <1>1, <2>2, CorePresent
  <2>4. Uses(used)
    OBVIOUS
  <2> HIDE DEF used
  <2> QED
    BY <2>3, <2>4, UsesExisting
<1>3. /\ app.pc = "loading" /\ app'.pc = "loading" /\ ext' = NoCtor
      /\ app' \in [pc : Phase, step : Nat \ {0}]
      /\ Beginning' /\ Constructing' /\ Dismantling'
      /\ NothingMissing' /\ FreedOnce' /\ OnlyKnownLeaks'
      /\ NetconfLive' /\ CodeLive'
  BY <1>1, <1>2, ReturnKeeps
<1>4. TypeOK' /\ RootsAgree' /\ InService' /\ ClientLive'
  BY <1>2, <1>3
  DEF TypeOK, Phase, RootsAgree, InService, IsOpen, Serves, ClientLive, Disposing, NoCtor
<1>5. ParsersLive'
  BY <1>1, <1>3 DEF ParsersLive, IsOpen
<1>6. ReadSettled'
  BY <1>1, ReturnSettles DEF Serves
<1> QED
  BY <1>3, <1>4, <1>5, <1>6

LEMMA RegisterRefusesKeeps ==
    ASSUME LifeInv, UNCHANGED testMode, NEW l \in Libs, RegisterRefuses(l) PROVE LifeInv'
<1> USE DEF LifeInv, RegisterRefuses, Registering, roots
<1>1. /\ ext # NoCtor /\ ext.lib = l /\ l \in Unfit /\ l # "netconf"
      /\ ext.pc = "construct" /\ app.pc = "loading"
  BY DirectoryAssumption DEF NoCtor, Constructing
<1>2. missing' = missing
  <2>1. CASE Uses(Environment)
    <3>1. Environment \subseteq live
      BY <1>1, CorePresent
    <3> QED
      BY <2>1, <3>1, UsesExisting
  <2>2. CASE UNCHANGED missing
    BY <2>2
  <2> QED
    BY <2>1, <2>2
<1>3. live' = live \/ live' = live \cup {Of("env", l)}
  BY DEF Makes
<1>4. /\ Of("env", l) \in Object /\ Of("env", l) \notin CoreObject \cup NetconfObject
      /\ \A m : Of("env", l) \notin Parsers(m) /\ Of("code", m) # Of("env", l)
  BY Names DEF Object, ExtObject, Of
<1>5. /\ app.pc = "loading" /\ app'.pc = "loading" /\ ext' = NoCtor
      /\ app' \in [pc : Phase, step : Nat \ {0}]
      /\ Beginning' /\ Constructing' /\ Dismantling'
      /\ NothingMissing' /\ FreedOnce' /\ OnlyKnownLeaks'
      /\ NetconfLive' /\ CodeLive'
  BY <1>1, <1>2, <1>3, <1>4, ReturnKeeps
<1>6. TypeOK' /\ RootsAgree'
  BY <1>2, <1>3, <1>4, <1>5 DEF TypeOK, Phase, RootsAgree
<1>7. InService' /\ ClientLive'
  BY <1>1, <1>3, <1>5 DEF InService, IsOpen, Serves, ClientLive, Disposing, NoCtor
<1>8. ParsersLive'
  <2>1. ASSUME NEW m PROVE \A p \in Parsers(m) : p \in live' <=> p \in live
    BY <1>3, <1>4
  <2>2. \A m : IsOpen(m)' <=> IsOpen(m)
    BY DEF IsOpen
  <2> QED
    BY <1>1, <1>5, <2>1, <2>2 DEF ParsersLive
<1>9. ReadSettled'
  BY <1>1, ReturnSettles DEF Serves
<1> QED
  BY <1>5, <1>6, <1>7, <1>8, <1>9

LEMMA RegisterKeeps ==
    ASSUME LifeInv, UNCHANGED testMode, NEW l \in Libs, Register(l) PROVE LifeInv'
<1> USE DEF LifeInv, Register, Registering, roots
<1> DEFINE made == {Of("env", l)} \cup Parsers(l)
<1>1. /\ ext # NoCtor /\ ext.lib = l /\ l \notin Unfit /\ app.pc = "loading"
      /\ IsOpen(l) /\ ~Serves(l) /\ ext.pc # "announce"
      /\ l # "netconf" => ext.pc = "construct"
      /\ live' = live \cup made
  BY DEF NoCtor, Constructing, Makes
<1>2. missing' = missing
  <2>1. Environment \cup {Core("factory"), Core("commandRoot"), Core("responseRoot")}
            \subseteq live
    BY <1>1, CorePresent
  <2> QED
    BY <2>1, UsesExisting
<1>3. /\ commandRoot \in Seq(Libs) /\ responseRoot = commandRoot
      /\ commandRoot' = Append(commandRoot, l) /\ responseRoot' = commandRoot'
      /\ commandRoot' \in Seq(Libs \ Unfit)
  <2>1. commandRoot \in Seq(Libs \ Unfit) /\ responseRoot = commandRoot
    BY DEF TypeOK, RootsAgree
  <2>2. commandRoot \in Seq(Libs)
    BY <2>1, ElementOfSeq, SeqDef
  <2>3. commandRoot' = Append(commandRoot, l) /\ responseRoot' = Append(responseRoot, l)
    OBVIOUS
  <2> QED
    BY <1>1, <2>1, <2>2, <2>3, AppendProperties
<1>4. /\ \A m : Serves(m)' <=> Serves(m) \/ m = l
      /\ \A m : IsOpen(m)' <=> IsOpen(m)
  BY <1>3, AppendHas DEF Serves, IsOpen
<1>5. RootsAgree'
  <2>1. /\ DOMAIN commandRoot' = 1 .. Len(commandRoot) + 1
        /\ DOMAIN commandRoot = 1 .. Len(commandRoot) /\ Len(commandRoot) \in Nat
        /\ \A k \in 1 .. Len(commandRoot) : commandRoot'[k] = commandRoot[k]
        /\ commandRoot'[Len(commandRoot) + 1] = l
    BY <1>3, AppendProperties, LenProperties
  <2>2. \A k \in DOMAIN commandRoot : commandRoot[k] # l
    BY <1>1 DEF Serves
  <2>3. \A k \in DOMAIN commandRoot' : k \in DOMAIN commandRoot \/ k = Len(commandRoot) + 1
    BY <2>1
  <2>4. \A i, j \in DOMAIN commandRoot' : commandRoot'[i] = commandRoot'[j] => i = j
    BY <2>1, <2>2, <2>3 DEF RootsAgree
  <2> QED
    BY <1>3, <2>4 DEF RootsAgree
<1>6. /\ made \subseteq Object /\ made \cap (CoreObject \cup NetconfObject) = {}
      /\ \A m : Of("code", m) \notin made
      /\ \A m : m # l => made \cap Parsers(m) = {}
  <2>1. Parsers(l) \subseteq Object /\ Of("env", l) \in Object
    BY DEF Object, ExtObject, Of, Parsers
  <2>2. \A m : m # l => made \cap Parsers(m) = {}
    BY Names
  <2> QED
    BY <2>1, <2>2, Names
<1>7. /\ app'.pc = "loading" /\ app' \in [pc : Phase, step : Nat \ {0}]
      /\ ext'.pc # "construct"
      /\ ext' \in [pc : {"construct", "connect", "register", "announce"}, lib : Libs]
                    \cup {NoCtor}
  <2>1. CASE l = "netconf"
    <3>1. ext' = [ext EXCEPT !.pc = "announce"] /\ app' = app
      BY <2>1
    <3> QED
      BY <1>1, <3>1 DEF NoCtor, TypeOK, Phase
  <2>2. CASE Returns
    BY <1>1, <2>2, NextStep DEF Returns, NoCtor
  <2> QED
    BY <2>1, <2>2
<1>8. TypeOK' /\ Beginning' /\ InService' /\ Dismantling'
  <2> HIDE DEF made
  <2>1. TypeOK'
    BY <1>1, <1>2, <1>3, <1>6, <1>7 DEF TypeOK, Phase
  <2>2. Beginning' /\ InService' /\ Dismantling'
    BY <1>1, <1>4, <1>7 DEF Beginning, InService, Dismantling
  <2> QED
    BY <2>1, <2>2
<1>9. ClientLive'
  <2>1. CASE l = "netconf"
    BY <1>1, <1>4, <2>1 DEF ClientLive, Disposing
  <2>2. CASE l # "netconf"
    BY <1>1, <1>4, <1>7, <2>2 DEF ClientLive, Disposing, Returns, NoCtor
  <2> QED
    BY <2>1, <2>2
<1>10. ParsersLive'
  <2> HIDE DEF made
  <2>1. Parsers(l) \subseteq live'
    BY <1>1 DEF made
  <2>2. ASSUME NEW m \in Libs, m # l
        PROVE  \A p \in Parsers(m) : p \in live' <=> p \in live
    BY <1>1, <1>6, <2>2
  <2> QED
    BY <1>1, <1>4, <1>7, <2>1, <2>2 DEF ParsersLive
<1>11. NothingMissing' /\ FreedOnce' /\ OnlyKnownLeaks'
  BY <1>1, <1>2, <1>7, NothingNew DEF Disposing, FreedOnce, OnlyKnownLeaks
<1>14. NetconfLive' /\ CodeLive'
  <2> HIDE DEF made
  <2>1. \A o \in NetconfObject : o \in live' <=> o \in live
    BY <1>1, <1>6
  <2>2. \A m : Of("code", m) \in live' <=> Of("code", m) \in live
    BY <1>1, <1>6
  <2> QED
    BY <1>1, <1>7, <2>1, <2>2, NetconfKeeps, CodeKeeps
<1>12. CASE l = "netconf"
  <2>1. /\ ext' = [ext EXCEPT !.pc = "announce"] /\ app' = app
        /\ UNCHANGED <<refused, unopened>>
    BY <1>12
  <2>2. ext' # NoCtor /\ ext'.pc = "announce" /\ ext'.lib = l
    BY <1>1, <2>1 DEF NoCtor, TypeOK
  <2>3. Constructing'
    <3>1. IsOpen(l)' /\ Serves(l)'
      BY <1>1, <1>4
    <3>2. IsOpen(ext.lib)' /\ Serves(ext.lib)'
      BY <2>2, <3>1 DEF IsOpen, Serves
    <3> QED
      BY <1>1, <1>12, <2>1, <2>2, <3>2 DEF Constructing
  <2>4. ReadSettled'
    BY <1>1, <1>4, <2>1, <2>2 DEF ReadSettled, Settled
  <2> QED
    BY <1>5, <1>8, <1>9, <1>10, <1>11, <1>14, <2>3, <2>4
<1>13. CASE l # "netconf"
  <2>1. Returns /\ UNCHANGED <<mHandles, refused, unopened>>
    BY <1>13
  <2>2. Constructing'
    BY <2>1 DEF Returns, Constructing
  <2>3. ReadSettled'
    BY <1>1, <1>4, <2>1, ReturnSettles
  <2> QED
    BY <1>5, <1>8, <1>9, <1>10, <1>11, <1>14, <2>2, <2>3
<1> QED
  BY <1>12, <1>13
-----------------------------------------------------------------------------
(***************************************************************************)
(* In service, and smmcore_dispose.                                        *)
(***************************************************************************)
\* What a call may find missing.
MayMiss == (IF testMode THEN {Core("persistence")} ELSE {}) \cup
           (IF Disposing /\ connected THEN TakenAway ELSE {})

\* A call that only uses objects keeps the invariant if those that do not exist
\* may be missing.
LEMMA UseKeeps ==
    ASSUME LifeInv, NEW used \in SUBSET Object, Uses(used), used \ live \subseteq MayMiss,
           UNCHANGED <<testMode, app, ext, mHandles, roots, live, connected, refused,
                       unopened, freedTwice>>
    PROVE  LifeInv'
<1> USE DEF LifeInv, roots
<1>1. missing' \subseteq Object /\ missing' \subseteq MayMiss
  <2>1. missing' = missing \cup (used \ live) /\ missing \subseteq Object
    BY DEF Uses, TypeOK
  <2>2. missing \subseteq MayMiss
    BY DEF NothingMissing, MayMiss, Disposing
  <2> QED
    BY <2>1, <2>2
<1>2. TypeOK' /\ RootsAgree' /\ Beginning' /\ Constructing' /\ InService'
  BY <1>1 DEF TypeOK, RootsAgree, Beginning, Constructing, InService, IsOpen, Serves
<1>3. ParsersLive' /\ ClientLive' /\ Dismantling' /\ ReadSettled'
  BY DEF ParsersLive, IsOpen, ClientLive, Disposing, Dismantling, ReadSettled, Settled,
         Serves
<1>4. NothingMissing' /\ FreedOnce'
  BY <1>1 DEF NothingMissing, MayMiss, Disposing, TakenAway, FreedOnce
<1>5. OnlyKnownLeaks'
  BY DEF OnlyKnownLeaks, NetconfHas
<1>6. NetconfLive' /\ CodeLive'
  BY NetconfKeeps, CodeKeeps
<1> QED
  BY <1>2, <1>3, <1>4, <1>5, <1>6

\* What a message goes through is of the core, or a registered extension's.
LEMMA ServingIs ==
    ASSUME LifeInv
    PROVE  /\ Serving \subseteq Object
           /\ Serving \ {Core("sharedEnv")} \subseteq TakenAway
           /\ app.pc \in {"loading", "running"} => Serving \subseteq live
<1> DEFINE core == Environment \cup Writers \cup {Core("commandRoot"), Core("responseRoot")}
<1>1. ASSUME NEW o \in Serving
      PROVE  \/ o \in core
             \/ \E l \in Libs : Serves(l) /\ (o \in Parsers(l) \/ o = Of("code", l))
  <2>1. \A i \in DOMAIN commandRoot : Serves(commandRoot[i]) /\ commandRoot[i] \in Libs
    BY ElementOfSeq, LenProperties DEF LifeInv, TypeOK, Serves
  <2>2. responseRoot = commandRoot
    BY DEF LifeInv, RootsAgree
  <2> HIDE DEF core
  <2>3. \/ o \in core
        \/ \E i \in DOMAIN commandRoot : \/ o \in Parsers(commandRoot[i])
                                         \/ o = Of("code", commandRoot[i])
    BY <2>2 DEF Serving, core
  <2> QED
    BY <2>1, <2>3
<1>2. core \subseteq CoreObject
  BY Names
<1>3. \A l \in Libs : Parsers(l) \subseteq ExtObject /\ Of("code", l) \in ExtObject
  BY DEF ExtObject, Parsers, Of
<1>4. core \ {Core("sharedEnv")} \subseteq {Core(DisposeOrder[k]) : k \in DOMAIN DisposeOrder}
  BY <1>2, DisposeDeletes DEF Environment, Writers, Core
<1> HIDE DEF core
<1>5. Serving \subseteq Object
  BY <1>1, <1>2, <1>3 DEF Object
<1>6. Serving \ {Core("sharedEnv")} \subseteq TakenAway
  BY <1>1, <1>4 DEF TakenAway
<1>7. ASSUME app.pc \in {"loading", "running"} PROVE Serving \subseteq live
  BY <1>1, <1>7, CorePresent DEF core
<1> QED
  BY <1>5, <1>6, <1>7

\* The host only calls while the library serves: nothing is missing but, in
\* test mode, the persistence.
LEMMA HostKeeps ==
    LifeInv /\ UNCHANGED testMode /\ (HostCalls \/ HostConfigures) => LifeInv'
<1> SUFFICES ASSUME LifeInv, UNCHANGED testMode, HostCalls \/ HostConfigures PROVE LifeInv'
  OBVIOUS
<1>1. app.pc = "running"
  BY DEF HostCalls, HostConfigures
<1>2. Serving \subseteq live /\ Serving \subseteq Object
  BY <1>1, ServingIs
<1>3. live \cap NetconfObject = NetconfHas
  BY <1>1 DEF LifeInv, NetconfLive
<1>4. CASE HostCalls
  BY <1>2, <1>4, UseKeeps DEF HostCalls
<1>5. CASE HostConfigures
  <2> DEFINE used == Serving \cup Data \cup {Core("persistence")}
  <2>1. used \in SUBSET Object /\ used \ live \subseteq MayMiss
    BY <1>2, <1>3 DEF Object, NetconfObject, NetconfHas, MayMiss
  <2>2. Uses(used)
    BY <1>5 DEF HostConfigures
  <2> HIDE DEF used
  <2> QED
    BY <1>5, <2>1, <2>2, UseKeeps DEF HostConfigures
<1> QED
  BY <1>4, <1>5

\* A callback finds everything until smmcore_dispose begins, and after that its
\* environment, the client and what Netconf has.
LEMMA CallbackKeeps ==
    LifeInv /\ UNCHANGED testMode /\ (RilCallsBack \/ onRadioModeSet) => LifeInv'
<1> SUFFICES ASSUME LifeInv, UNCHANGED testMode, RilCallsBack \/ onRadioModeSet PROVE LifeInv'
  OBVIOUS
<1>1. /\ connected /\ Of("rilClient", "netconf") \in live
      /\ app.pc # "init" /\ app.pc \in Phase
  BY DEF LifeInv, RilCallsBack, onRadioModeSet, ClientLive, Beginning, TypeOK, Phase
<1>2. live \cap NetconfObject = NetconfHas
  BY <1>1 DEF LifeInv, NetconfLive
<1>3. Of("rilClient", "netconf") \in Object /\ "netconf" \in Libs /\ Of("code", "netconf") \in Object
  <2>1. Of("rilClient", "netconf") \in ExtObject
    BY <1>1, Names DEF LifeInv, TypeOK, Object
  <2> QED
    BY <2>1 DEF ExtObject, Of, Object
<1>4. Of("code", "netconf") \in TakenAway
  BY <1>3 DEF TakenAway
<1>5. Disposing => Core("sharedEnv") \in live
  BY DEF LifeInv, Disposing, Dismantling, OnlyKnownLeaks
<1>6. ~Disposing => Serving \subseteq live /\ Of("code", "netconf") \in live
  <2>1. ASSUME ~Disposing PROVE app.pc \in {"loading", "running"}
    BY <1>1, <2>1 DEF Disposing, Phase
  <2>2. ~Disposing => Of("code", "netconf") \in live
    BY <1>1, <1>3 DEF LifeInv, ClientLive, CodeLive
  <2> QED
    BY <2>1, <2>2, ServingIs
<1>7. ClientUses \in SUBSET Object /\ ClientUses \ live \subseteq MayMiss
  <2>1. Data \subseteq live /\ Data \subseteq Object
    BY <1>2 DEF NetconfHas, Object, NetconfObject
  <2>2. Serving \ live \subseteq MayMiss
    BY <1>1, <1>5, <1>6, ServingIs DEF MayMiss
  <2>3. {Of("code", "netconf")} \ live \subseteq MayMiss
    BY <1>1, <1>4, <1>6 DEF MayMiss
  <2> QED
    BY <1>1, <1>3, <2>1, <2>2, <2>3, ServingIs DEF ClientUses
<1>8. CASE RilCallsBack
  BY <1>7, <1>8, UseKeeps DEF RilCallsBack
<1>9. CASE onRadioModeSet
  <2> DEFINE used == ClientUses \cup {Core("persistence")}
  <2>1. used \in SUBSET Object /\ used \ live \subseteq MayMiss
    BY <1>2, <1>7 DEF Object, NetconfObject, NetconfHas, MayMiss
  <2>2. Uses(used)
    BY <1>9 DEF onRadioModeSet
  <2> HIDE DEF used
  <2> QED
    BY <1>9, <2>1, <2>2, UseKeeps DEF onRadioModeSet
<1> QED
  BY <1>8, <1>9

LEMMA DisposeKeeps == LifeInv /\ UNCHANGED testMode /\ Dispose => LifeInv'
<1> SUFFICES ASSUME LifeInv, UNCHANGED testMode, Dispose PROVE LifeInv'
  OBVIOUS
<1> USE DEF LifeInv, Dispose, roots, history
<1>1. /\ app.pc = "running" /\ app'.pc = "disposing" /\ app'.step = 1
      /\ app' \in [pc : Phase, step : Nat \ {0}] /\ ext = NoCtor
  BY DEF Phase, Constructing
<1>2. TypeOK' /\ RootsAgree' /\ Beginning' /\ Constructing' /\ InService'
  BY <1>1 DEF TypeOK, Phase, RootsAgree, Beginning, Constructing, InService
<1>3. ParsersLive' /\ ClientLive' /\ ReadSettled'
  BY <1>1 DEF ParsersLive, IsOpen, ClientLive, Disposing, ReadSettled
<1>4. Dismantling'
  <2>1. CoreObject \subseteq live
    BY <1>1 DEF InService
  <2>3. Core("sharedEnv") \in live
    BY <2>1 DEF CoreObject
  <2>2. \A j \in 1 .. 5 : Core(DisposeOrder[j]) \in live
    BY <2>1, DisposeDeletes
  <2> QED
    BY <1>1, <2>1, <2>2, <2>3, DisposeDeletes DEF Dismantling
<1>5. NothingMissing' /\ FreedOnce' /\ OnlyKnownLeaks'
  BY <1>1, NothingNew DEF Disposing, FreedOnce, OnlyKnownLeaks
<1>6. NetconfLive' /\ CodeLive'
  BY <1>1, NetconfKeeps, CodeKeeps
<1> QED
  BY <1>2, <1>3, <1>4, <1>5, <1>6

LEMMA DeleteCoreKeeps == LifeInv /\ UNCHANGED testMode /\ DeleteCore => LifeInv'
<1> SUFFICES ASSUME LifeInv, UNCHANGED testMode, DeleteCore PROVE LifeInv'
  OBVIOUS
<1> USE DEF LifeInv, DeleteCore, roots
<1> DEFINE o == Core(DisposeOrder[app.step])
<1>1. /\ app.pc = "disposing" /\ app.step \in 1 .. 5 /\ app'.pc = "disposing"
      /\ app'.step = app.step + 1 /\ app' \in [pc : Phase, step : Nat \ {0}]
      /\ ext = NoCtor
  BY NextStep, DisposeDeletes DEF Constructing
<1>2. /\ o \in live /\ o \in CoreObject /\ live' = live \ {o}
      /\ freedTwice' = freedTwice
  <2>1. o \in live /\ o \in CoreObject
    BY <1>1, DisposeDeletes DEF Dismantling
  <2>2. Frees({o})
    OBVIOUS
  <2> HIDE DEF o
  <2> QED
    BY <2>1, <2>2 DEF Frees, TypeOK
<1>3. TypeOK' /\ RootsAgree' /\ Beginning' /\ Constructing' /\ InService'
  BY <1>1, <1>2 DEF TypeOK, Phase, RootsAgree, Beginning, Constructing, InService
<1>4. ParsersLive'
  <2> HIDE DEF o
  <2>1. \A m : \A p \in Parsers(m) : p \in live' <=> p \in live
    BY <1>2, Names
  <2>2. \A m : IsOpen(m)' <=> IsOpen(m)
    BY DEF IsOpen
  <2> QED
    BY <2>1, <2>2 DEF ParsersLive
<1>5. ClientLive' /\ ReadSettled'
  <2> HIDE DEF o
  <2> QED
    BY <1>1, <1>2, Names DEF ClientLive, Disposing, ReadSettled
<1>6. Dismantling'
  <2>1. \A j \in 1 .. 5 : Core(DisposeOrder[j]) = o <=> j = app.step
    BY <1>1, DisposeDeletes, CoreNames
  <2>2. Core("factory") # o /\ Core("sharedEnv") # o
    BY <1>1, DisposeDeletes, CoreNames
  <2>3. \A j : j \in app.step .. 5 <=> j \in app'.step .. 5 \/ j = app.step
    BY <1>1
  <2>4. \A j \in app'.step .. 5 : j \in 1 .. 5 /\ j # app.step
    BY <1>1
  <2> HIDE DEF o
  <2>5. Core("factory") \in live' /\ Core("sharedEnv") \in live'
    BY <1>1, <1>2, <2>2 DEF Dismantling
  <2>6. \A j \in app'.step .. 5 : Core(DisposeOrder[j]) \in live'
    BY <1>1, <1>2, <2>1, <2>3, <2>4 DEF Dismantling
  <2>7. ASSUME NEW c \in live' \cap CoreObject
        PROVE  c \in {Core("factory"), Core("sharedEnv")} \cup
                     {Core(DisposeOrder[j]) : j \in app'.step .. 5}
    <3>1. c \in live \cap CoreObject /\ c # o
      BY <1>2, <2>7
    <3>2. c \in {Core("factory"), Core("sharedEnv")} \cup
                {Core(DisposeOrder[j]) : j \in app.step .. 5}
      BY <1>1, <3>1 DEF Dismantling
    <3> QED
      BY <1>1, <2>1, <2>3, <3>1, <3>2
  <2> QED
    BY <1>1, <2>5, <2>6, <2>7 DEF Dismantling
<1>7. NothingMissing' /\ FreedOnce' /\ OnlyKnownLeaks'
  BY <1>1, <1>2, NothingNew DEF Disposing, FreedOnce, OnlyKnownLeaks
<1>8. NetconfLive' /\ CodeLive'
  <2> HIDE DEF o
  <2>1. \A c \in NetconfObject : c \in live' <=> c \in live
    BY <1>2, Names
  <2>2. \A l : Of("code", l) \in live' <=> Of("code", l) \in live
    BY <1>2, Names
  <2> QED
    BY <1>1, <2>1, <2>2, NetconfKeeps, CodeKeeps
<1> QED
  BY <1>3, <1>4, <1>5, <1>6, <1>7, <1>8

LEMMA CloseHandleKeeps == LifeInv /\ UNCHANGED testMode /\ CloseHandle => LifeInv'
<1> SUFFICES ASSUME LifeInv, UNCHANGED testMode, CloseHandle PROVE LifeInv'
  OBVIOUS
<1> USE DEF LifeInv, CloseHandle, roots
<1>1. /\ app.pc = "disposing" /\ ext = NoCtor /\ mHandles # <<>>
      /\ mHandles \in Seq(Libs) /\ mHandles' = Tail(mHandles)
      /\ UNCHANGED <<app, ext, roots, connected, refused, unopened, missing>>
  BY DEF Constructing, TypeOK
<1>2. PICK l \in Libs : l = Head(mHandles) /\ mHandles' \in Seq(Libs)
  BY <1>1, HeadTailProperties
<1>3. /\ \A m : IsOpen(m) <=> m = l \/ IsOpen(m)'
      /\ ClosedForGood(l) <=> ~IsOpen(l)'
  BY <1>1, <1>2, OpenAfterTail
<1>4. \/ ClosedForGood(l) /\ Frees(Made(l))
      \/ ~ClosedForGood(l) /\ UNCHANGED <<live, freedTwice>>
  BY <1>2
<1>5. /\ Made(l) \subseteq live /\ Made(l) \subseteq Parsers(l) \cup {Of("code", l)}
      /\ Of("code", l) \in Made(l)
  BY <1>1, <1>2, <1>3 DEF ParsersLive, CodeLive, Made, NoCtor
<1>6. /\ freedTwice' = freedTwice /\ live' \subseteq live
      /\ \A c \in live : c \notin Parsers(l) \cup {Of("code", l)} => c \in live'
      /\ \A c \in live' : c \in Made(l) => IsOpen(l)'
  BY <1>3, <1>4, <1>5 DEF Frees, TypeOK
<1>7. TypeOK' /\ RootsAgree' /\ Beginning' /\ Constructing' /\ InService'
  BY <1>1, <1>2, <1>6 DEF TypeOK, RootsAgree, Beginning, Constructing, InService
<1>8. ParsersLive'
  <2> SUFFICES ASSUME NEW m \in Libs
               PROVE  /\ IsOpen(m)' /\ m \notin Unfit => Parsers(m) \subseteq live'
                      /\ \A p \in Parsers(m) : p \in live' => IsOpen(m)' /\ m \notin Unfit
    BY <1>1 DEF ParsersLive
  <2>1. CASE m = l
    <3>1. IsOpen(l)' => live' = live
      BY <1>3, <1>4
    <3>2. IsOpen(l) /\ ~(ext.pc = "construct" /\ ext.lib = l)
      BY <1>1, <1>3 DEF NoCtor
    <3>3. l \notin Unfit => Parsers(l) \subseteq live /\ Parsers(l) \subseteq Made(l)
      BY <1>2, <3>2 DEF ParsersLive, Made
    <3>4. \A p \in Parsers(l) : p \in live => l \notin Unfit
      BY <1>2 DEF ParsersLive
    <3> QED
      BY <1>6, <2>1, <3>1, <3>3, <3>4
  <2>2. CASE m # l
    <3>1. \A p \in Parsers(m) : p \in live' <=> p \in live
      BY <1>6, <2>2, Names
    <3>2. ~(ext.pc = "construct" /\ ext.lib = m) /\ (IsOpen(m)' <=> IsOpen(m))
      BY <1>1, <1>3, <2>2 DEF NoCtor
    <3> QED
      BY <3>1, <3>2 DEF ParsersLive
  <2> QED
    BY <2>1, <2>2
<1>9. ClientLive' /\ ReadSettled'
  <2>1. Of("rilClient", "netconf") \in live => Of("rilClient", "netconf") \in live'
    BY <1>6, Names
  <2>2. /\ app' = app /\ app.pc = "disposing" /\ connected' = connected
        /\ ext' = ext /\ ext.pc = "none"
    BY <1>1 DEF NoCtor
  <2>3. ClientLive'
    BY <2>1, <2>2 DEF ClientLive, Disposing
  <2>4. ReadSettled'
    BY <2>2 DEF ReadSettled
  <2> QED
    BY <2>3, <2>4
<1>10. Dismantling'
  <2>1. \A c \in CoreObject : c \in live' <=> c \in live
    BY <1>6, Names
  <2>2. /\ Core("factory") \in CoreObject /\ Core("sharedEnv") \in CoreObject
        /\ \A j \in 1 .. 5 : Core(DisposeOrder[j]) \in CoreObject
    BY DisposeDeletes
  <2>3. \A j \in app.step .. 5 : j \in 1 .. 5
    BY <1>1 DEF Dismantling
  <2> QED
    BY <1>1, <2>1, <2>2, <2>3 DEF Dismantling
<1>11. NothingMissing' /\ FreedOnce' /\ OnlyKnownLeaks'
  BY <1>1, <1>6, NothingNew DEF Disposing, FreedOnce, OnlyKnownLeaks
<1>12. NetconfLive'
  <2>1. \A c \in NetconfObject : c \in live' <=> c \in live
    BY <1>6, Names
  <2> QED
    BY <1>1, <2>1, NetconfKeeps
<1>13. CodeLive'
  <2> SUFFICES ASSUME NEW m \in Libs PROVE Of("code", m) \in live' <=> IsOpen(m)'
    BY DEF CodeLive
  <2>1. CASE m = l
    BY <1>3, <1>4, <1>5, <1>6, <2>1
  <2>2. CASE m # l
    <3>1. Of("code", m) \in live' <=> Of("code", m) \in live
      BY <1>6, <2>2, Names
    <3> QED
      BY <1>3, <2>2, <3>1 DEF CodeLive
  <2> QED
    BY <2>1, <2>2
<1> QED
  BY <1>7, <1>8, <1>9, <1>10, <1>11, <1>12, <1>13

LEMMA EndDisposeKeeps == LifeInv /\ UNCHANGED testMode /\ EndDispose => LifeInv'
<1> SUFFICES ASSUME LifeInv, UNCHANGED testMode, EndDispose PROVE LifeInv'
  OBVIOUS
<1> USE DEF LifeInv, EndDispose, roots
<1>1. /\ app.pc = "disposing" /\ app.step = 6 /\ mHandles = <<>> /\ ext = NoCtor
      /\ app'.pc = "disposed" /\ app' \in [pc : Phase, step : Nat \ {0}]
      /\ Core("factory") \in live /\ Core("factory") \in CoreObject
  BY DisposeDeletes DEF Constructing, Dismantling, Phase
<1>2. live' = live \ {Core("factory")} /\ freedTwice' = freedTwice
  BY <1>1 DEF Frees, TypeOK
<1>3. TypeOK' /\ RootsAgree' /\ Beginning' /\ Constructing' /\ InService'
  BY <1>1, <1>2 DEF TypeOK, Phase, RootsAgree, Beginning, Constructing, InService
<1>4. ParsersLive' /\ ClientLive' /\ Dismantling' /\ ReadSettled'
  <2>1. ParsersLive'
    BY <1>1, <1>2 DEF ParsersLive, IsOpen
  <2>2. ClientLive' /\ Dismantling' /\ ReadSettled'
    BY <1>1, <1>2, Names DEF ClientLive, Disposing, Dismantling, ReadSettled
  <2> QED
    BY <2>1, <2>2
<1>5. NothingMissing' /\ FreedOnce'
  BY <1>1, <1>2, NothingNew DEF Disposing, FreedOnce
<1>7. NetconfLive' /\ CodeLive'
  <2>1. \A c \in NetconfObject : c \in live' <=> c \in live
    BY <1>1, <1>2, Names
  <2>2. \A l : Of("code", l) \in live' <=> Of("code", l) \in live
    BY <1>1, <1>2, Names
  <2> QED
    BY <1>1, <2>1, <2>2, NetconfKeeps, CodeKeeps
<1>6. OnlyKnownLeaks'
  <2>1. \A j : j \notin app.step .. 5
    BY <1>1
  <2>2. live \cap CoreObject \subseteq {Core("factory"), Core("sharedEnv")}
    BY <1>1, <2>1 DEF Dismantling
  <2>3. ASSUME NEW c \in live, c \in ExtObject PROVE c \in {"env", "rilClient"} \X Libs
    <3>1. PICK m \in Libs : \/ c \in Parsers(m) \/ c = Of("code", m)
                            \/ c = <<"env", m>> \/ c = <<"rilClient", m>>
      BY <2>3 DEF ExtObject, Parsers, Of
    <3>2. c \notin Parsers(m) /\ c # Of("code", m)
      BY <1>1, <2>3 DEF ParsersLive, CodeLive, IsOpen
    <3> QED
      BY <3>1, <3>2
  <2>4. live \cap NetconfObject = NetconfHas /\ NetconfHas' = NetconfHas
    BY <1>1 DEF NetconfLive, NetconfHas
  <2>5. Core("sharedEnv") \in live /\ Core("sharedEnv") \in CoreObject
        /\ Core("sharedEnv") # Core("factory")
    BY <1>1, CoreNames, DisposeDeletes DEF Dismantling
  <2>6. live \subseteq CoreObject \cup NetconfObject \cup ExtObject
    BY DEF TypeOK, Object
  <2>7. live' \ ExtObject = {Core("sharedEnv")} \cup NetconfHas
    BY <1>1, <1>2, <2>2, <2>4, <2>5, <2>6, Names
  <2> QED
    BY <1>1, <1>2, <2>3, <2>4, <2>7 DEF OnlyKnownLeaks
<1> QED
  BY <1>3, <1>4, <1>5, <1>6, <1>7
-----------------------------------------------------------------------------
LEMMA LifeInit == Init => LifeInv
<1> SUFFICES ASSUME Init PROVE LifeInv
  OBVIOUS
<1> USE DEF Init
<1>1. TypeOK /\ RootsAgree
  <2>1. <<>> \in Seq(Libs) /\ <<>> \in Seq(Libs \ Unfit)
    BY EmptySeq
  <2>2. connected \in BOOLEAN /\ testMode \in BOOLEAN /\ freedTwice \in BOOLEAN
    BY ZenonT(20)
  <2> QED
    BY <2>1, <2>2 DEF TypeOK, RootsAgree
<1>2. Beginning
  <2>1. app.step = 1 /\ 1 .. app.step - 1 = {}
    OBVIOUS
  <2>2. live \ NetconfObject = {Core(InitOrder[k]) : k \in 1 .. app.step - 1}
    BY <2>1
  <2> QED
    BY <2>1, <2>2 DEF Beginning
<1>5. NetconfLive /\ CodeLive
  BY DEF NetconfLive, CodeLive, IsOpen
<1>3. Constructing /\ InService /\ ParsersLive /\ ClientLive /\ Dismantling /\ ReadSettled
  BY DEF Constructing, InService, ParsersLive, IsOpen, ClientLive, NoCtor, Dismantling,
         ReadSettled
<1>4. NothingMissing /\ FreedOnce /\ OnlyKnownLeaks
  BY DEF NothingMissing, FreedOnce, OnlyKnownLeaks
<1> QED
  BY <1>1, <1>2, <1>3, <1>4, <1>5 DEF LifeInv

LEMMA LifeStep == LifeInv /\ [Next]_vars => LifeInv'
<1> SUFFICES ASSUME LifeInv, [Next]_vars PROVE LifeInv'
  OBVIOUS
<1>7. UNCHANGED testMode
  BY DEF Next, vars
<1>1. ASSUME NEW i \in DOMAIN Entries, SkipEntry(i) PROVE LifeInv'
  <2>1. unopened' = unopened /\ unopened \subseteq DOMAIN Entries
    BY <1>1 DEF SkipEntry, history, LifeInv, TypeOK
  <2> QED
    BY <1>1, <1>7, <2>1, PassOver DEF SkipEntry, roots, history
<1>2. ASSUME NEW i \in DOMAIN Entries, OpenFails(i) PROVE LifeInv'
  <2>1. unopened \subseteq DOMAIN Entries
    BY DEF LifeInv, TypeOK
  <2> QED
    BY <1>2, <1>7, <2>1, PassOver DEF OpenFails
<1>3. CASE Loads
  BY <1>1, <1>2, <1>3, <1>7, BeginLoadingKeeps, EndInitKeeps, OpenSucceedsKeeps DEF Loads
<1>4. CASE Constructs
  BY <1>4, <1>7, MakeParsersKeeps, ConnectKeeps, AnnounceKeeps, RegisterRefusesKeeps,
     RegisterKeeps DEF Constructs
<1>5. CASE Disposes
  BY <1>5, <1>7, DisposeKeeps, DeleteCoreKeeps, CloseHandleKeeps, EndDisposeKeeps DEF Disposes
<1>6. CASE UNCHANGED vars
  <2>1. UNCHANGED <<testMode, app, ext, mHandles, roots, live, connected, refused, unopened,
                    missing, freedTwice>>
    BY <1>6 DEF vars, history
  <2>2. Uses({})
    BY <2>1 DEF Uses, LifeInv, TypeOK
  <2> QED
    BY <2>1, <2>2, UseKeeps
<1>8. CASE Messages
  BY <1>7, <1>8, HostKeeps, CallbackKeeps DEF Messages
<1> QED
  BY <1>3, <1>4, <1>5, <1>6, <1>7, <1>8, MakeCoreKeeps DEF Next

LEMMA LifeInvariant == Spec => []LifeInv
BY LifeInit, LifeStep, PTL DEF Spec

\* Whatever the directory holds, the two root parsers hold the same extensions
\* in the same order, each once.
THEOREM RootsAlwaysAgree == Spec => []RootsAgree
<1>1. LifeInv => RootsAgree
  BY DEF LifeInv
<1> QED
  BY <1>1, LifeInvariant, PTL

\* A library that fails keeps no other from being loaded.
THEOREM FailuresAreContained == Spec => []OthersAreLoaded
<1>1. LifeInv => OthersAreLoaded
  BY DEF LifeInv, ReadSettled, Settled, Serves, OthersAreLoaded
<1> QED
  BY <1>1, LifeInvariant, PTL

\* Whatever the directory holds, nobody uses an object that does not exist, the
\* daemon's callbacks included, but for the persistence in test mode and what
\* smmcore_dispose takes away from a client that has connected.
THEOREM ObjectsOutliveTheirUse == Spec => []NothingMissing
<1>1. LifeInv => NothingMissing
  BY DEF LifeInv
<1> QED
  BY <1>1, LifeInvariant, PTL

\* smmcore_dispose deletes nothing twice, whatever the directory holds and
\* whichever libraries could not be opened or registered.
THEOREM DisposedOnce == Spec => []FreedOnce
<1>1. LifeInv => FreedOnce
  BY DEF LifeInv
<1> QED
  BY <1>1, LifeInvariant, PTL

\* When smmcore_dispose has returned there are left, and no more: the shared
\* environment, the contexts, route controller and persistence that Netconf has
\* referred to, the extensions' environments and their RIL client.
THEOREM NothingElseLeaks == Spec => []OnlyKnownLeaks
<1>1. LifeInv => OnlyKnownLeaks
  BY DEF LifeInv
<1> QED
  BY <1>1, LifeInvariant, PTL

\* Every object, handle and registration has the shape TypeOK describes,
\* whatever the directory holds.
THEOREM LifecycleTypes == Spec => []TypeOK
<1>1. LifeInv => TypeOK
  BY DEF LifeInv
<1> QED
  BY <1>1, LifeInvariant, PTL
=============================================================================
