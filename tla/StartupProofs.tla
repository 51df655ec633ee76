----------------------------- MODULE StartupProofs -----------------------------
(***************************************************************************)
(* Theorems about Startup, for every width of int, set of keys and file.   *)
(***************************************************************************)
EXTENDS Startup, TLAPS

\* A narrowed integer is an int.
LEMMA NarrowType == ASSUME NEW n \in Int PROVE Narrow(n) \in Ints
<1>1. 2 * Half \in Nat \ {0} /\ n + Half \in Int
  BY StartupAssumption
<1>2. (n + Half) % (2 * Half) \in 0 .. 2 * Half - 1
  BY <1>1
<1> QED BY <1>1, <1>2, StartupAssumption DEF Narrow, Ints

\* load_config returns ints.
LEMMA LoadedType == ASSUME NEW f \in Files PROVE Loaded(f) \in [Keys -> Ints]
<1>1. ASSUME NEW k \in Keys, k \in DOMAIN f.numbers PROVE Narrow(f.numbers[k]) \in Ints
  <2>1. PICK given \in SUBSET Keys : f.numbers \in [given -> Raws]
    BY DEF Files
  <2> QED BY <1>1, <2>1, NarrowType, StartupAssumption
<1> QED BY <1>1, StartupAssumption DEF Loaded

\* A step that only moves main on between stages where nothing is allocated, or
\* everything is, keeps the invariant: the stages before the models.
LEMMA EarlyStages ==
  ASSUME StartInv, Arguments \/ LoadConfig \/ InitLogger \/ Validate \/ StartBackend
  PROVE  StartInv'
<1> USE DEF StartInv, StartTypeOK, UsableInLoop, RetentionHonoured, FreedOnce,
        Loop, Leaving, Refuse, Proceed, rest, objects
<1>1. CASE Arguments
  BY <1>1 DEF Arguments, Faultless
<1>2. CASE LoadConfig
  BY <1>2, LoadedType DEF LoadConfig, Faultless
<1>3. CASE InitLogger
  BY <1>3 DEF InitLogger, Faultless, LevelOf, Levels, Audible
<1>4. CASE Validate
  BY <1>4 DEF Validate, Faultless, Audible
<1>5. CASE StartBackend
  BY <1>5 DEF StartBackend, Faultless
<1> QED BY <1>1, <1>2, <1>3, <1>4, <1>5

\* The providers.
LEMMA ProviderStages ==
  ASSUME StartInv, NEW p \in Providers,
         LoadModel(p) \/ MakeContext(p) \/ GiveUp(p) \/ Destroy(p)
  PROVE  StartInv'
<1> USE StartupAssumption
    DEF StartInv, StartTypeOK, UsableInLoop, RetentionHonoured, FreedOnce,
        Loop, Leaving, Refuse, Proceed, rest, objects, Providers, Objects
<1>1. CASE LoadModel(p)
  <2>1. UNCHANGED <<file, cfg, level, shutdown, purged, backend>>
    BY <1>1 DEF LoadModel
  <2>2. CASE Refuse(Audible(level)) /\ UNCHANGED <<live, held, width>>
    BY <1>1, <2>1, <2>2 DEF LoadModel, Faultless, Audible
  <2>3. CASE /\ UNCHANGED <<stage, code, told>>
             /\ live' = [live EXCEPT ![p] = {"model"}]
             /\ held' = [held EXCEPT ![p] = {"model"}]
             /\ IF p = "embed" THEN width' \in Widths ELSE UNCHANGED width
    <3>1. stage = p /\ width' \in Ints /\ (p = "generate" => width' = width)
      BY <1>1, <2>3 DEF LoadModel
    <3>2. live' \in [Providers -> SUBSET Objects] /\ held' = live'
      BY <2>3
    <3>3. \A q \in Providers : q # p => live'[q] = live[q]
      BY <2>3
    <3>4. StartTypeOK'
      BY <2>1, <2>3, <3>1, <3>2
    <3> QED BY <2>1, <2>3, <3>1, <3>2, <3>3, <3>4 DEF Faultless, Audible
  <2> QED BY <1>1, <2>2, <2>3 DEF LoadModel
<1>2. CASE MakeContext(p)
  BY <1>2 DEF MakeContext, Faultless, Audible
<1>3. CASE GiveUp(p)
  BY <1>3 DEF GiveUp, Faultless, Audible
<1>4. CASE Destroy(p)
  <2>1. /\ UNCHANGED <<file, cfg, level, shutdown, purged, backend, width, code, told>>
        /\ stage = Drop(p) /\ stage' = IF p = "generate" THEN "drop embed" ELSE "drop backend"
    BY <1>4 DEF Destroy
  <2>2. live' = [live EXCEPT ![p] = {}] /\ held' = live'
    BY <1>4 DEF Destroy
  <2>3. stage = IF p = "generate" THEN "drop generate" ELSE "drop embed"
    BY <2>1 DEF Drop
  <2>4. StartTypeOK'
    BY <2>1, <2>2, <2>3
  <2> QED BY <2>1, <2>2, <2>3, <2>4 DEF Faultless
<1> QED BY <1>1, <1>2, <1>3, <1>4

\* What is left of main, and a signal.
LEMMA LoopStages ==
  ASSUME StartInv,
         \/ CheckWidth \/ Connect \/ TestShutdown \/ Claim \/ Sleep \/ PurgeSweep
         \/ DestroyGuard \/ Interrupt
  PROVE  StartInv'
<1> USE DEF StartInv, StartTypeOK, UsableInLoop, RetentionHonoured, FreedOnce,
        Loop, Leaving, Refuse, Proceed, rest, objects
<1>1. CASE CheckWidth
  BY <1>1 DEF CheckWidth, Faultless, Audible
<1>2. CASE Connect
  BY <1>2 DEF Connect, Faultless, Audible
<1>3. CASE TestShutdown
  BY <1>3 DEF TestShutdown, Faultless
<1>4. CASE Claim
  BY <1>4 DEF Claim, Faultless
<1>5. CASE Sleep
  BY <1>5 DEF Sleep, Faultless
<1>6. CASE PurgeSweep
  <2>1. Enabled(file.purge) => Parsed(file.purge) = Durations(file.purge)
    BY DEF Enabled, Parsed
  <2> HIDE DEF RetentionHonoured
  <2>2. RetentionHonoured'
    BY <1>6, <2>1 DEF PurgeSweep, RetentionHonoured
  <2> QED BY <1>6, <2>2 DEF PurgeSweep, Faultless
<1>7. CASE DestroyGuard
  BY <1>7 DEF DestroyGuard, Faultless, Providers
<1>8. CASE Interrupt
  <2>1. CASE backend = "none"
    BY <1>8, <2>1 DEF Interrupt, Faultless, Providers
  <2>2. CASE backend # "none"
    <3>1. UNCHANGED <<file, cfg, stage, level, objects, purged, code, told>> /\ shutdown' = TRUE
      BY <1>8, <2>2 DEF Interrupt
    <3> QED BY <3>1 DEF Faultless
  <2> QED BY <2>1, <2>2
<1> QED BY <1>1, <1>2, <1>3, <1>4, <1>5, <1>6, <1>7, <1>8

\* The invariant of main, for every file and every outcome of every call.
THEOREM StartupSafety == StartSpec => []StartInv
<1>1. StartInit => StartInv
  <2> SUFFICES ASSUME StartInit PROVE StartInv
    OBVIOUS
  <2>1. width \in Ints
    BY StartupAssumption DEF StartInit, Ints
  <2>2. StartTypeOK
    BY <2>1, StartupAssumption DEF StartInit, StartTypeOK, Levels
  <2> QED BY <2>2
          DEF StartInit, StartInv, UsableInLoop, RetentionHonoured, FreedOnce, Loop, Providers
<1>2. StartInv /\ [StartNext]_startVars => StartInv'
  <2> SUFFICES ASSUME StartInv, [StartNext]_startVars PROVE StartInv'
    OBVIOUS
  <2>1. CASE UNCHANGED startVars
    <3>1. StartTypeOK'
      BY <2>1 DEF startVars, StartInv, StartTypeOK
    <3> QED BY <2>1, <3>1 DEF startVars, StartInv, UsableInLoop, RetentionHonoured,
                              FreedOnce, Faultless
  <2> QED BY <2>1, EarlyStages, ProviderStages, LoopStages DEF StartNext, MainStep
<1> QED BY <1>1, <1>2, PTL DEF StartSpec

\* A worker in its loop has settings it can use, whatever the file gave.
THEOREM OnlyUsableSettings == StartSpec => []UsableInLoop
<1>1. StartInv => UsableInLoop
  BY DEF StartInv
<1> QED BY <1>1, StartupSafety, PTL

\* 'omit/"0" = keep forever'
THEOREM DoneRowsAreKept == StartSpec => []RetentionHonoured
<1>1. StartInv => RetentionHonoured
  BY DEF StartInv
<1> QED BY <1>1, StartupSafety, PTL

\* Models, contexts and the backend are freed once, in the right order.
THEOREM EverythingIsFreedOnce == StartSpec => []FreedOnce
<1>1. StartInv => FreedOnce
  BY DEF StartInv
<1> QED BY <1>1, StartupSafety, PTL

\* Whoever is refused can read why, if the log level lets him.
THEOREM RefusalsAreReported == StartSpec => []RefusalIsReported
<1>1. StartInv => RefusalIsReported
  BY DEF StartInv, StartTypeOK, Files, Levels, LevelOf, Audible, RefusalIsReported
<1> QED BY <1>1, StartupSafety, PTL
===============================================================================
