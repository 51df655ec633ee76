-------------------------------- MODULE Startup --------------------------------
(***************************************************************************)
(* One process of pgquarry_worker from main's first line to its last:      *)
(* arguments, configuration, logger, validation, models, connection, loop, *)
(* and the destructors.  What the loop does to the queue is in JobQueue.   *)
(*                                                                         *)
(* A TOML integer has 64 bits and is kept in an int, of values -Half up to *)
(* Half - 1.  A key that is missing or of another type has its default.    *)
(***************************************************************************)
EXTENDS Integers, FiniteSets

CONSTANTS
  Half,          \* 2^31
  Positive,      \* keys that validate() wants to be > 0
  NonNegative,   \* keys that it wants to be >= 0
  Defaults,      \* value of a key that the file does not give
  Raws,          \* integers a file gives
  Purges,        \* values of purge_after
  Widths         \* vector widths of embedding models

Keys == Positive \cup NonNegative
Ints == -Half .. Half - 1

ASSUME StartupAssumption ==
  /\ Half \in Nat \ {0} /\ Raws \subseteq Int
  /\ {"dimensions", "max_size_mb"} \subseteq Positive
  /\ Defaults \in [Keys -> Ints] /\ Widths \subseteq Ints
  /\ Purges \subseteq [digits : Nat \cup {-1}, unit : {"none", "s", "m", "h", "d", "other"}]

Levels == {"trace", "debug", "info", "warn", "error", "critical", "off"}

\* A file: its integers, log_level, purge_after, is generation_model_path set.
Files == [numbers : UNION {[given -> Raws] : given \in SUBSET Keys},
          level : Levels \cup {"unknown"}, purge : Purges, generate : BOOLEAN]

Providers == {"embed", "generate"}
Objects == {"model", "context"}

VARIABLES
  file,          \* the configuration file
  cfg,           \* AppConfig's integers
  stage,         \* what main is about to do
  level,         \* spdlog's level
  live,          \* per provider, what llama.cpp has allocated
  held,          \* per provider, the members that are not nullptr
  backend,       \* "none", "live", "freed"
  width,         \* dimensions() of the embedding model
  shutdown,      \* g_shutdown
  purged,        \* intervals of the sweeps that deleted rows
  code,          \* exit status
  told           \* was the reason to exit with 1 written where one can read it

objects == <<live, held, backend, width>>
rest    == <<file, cfg, level, shutdown, purged>>
startVars == <<file, cfg, stage, level, live, held, backend, width,
               shutdown, purged, code, told>>

Loop == {"loop", "claim", "sleep", "sweep"}
Leaving == {"drop generate", "drop embed", "drop backend"}

StartTypeOK ==
  /\ file \in Files /\ cfg \in [Keys -> Ints]
  /\ stage \in {"arguments", "parse", "logger", "validate", "backend", "embed", "width",
                "generate", "connect", "ended", "aborted", "killed"} \cup Loop \cup Leaving
  /\ level \in Levels
  /\ live \in [Providers -> SUBSET Objects] /\ held \in [Providers -> SUBSET Objects]
  /\ backend \in {"none", "live", "freed"} /\ width \in Ints
  /\ shutdown \in BOOLEAN /\ code \in {0, 1} /\ told \in BOOLEAN

StartInit ==
  /\ file \in Files /\ cfg = Defaults /\ stage = "arguments" /\ level = "info"
  /\ live = [p \in Providers |-> {}] /\ held = [p \in Providers |-> {}]
  /\ backend = "none" /\ width = 0
  /\ shutdown = FALSE /\ purged = {} /\ code = 0 /\ told = FALSE

-----------------------------------------------------------------------------
\* static_cast<int>
Narrow(n) == ((n + Half) % (2 * Half)) - Half

Loaded(f) ==
  [k \in Keys |-> IF k \in DOMAIN f.numbers THEN Narrow(f.numbers[k]) ELSE Defaults[k]]

\* Mutant: level names are looked up in spdlog's list only, where "warn" is
\* "warning".
LevelOfNames(name) == IF name \in Levels \ {"warn"} THEN name ELSE "off"

\* spdlog::level::from_str: a name it does not know is "off".
LevelOf(name) == IF name \in Levels THEN name ELSE "off"

Audible(lvl) == lvl \notin {"critical", "off"}

\* The values "" and "0" of purge_after.
Empty == [digits |-> -1, unit |-> "none"]
Zero  == [digits |-> 0, unit |-> "none"]

\* Mutant: the loop does not know "0" as "keep forever".
EnabledAtZero(raw) == raw # Empty

\* RetentionConfig::enabled
Enabled(raw) == raw \notin {Empty, Zero}

Seconds == [s |-> 1, m |-> 60, h |-> 3600, d |-> 86400]

\* The durations that raw spells: one, or none.
Durations(raw) ==
  {raw.digits * Seconds[u] : u \in {v \in DOMAIN Seconds : v = raw.unit /\ raw.digits >= 0}}

\* parse_purge_after: the interval as a set, {} for nullopt.  "" and "0" give
\* "0 seconds", just as "0s" does.
Parsed(raw) == IF raw \in {Empty, Zero} THEN {0} ELSE Durations(raw)

\* Mutant: the integers are checked as the file has them.
FaultlessUnnarrowed ==
  /\ \A k \in DOMAIN file.numbers :
       IF k \in Positive THEN file.numbers[k] > 0 ELSE file.numbers[k] >= 0
  /\ file.level \in Levels /\ Parsed(file.purge) # {}

\* AppConfig::validate has no error to return, but for the paths.
Faultless ==
  /\ \A k \in Positive : cfg[k] > 0
  /\ \A k \in NonNegative : cfg[k] >= 0
  /\ file.level \in Levels /\ Parsed(file.purge) # {}

Refuse(written) ==
  /\ stage' = "drop generate" /\ code' = 1 /\ told' = written

Proceed(next) == stage' = next /\ UNCHANGED <<code, told>>

\* The command line is wrong, asks for help, or names the file.
Arguments ==
  /\ stage = "arguments"
  /\ Refuse(TRUE) \/ Proceed("drop generate") \/ Proceed("parse")
  /\ UNCHANGED <<rest, objects>>

LoadConfig ==
  /\ stage = "parse"
  /\ \/ Refuse(TRUE) /\ UNCHANGED cfg
     \/ Proceed("logger") /\ cfg' = Loaded(file)
  /\ UNCHANGED <<file, level, shutdown, purged, objects>>

\* The directory cannot be made: std::filesystem_error is not caught.  The log
\* file cannot be opened, as with a size of 0: spdlog_ex is, and spdlog goes on
\* writing to the console.
InitLogger ==
  /\ stage = "logger"
  /\ \/ Proceed("aborted") /\ UNCHANGED level
     \/ Proceed("validate") /\ UNCHANGED level
     \/ cfg["max_size_mb"] # 0 /\ Proceed("validate") /\ level' = LevelOf(file.level)
  /\ UNCHANGED <<file, cfg, shutdown, purged, objects>>

\* conninfo or a model file may be missing.
Validate ==
  /\ stage = "validate"
  /\ Refuse(Audible(level)) \/ (Faultless /\ Proceed("backend"))
  /\ UNCHANGED <<rest, objects>>

\* The signal handlers, and LlamaBackendGuard.
StartBackend ==
  /\ stage = "backend" /\ Proceed("embed")
  /\ backend' = "live"
  /\ UNCHANGED <<rest, live, held, width>>

\* A provider's init: the model, then the context.
LoadModel(p) ==
  /\ stage = p /\ held[p] = {}
  /\ \/ Refuse(Audible(level)) /\ UNCHANGED <<live, held, width>>
     \/ /\ UNCHANGED <<stage, code, told>>
        /\ live' = [live EXCEPT ![p] = {"model"}]
        /\ held' = [held EXCEPT ![p] = {"model"}]
        /\ IF p = "embed" THEN width' \in Widths ELSE UNCHANGED width
  /\ UNCHANGED <<rest, backend>>

MakeContext(p) ==
  /\ stage = p /\ held[p] = {"model"}
  /\ live' = [live EXCEPT ![p] = Objects]
  /\ held' = [held EXCEPT ![p] = Objects]
  /\ Proceed(IF p = "embed" THEN "width" ELSE "connect")
  /\ UNCHANGED <<rest, backend, width>>

\* Mutant: model_ is freed but not reset.
GiveUpDangling(p) ==
  /\ stage = p /\ held[p] = {"model"}
  /\ live' = [live EXCEPT ![p] = {}]
  /\ Refuse(Audible(level))
  /\ UNCHANGED <<rest, held, backend, width>>

\* No context, or no chat template: the model is freed.
GiveUp(p) ==
  /\ stage = p /\ held[p] = {"model"}
  /\ live' = [live EXCEPT ![p] = {}]
  /\ held' = [held EXCEPT ![p] = {}]
  /\ Refuse(Audible(level))
  /\ UNCHANGED <<rest, backend, width>>

CheckWidth ==
  /\ stage = "width"
  /\ \/ width # cfg["dimensions"] /\ Refuse(Audible(level))
     \/ /\ width = cfg["dimensions"]
        /\ Proceed(IF file.generate THEN "generate" ELSE "connect")
  /\ UNCHANGED <<rest, objects>>

\* store.connect() and mappings.load().
Connect ==
  /\ stage = "connect"
  /\ Refuse(Audible(level)) \/ Proceed("loop")
  /\ UNCHANGED <<rest, objects>>

-----------------------------------------------------------------------------
TestShutdown ==
  /\ stage = "loop"
  /\ Proceed(IF shutdown THEN "drop generate" ELSE "claim")
  /\ UNCHANGED <<rest, objects>>

\* claim_pending throws, or there is a batch, perhaps an empty one.
Claim ==
  /\ stage = "claim"
  /\ Proceed("sleep") \/ Proceed("sweep")
  /\ UNCHANGED <<rest, objects>>

\* Mutant: a failed claim is retried until it succeeds.
SleepAndRetry ==
  /\ stage = "sleep" /\ Proceed("claim")
  /\ UNCHANGED <<rest, objects>>

\* The `continue` after a failed claim.
Sleep ==
  /\ stage = "sleep" /\ Proceed("loop")
  /\ UNCHANGED <<rest, objects>>

\* Due or not, refused or not, and with or without rows to delete.
PurgeSweep ==
  /\ stage = "sweep" /\ Proceed("loop")
  /\ \/ UNCHANGED purged
     \/ Enabled(file.purge) /\ purged' = purged \cup Parsed(file.purge)
  /\ UNCHANGED <<file, cfg, level, shutdown, objects>>

Drop(p) == IF p = "generate" THEN "drop generate" ELSE "drop embed"

\* ~LlamaGenerationProvider and ~LlamaProvider, in this order.
Destroy(p) ==
  /\ stage = Drop(p)
  /\ Proceed(IF p = "generate" THEN "drop embed" ELSE "drop backend")
  /\ live' = [live EXCEPT ![p] = @ \ held[p]]
  /\ held' = [held EXCEPT ![p] = {}]
  /\ UNCHANGED <<rest, backend, width>>

\* ~LlamaBackendGuard, if main came as far as to declare it.
DestroyGuard ==
  /\ stage = "drop backend" /\ Proceed("ended")
  /\ backend' = IF backend = "live" THEN "freed" ELSE backend
  /\ UNCHANGED <<rest, live, held, width>>

\* SIGINT or SIGTERM: the handler's flag, or the end if none is installed.
Interrupt ==
  /\ stage \notin {"ended", "aborted", "killed"}
  /\ IF backend = "none" THEN Proceed("killed") /\ UNCHANGED shutdown
                         ELSE shutdown' = TRUE /\ UNCHANGED <<stage, code, told>>
  /\ UNCHANGED <<file, cfg, level, purged, objects>>

MainStep ==
  \/ Arguments \/ LoadConfig \/ InitLogger \/ Validate \/ StartBackend
  \/ \E p \in Providers : LoadModel(p) \/ MakeContext(p) \/ GiveUp(p) \/ Destroy(p)
  \/ CheckWidth \/ Connect
  \/ TestShutdown \/ Claim \/ Sleep \/ PurgeSweep
  \/ DestroyGuard

StartNext == MainStep \/ Interrupt

StartSpec == StartInit /\ [][StartNext]_startVars

\* The process is scheduled, and every call of main returns.
FairStartSpec == StartSpec /\ WF_startVars(MainStep)

-----------------------------------------------------------------------------
\* No worker serves the queue with a setting that validate() names as an error,
\* or with a model whose vectors do not have the configured width.
UsableInLoop ==
  stage \in Loop => /\ \A k \in Positive : cfg[k] > 0
                    /\ \A k \in NonNegative : cfg[k] >= 0
                    /\ width = cfg["dimensions"]

\* pgquarry.toml.example 26: done rows "older than this" are deleted; 'omit/"0"
\* = keep forever', although "0" parses to an interval of no length.
RetentionHonoured == purged \subseteq Durations(file.purge)

\* On no path through main is anything freed twice, kept after its release,
\* leaked, or freed after the backend.
FreedOnce ==
  /\ held = live
  /\ backend = "freed" \/ stage = "ended" => \A p \in Providers : live[p] = {}
  /\ stage = "ended" => backend # "live"

\* Exit status 1 comes with a message, unless the file asks for none, or has a
\* log_level that spdlog takes for "off" before validate() can complain of it.
RefusalIsReported ==
  stage = "ended" /\ code = 1 /\ ~told =>
    file.level \in {"critical", "off", "unknown"}

\* The inductive invariant of StartupProofs.
StartInv ==
  /\ StartTypeOK
  /\ UsableInLoop /\ RetentionHonoured /\ FreedOnce
  /\ stage \in Loop \cup {"backend", "embed", "width", "generate", "connect"} => Faultless
  /\ stage \in Loop \cup {"generate", "connect"} => width = cfg["dimensions"]
  /\ stage \in Loop \cup {"embed", "width", "generate", "connect"} => backend = "live"
  /\ backend = "freed" => stage = "ended"
  /\ backend = "none" => \A p \in Providers : live[p] = {}
  /\ live["generate"] # {} => stage \in Loop \cup {"generate", "connect", "drop generate"}
  /\ live["embed"] # {} =>
       stage \in Loop \cup {"embed", "width", "generate", "connect", "drop generate", "drop embed"}
  /\ level \in {"info", LevelOf(file.level)}
  /\ code = 1 /\ ~told => ~Audible(level)

\* A signal ends the worker, also when every claim fails.
StopsWhenAsked == shutdown ~> stage = "ended"
===============================================================================
