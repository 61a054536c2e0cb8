-------------------------------- MODULE Startup --------------------------------
(***************************************************************************)
(* The life of the server's processes: load_or_init of src/config.rs, main *)
(* of src/main.rs, Db::open of src/db.rs, under the LaunchAgent of dist/,  *)
(* which starts the server again whenever it ends, and beside instances    *)
(* that are started by hand.  All of them use the same config.toml and the *)
(* same table, but each has its own CheckCache.                            *)
(*                                                                         *)
(* One repository, which is on disk all the time, stands for all: `row` is *)
(* its row.  A configuration is kept as far as it decides what the process *)
(* does; the text of config.toml as far as it decides what toml makes of   *)
(* it.                                                                     *)
(***************************************************************************)
EXTENDS Naturals

CONSTANTS
    Instances,  \* the processes that may be there at the same time
    Managed,    \* the one that launchd keeps alive
    Configs,    \* the configurations a user may write
    Default,    \* Config::default()
    Absent,     \* there is no config.toml
    Empty,      \* it has been created, and nothing is in it yet
    Malformed,  \* toml refuses it
    Content,    \* the states of the repository
    Null,       \* SQL NULL, and a missing cache entry
    Untracked,  \* no row
    MaxFaults   \* bound on the crashes, signals and I/O errors

ASSUME StartupAssumption ==
    /\ Managed \in Instances
    /\ Default \in Configs
    /\ {Absent, Empty, Malformed} \cap Configs = {}
    /\ Absent # Empty /\ Empty # Malformed
    /\ {Null, Untracked} \cap Content = {}
    /\ MaxFaults \in Nat

VARIABLES
    (* On disk. *)
    file,   \* config.toml
    row,    \* the status of the repository's row
    disk,   \* the repository
    (* The processes. *)
    pc,     \* what each is doing
    cfg,    \* its Config, read once and served by GET /config
    cache,  \* its CheckCache entry of the repository
    (* History: only bounds and properties read it. *)
    faults, \* the faults so far
    edited  \* the instances whose file is not the one they loaded any more

vars == <<file, row, disk, pc, cfg, cache, faults, edited>>

\* "reading", "creating": path.exists() said so; "writing": the file is truncated;
\* "opening": the configuration is loaded; "binding": the database is open.
Phase == {"off", "reading", "creating", "writing", "opening", "binding", "serving"}
Texts == Configs \cup {Absent, Empty, Malformed}

StartupTypeOK ==
    /\ file \in Texts
    /\ row \in Content \cup {Null, Untracked}
    /\ disk \in Content
    /\ pc \in [Instances -> Phase]
    /\ cfg \in [Instances -> Configs]
    /\ cache \in [Instances -> Content \cup {Null}]
    /\ faults \in 0 .. MaxFaults
    /\ edited \in SUBSET Instances

Init ==
    /\ file \in Texts
    /\ row \in Content \cup {Null, Untracked}
    /\ disk \in Content
    /\ pc = [k \in Instances |-> "off"]
    /\ cfg = [k \in Instances |-> Default]
    /\ cache = [k \in Instances |-> Null]
    /\ faults = 0
    /\ edited = {}

-----------------------------------------------------------------------------
(* The user.                                                               *)

\* Variant: every field is required.
ReadableStrict(text) == text \in Configs

\* Every field has a default, so an empty text is a configuration.
Readable(text) == text \in Configs \cup {Empty}
Parsed(text) == IF text = Empty THEN Default ELSE text

EditConfig ==
    /\ file' \in (Configs \cup {Malformed, Absent}) \ {file}
    /\ edited' = Instances
    /\ UNCHANGED <<row, disk, pc, cfg, cache, faults>>

DiskChange ==
    /\ disk' \in Content \ {disk}
    /\ UNCHANGED <<file, row, pc, cfg, cache, faults, edited>>

-----------------------------------------------------------------------------
(* From the start of a process to its main loop.                           *)

Go(k, phase) == pc' = [pc EXCEPT ![k] = phase]

\* load_or_init begins: does the file exist?
Start(k) ==
    /\ pc[k] = "off"
    /\ Go(k, IF file = Absent THEN "creating" ELSE "reading")
    /\ UNCHANGED <<file, row, disk, cfg, cache, faults, edited>>

Load(k, c) ==
    /\ Go(k, "opening")
    /\ cfg' = [cfg EXCEPT ![k] = c]
    /\ edited' = edited \ {k}

\* Variant: what cannot be read counts as the default.
ReadForgiving(k) ==
    /\ pc[k] = "reading"
    /\ Load(k, IF Readable(file) THEN Parsed(file) ELSE Default)
    /\ UNCHANGED <<file, row, disk, cache, faults>>

\* The file may be gone again by now: like a malformed one it ends the process.
Read(k) ==
    /\ pc[k] = "reading"
    /\ IF Readable(file) THEN Load(k, Parsed(file)) ELSE Go(k, "off") /\ UNCHANGED <<cfg, edited>>
    /\ UNCHANGED <<file, row, disk, cache, faults>>

\* std::fs::write creates or truncates the file, whatever became of it since the test ...
Truncate(k) ==
    /\ pc[k] = "creating"
    /\ Go(k, "writing")
    /\ file' = Empty
    /\ edited' = IF file \in {Absent, Empty, Default} THEN edited ELSE Instances
    /\ UNCHANGED <<row, disk, cfg, cache, faults>>

\* ... and then writes the defaults into it.
WriteDefault(k) ==
    /\ pc[k] = "writing"
    /\ file' = Default
    /\ cfg' = [cfg EXCEPT ![k] = Default]
    /\ Go(k, "opening")
    /\ edited' = (IF file \in {Absent, Empty, Default} THEN edited ELSE Instances) \ {k}
    /\ UNCHANGED <<row, disk, cache, faults>>

OpenDb(k) ==
    /\ pc[k] = "opening"
    /\ Go(k, "binding")
    /\ cache' = [cache EXCEPT ![k] = Null]
    /\ UNCHANGED <<file, row, disk, cfg, faults, edited>>

\* Variant: an interval of zero takes the whole process down.
BindStrict(k) ==
    /\ pc[k] = "binding"
    /\ Go(k, IF \/ \E j \in Instances : pc[j] = "serving" /\ cfg[j].addr = cfg[k].addr
                \/ ~cfg[k].scan \/ ~cfg[k].check
             THEN "off" ELSE "serving")
    /\ UNCHANGED <<file, row, disk, cfg, cache, faults, edited>>

\* The address is taken, or not.
Bind(k) ==
    /\ pc[k] = "binding"
    /\ Go(k, IF \E j \in Instances : pc[j] = "serving" /\ cfg[j].addr = cfg[k].addr
             THEN "off" ELSE "serving")
    /\ UNCHANGED <<file, row, disk, cfg, cache, faults, edited>>

\* A crash, a signal or a restart by launchctl at any point; the database cannot be
\* opened; writing the defaults fails, perhaps half-way.
Die(k) ==
    /\ pc[k] # "off"
    /\ faults < MaxFaults
    /\ faults' = faults + 1
    /\ Go(k, "off")
    /\ file' \in IF pc[k] = "writing" THEN {file, Empty, Malformed} ELSE {file}
    /\ edited' = IF file' = file THEN edited ELSE Instances
    /\ UNCHANGED <<row, disk, cfg, cache>>

-----------------------------------------------------------------------------
(* The loops, one pass a step.  An interval of zero panics in the loop     *)
(* that asked for it, and ends that loop only.                             *)

\* Variant: the loops run as soon as they are spawned.
WorksEarly(k) == pc[k] \in {"binding", "serving"}

\* main has no .await before bind, so on the one thread of the runtime the loops it has
\* spawned are first polled when the address is bound; if it is taken, never.
Works(k) == pc[k] = "serving"

Scan(k) ==
    /\ Works(k) /\ cfg[k].scan
    /\ row = Untracked
    /\ row' = Null
    /\ UNCHANGED <<file, disk, pc, cfg, cache, faults, edited>>

\* check_all and save_status: write on a difference to what the cache, or else the table,
\* says.
Check(k) ==
    /\ Works(k) /\ cfg[k].check
    /\ row # Untracked
    /\ row' = IF (IF cache[k] # Null THEN cache[k] ELSE row) # disk THEN disk ELSE row
    /\ cache' = [cache EXCEPT ![k] = disk]
    /\ UNCHANGED <<file, disk, pc, cfg, faults, edited>>

-----------------------------------------------------------------------------
Goes(k) ==
    Read(k) \/ Truncate(k) \/ WriteDefault(k) \/ OpenDb(k) \/ Bind(k)

Next ==
    \/ EditConfig
    \/ DiskChange
    \/ \E k \in Instances : Start(k) \/ Goes(k) \/ Die(k) \/ Scan(k) \/ Check(k)

Spec == Init /\ [][Next]_vars

\* A process goes on, its loops come round, and launchd starts the managed one again
\* (KeepAlive).  Nobody need start another.
Fairness ==
    /\ WF_vars(Start(Managed))
    /\ \A k \in Instances : WF_vars(Goes(k)) /\ WF_vars(Scan(k)) /\ WF_vars(Check(k))

FairSpec == Spec /\ Fairness

-----------------------------------------------------------------------------
\* What save_status takes for stored is stored, although every process has a cache of its
\* own and they share the table: one that finds its address taken ends without having
\* touched a row.  This is for instances with one address; MCAddresses has two.
CacheAgrees ==
    \A k \in Instances : pc[k] = "serving" /\ cache[k] # Null => cache[k] = row

\* A restart changes nothing unless the file was changed: the configuration in memory is
\* what the file says, also when the file was being created by another instance while
\* this one read it.
LoadedIsFile ==
    \A k \in Instances :
        pc[k] = "serving" /\ k \notin edited => Readable(file) /\ cfg[k] = Parsed(file)

\* The user's edits leave, in the end, a file that toml accepts; at most it is removed
\* before the service has started, and not again each time it is about to be read.
FileStaysReadable ==
    /\ <>[](file \in Configs \cup {Empty, Absent})
    /\ <>[][file' # Absent]_file

\* With launchd and a file that stays readable, the service comes up and stays up: after a
\* first start that died between creating and writing the file, next to a second instance
\* that takes the address, and with intervals of zero.
ComesUp ==
    FileStaysReadable => <>[]\E k \in Instances : pc[k] = "serving"

\* A repository that settles is stored as it is, through all restarts and handovers
\* between instances, if the interval of the checks is not zero; to be discovered it also
\* needs that of the scans.
StoredInTheEnd ==
    /\ FileStaysReadable
    /\ <>[]\A k \in Instances :
              pc[k] = "serving" => cfg[k].check /\ (cfg[k].scan \/ row # Untracked)
    => \A d \in Content : <>[](disk = d) => <>[](row = d)

\* What a user has written is never overwritten by a first start.  It may be: the file is
\* created after the test that it does not exist.
EditsSurvive ==
    [][\A k \in Instances :
          pc[k] = "creating" /\ pc'[k] = "writing" => file \in {Absent, Empty, Default}]_vars
=============================================================================
