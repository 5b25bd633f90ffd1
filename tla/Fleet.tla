------------------------------- MODULE Fleet -------------------------------
(***************************************************************************)
(* etc/config.yaml and the fleet that the kernel keeps in line with it.    *)
(* paiadd, paiclone, paidel, paictl and the web backend each load the      *)
(* whole document, change one thing in it, write config.yaml.tmp -- one    *)
(* name for all of them, no lock -- rename it and emit a reload.  The      *)
(* kernel reconciles at boot and for every reload: it spawns, resolves and *)
(* rewrites /proc, then projects the capabilities into freeze files.       *)
(***************************************************************************)
EXTENDS Naturals

CONSTANTS Pais,        \* names of fleet members
          Original,    \* those that the installation declares
          Nested,      \* those of them whose entry carries a `parent` key
          Odd,         \* names that hold a ":", which load_config refuses
          Editors,     \* commands and requests that may be in flight
          Setter,      \* the web's set_ requests: its own lock admits one at a time
          Edits,       \* bound: edits begun
          FleetBoots   \* bound: lives of the kernel

ASSUME FleetAssumption ==
    /\ Original \subseteq Pais /\ Nested \subseteq Original /\ Odd \subseteq Pais /\ Setter \in Editors
    /\ Edits \in Nat /\ FleetBoots \in Nat \ {0}

VARIABLES
    config,      \* the document
    tmp,         \* {what config.yaml.tmp holds}, or {}
    edits,       \* edits in flight
    begun,       \* how many there have been
    instances,   \* names that have a directory in var/lib/instances
    proc,        \* proc[n]: {its directory in /proc}, or {}
    fresh,       \* those that the last reconciliation spawned
    frozen,      \* the freeze file of an outbound driver
    fleetReload, \* a kernel:reload_config waits in the spool
    desired,     \* {the document that a reconciliation has loaded}, or {}
    fleetKernel,
    fleetLives,
    silent       \* an editor died between its rename and its event

fleetVars == <<config, tmp, edits, begun, instances, proc, fresh, frozen,
               fleetReload, desired, fleetKernel, fleetLives, silent>>

\* Which keys of an entry are not as they were declared.  spawn_pai writes
\* those of SpawnKeys ("model": provider and model; "heartbeat": also wake_on
\* and fallback), and not the others ("backend": also the thresholds of a
\* compaction; "name": the display name).
Keys == {"model", "heartbeat", "backend", "name"}
SpawnKeys == {"model", "heartbeat"}
PersonalKeys == {"heartbeat", "name"}     \* those that a clone does not get
Dials == SUBSET Keys
Entries == [active : BOOLEAN, dial : Dials, clone : BOOLEAN, parent : BOOLEAN]
Modes == {"no", "ask", "yes"}
Docs == [pais : UNION {[S -> Entries] : S \in SUBSET Pais}, grant : Modes]
Procs == [status : {"running", "stopped", "cancelled"}, dial : Dials, parent : BOOLEAN]

\* What an edit is about: one entry, or the keys at the top.
Fields == Pais \cup {"capabilities"}
EditOf == [by : Editors, op : {"add", "set", "tune", "delete", "wipe"}, field : Fields,
           at : {"made", "loaded", "written", "renamed", "waiting", "removed"},
           entry : SUBSET Entries, to : SUBSET Docs]

FleetTypeOK ==
    /\ config \in Docs /\ tmp \in SUBSET Docs /\ edits \subseteq EditOf /\ begun \in 0..Edits
    /\ instances \subseteq Pais /\ proc \in [Pais -> SUBSET Procs] /\ fresh \subseteq Pais
    /\ frozen \in BOOLEAN /\ fleetReload \in BOOLEAN /\ silent \in BOOLEAN
    /\ desired \in SUBSET Docs
    /\ fleetKernel \in {"up", "down", "booting", "apply", "project"}
    /\ fleetLives \in 1..FleetBoots

NewPai == [active |-> TRUE, dial |-> {}, clone |-> FALSE, parent |-> FALSE]

FleetInit ==
    /\ config = [pais |-> [n \in Original |-> [NewPai EXCEPT !.parent = (n \in Nested)]],
                 grant |-> "ask"]
    /\ tmp = {} /\ edits = {} /\ begun = 0 /\ instances = Original
    /\ proc = [n \in Pais |-> IF n \in Original
                        THEN {[status |-> "running", dial |-> {}, parent |-> n \in Nested]} ELSE {}]
    /\ fresh = {}
    /\ frozen = TRUE /\ fleetReload = FALSE /\ desired = {}
    /\ fleetKernel = "up" /\ fleetLives = 1 /\ silent = FALSE

-----------------------------------------------------------------------------
(* The editors. *)

Fleet == <<proc, fresh, frozen, fleetReload, desired, fleetKernel, fleetLives, silent>>
Declared == DOMAIN config.pais
RunsIn(n) == \E p \in proc[n] : p.status = "running"

With(n, x) == [config EXCEPT !.pais = [m \in DOMAIN @ \cup {n} |-> IF m = n THEN x ELSE @[m]]]
Without(n) == [config EXCEPT !.pais = [m \in DOMAIN @ \ {n} |-> @[m]]]

Begin(e, op, field, at, entry, to) ==
    /\ begun < Edits /\ begun' = begun + 1
    /\ \A k \in edits : k.by # e
    /\ e = Setter <=> field = "capabilities" \/ op = "tune"
    /\ edits' = edits \cup {[by |-> e, op |-> op, field |-> field, at |-> at, entry |-> entry, to |-> to]}

Goes(k, at) == edits' = (edits \ {k}) \cup {[k EXCEPT !.at = at]}

\* paiadd.materialize: a name that is new, and its instance directory, ...
AddMakes(e, n) ==
    /\ n \notin Declared \cup instances /\ instances' = instances \cup {n}
    /\ Begin(e, "add", n, "made", {NewPai}, {})
    /\ UNCHANGED <<config, tmp, Fleet>>

\* paiclone: the same, with what it read of its source, less its routing, its
\* heartbeat and its display name.
CloneMakes(e, s, n) ==
    /\ s \in Declared /\ n \notin Declared \cup instances /\ instances' = instances \cup {n}
    /\ Begin(e, "add", n, "made",
             {[config.pais[s] EXCEPT !.clone = TRUE, !.dial = @ \ PersonalKeys]}, {})
    /\ UNCHANGED <<config, tmp, Fleet>>

\* ... then _append_entry.
AddLoads(k) ==
    /\ k.at = "made"
    /\ edits' = (edits \ {k}) \cup {[k EXCEPT !.at = "loaded", !.to = {With(k.field, x) : x \in k.entry}]}
    /\ UNCHANGED <<config, tmp, begun, instances, Fleet>>

\* paictl._set_active, of the command or the first part of web's delete_pai;
\* an entry that is so already is not written.
ToggleLoads(e, n, value, op) ==
    /\ n \in Declared
    /\ op = "wipe" => (config.pais[n].clone /\ ~value)
    /\ IF config.pais[n].active = value
       THEN Begin(e, op, n, "renamed", {}, {})
       ELSE Begin(e, op, n, "loaded", {}, {With(n, [config.pais[n] EXCEPT !.active = value])})
    /\ UNCHANGED <<config, tmp, instances, Fleet>>

\* set_pai_model writes a provider, or a backend in its place; the display name
\* and the heartbeat are set or dropped.
Tuned(dial) == {dial \cup {"model", "backend"}, (dial \cup {"model"}) \ {"backend"}}
               \cup {dial \cup {key} : key \in PersonalKeys} \cup {dial \ {key} : key \in PersonalKeys}

TuneLoads(e, n, dial) ==
    /\ n \in Declared /\ dial \in Tuned(config.pais[n].dial)
    /\ Begin(e, "tune", n, "loaded", {}, {With(n, [config.pais[n] EXCEPT !.dial = dial])})
    /\ UNCHANGED <<config, tmp, instances, Fleet>>

\* set_capability_mode; the allowlists are other keys of the same kind.
GrantLoads(e, mode) ==
    /\ Begin(e, "tune", "capabilities", "loaded", {}, {[config EXCEPT !.grant = mode]})
    /\ UNCHANGED <<config, tmp, instances, Fleet>>

\* paidel: not of one that runs.
DeleteLoads(e, n) ==
    /\ n \in Declared /\ ~RunsIn(n)
    /\ Begin(e, "delete", n, "loaded", {}, {Without(n)})
    /\ UNCHANGED <<config, tmp, instances, Fleet>>

Writes(k) ==
    /\ k.at = "loaded" /\ tmp' = k.to /\ Goes(k, "written")
    /\ UNCHANGED <<config, begun, instances, Fleet>>

\* The rename takes what the file holds by then ...
Renames(k) ==
    /\ k.at = "written" /\ config' \in tmp /\ tmp' = {} /\ Goes(k, "renamed")
    /\ UNCHANGED <<begun, instances, Fleet>>

\* ... and raises when another editor has renamed it: no event.
RenameRaises(k) ==
    /\ k.at = "written" /\ tmp = {} /\ edits' = edits \ {k}
    /\ UNCHANGED <<config, tmp, begun, instances, Fleet>>

\* paidel removes /proc/<name> (and, purging, the instance) before its event.
Removes(k, purge) ==
    /\ k.op = "delete" /\ k.at = "renamed" /\ Goes(k, "removed")
    /\ proc' = [proc EXCEPT ![k.field] = {}]
    /\ instances' = IF purge THEN instances \ {k.field} ELSE instances
    /\ UNCHANGED <<config, tmp, begun, fresh, frozen, fleetReload, desired, fleetKernel,
                   fleetLives, silent>>

Emits(k) ==
    /\ k.at = IF k.op = "delete" THEN "removed" ELSE "renamed"
    /\ fleetReload' = TRUE
    /\ IF k.op = "wipe" THEN Goes(k, "waiting") ELSE edits' = edits \ {k}
    /\ UNCHANGED <<config, tmp, begun, instances, proc, fresh, frozen, desired, fleetKernel,
                   fleetLives, silent>>

\* delete_pai polls the status, then deletes.
WipeLoads(k) ==
    /\ k.at = "waiting" /\ ~RunsIn(k.field)
    /\ edits' = (edits \ {k}) \cup {[k EXCEPT !.op = "delete", !.at = "loaded", !.to = {Without(k.field)}]}
    /\ UNCHANGED <<config, tmp, begun, instances, Fleet>>

WipeTimesOut(k) ==
    /\ k.at = "waiting" /\ edits' = edits \ {k}
    /\ UNCHANGED <<config, tmp, begun, instances, Fleet>>

\* The command is interrupted, or the web backend restarted.
Dies(k) ==
    /\ edits' = edits \ {k} /\ silent' = (silent \/ k.at \in {"renamed", "removed"})
    /\ UNCHANGED <<config, tmp, begun, instances, proc, fresh, frozen, fleetReload, desired,
                   fleetKernel, fleetLives>>

-----------------------------------------------------------------------------
(* The kernel. *)

Files == <<config, tmp, edits, begun, instances>>

\* load_config raises before anything is changed.
Valid(doc) == DOMAIN doc.pais \cap Odd = {}

Reconciles(refused) ==
    IF Valid(config) THEN desired' = {config} /\ fleetKernel' = "apply"
                     ELSE UNCHANGED desired /\ fleetKernel' = refused

ReloadTaken ==
    /\ fleetKernel = "up" /\ fleetReload /\ fleetReload' = FALSE
    /\ Reconciles("up")
    /\ UNCHANGED <<Files, proc, fresh, frozen, fleetLives, silent>>

FleetStarts ==
    /\ fleetKernel = "down" /\ fleetLives < FleetBoots
    /\ fleetKernel' = "booting" /\ fleetLives' = fleetLives + 1 /\ fleetReload' = FALSE
    /\ UNCHANGED <<Files, proc, fresh, frozen, desired, silent>>

BootReconciles ==
    /\ fleetKernel = "booting" /\ Reconciles("down") /\ silent' = FALSE
    /\ UNCHANGED <<Files, proc, fresh, frozen, fleetReload, fleetLives>>

Stopped(p, status) == [p EXCEPT !.status = IF @ = "running" THEN status ELSE @]

\* run()'s finally: what runs is resolved; the next boot heals it.
FleetStops ==
    /\ fleetKernel = "up" /\ fleetKernel' = "down"
    /\ proc' = [n \in Pais |-> {Stopped(p, "stopped") : p \in proc[n]}]
    /\ UNCHANGED <<Files, fresh, frozen, fleetReload, desired, fleetLives, silent>>

FleetCrashes ==
    /\ fleetKernel # "down" /\ fleetKernel' = "down" /\ desired' = {}
    /\ UNCHANGED <<Files, proc, fresh, frozen, fleetReload, fleetLives, silent>>

\* Added: what spawn_pai writes of an entry.
Spawned(x) == [status |-> "running", dial |-> x.dial \cap SpawnKeys, parent |-> x.parent]

\* Removed: one with a parent is left alone, as a subagent is.
Dismissed(p) == IF p.parent THEN p ELSE Stopped(p, "cancelled")

\* Mutant of Updated: a member that was stopped before is not healed.
UpdatedNoHeal(p, x) == [status |-> IF x.active THEN p.status ELSE Stopped(p, "stopped").status,
                        dial |-> x.dial, parent |-> x.parent]

\* Changed: the managed fields, and a member that should run is healed.
Updated(p, x) == [status |-> IF x.active THEN "running" ELSE Stopped(p, "stopped").status,
                  dial |-> x.dial, parent |-> x.parent]

Reconciled(n, doc) ==
    IF n \notin DOMAIN doc.pais THEN {Dismissed(p) : p \in proc[n]}
    ELSE IF proc[n] # {} THEN {Updated(p, doc.pais[n]) : p \in proc[n]}
    ELSE IF doc.pais[n].active THEN {Spawned(doc.pais[n])} ELSE {}

Applies ==
    /\ fleetKernel = "apply"
    /\ \E doc \in desired :
          /\ proc' = [n \in Pais |-> Reconciled(n, doc)]
          /\ fresh' = {n \in DOMAIN doc.pais : proc[n] = {} /\ doc.pais[n].active}
    /\ desired' = {} /\ fleetKernel' = "project"
    /\ UNCHANGED <<Files, frozen, fleetReload, fleetLives, silent>>

\* project_capabilities reads the document again.
Projects ==
    /\ fleetKernel = "project" /\ fleetKernel' = "up"
    /\ frozen' = (config.grant # "yes")
    /\ UNCHANGED <<Files, proc, fresh, fleetReload, desired, fleetLives, silent>>

-----------------------------------------------------------------------------
EditorsAct ==
    \/ \E e \in Editors, n \in Pais :
          \/ AddMakes(e, n) \/ DeleteLoads(e, n)
          \/ \E s \in Pais : CloneMakes(e, s, n)
          \/ \E value \in BOOLEAN, op \in {"set", "wipe"} : ToggleLoads(e, n, value, op)
          \/ \E dial \in Dials : TuneLoads(e, n, dial)
    \/ \E e \in Editors, mode \in Modes : GrantLoads(e, mode)
    \/ \E k \in edits :
          \/ AddLoads(k) \/ Writes(k) \/ Renames(k) \/ RenameRaises(k) \/ Emits(k)
          \/ WipeLoads(k) \/ WipeTimesOut(k) \/ Dies(k)
          \/ \E purge \in BOOLEAN : Removes(k, purge)

FleetNext ==
    \/ EditorsAct
    \/ ReloadTaken \/ FleetStarts \/ BootReconciles \/ FleetStops \/ FleetCrashes \/ Applies \/ Projects

FleetSpec == FleetInit /\ [][FleetNext]_fleetVars

-----------------------------------------------------------------------------
(* Properties. *)

\* What the keys of an entry should be in /proc: all that config.py:43 lists as
\* managed; of a member that the last reconciliation spawned, those only that
\* spawn_pai takes (config.py:918) -- its backend waits for the next one.
Wired(n) == IF n \in fresh THEN config.pais[n].dial \cap SpawnKeys ELSE config.pais[n].dial

Mirrors(n) ==
    IF n \in Declared
    THEN /\ RunsIn(n) <=> config.pais[n].active
         /\ \A p \in proc[n] : p.dial = Wired(n) /\ p.parent = config.pais[n].parent
    ELSE \A p \in proc[n] : p.status = "running" => p.parent

\* config.py:975 "active PAIs are invariantly running", :835 "in lockstep with
\* `capabilities:`": once every edit is over and the kernel has nothing left
\* to do, /proc and the freeze files say what a document that loads says,
\* whatever lost updates, failed renames, crashes and reboots came before --
\* with three exceptions: an editor died before its event; the keys of a member
\* just spawned that spawn_pai does not write; and a member with a parent, which
\* runs on when its entry is gone (config.py:943).
QuietMirrors ==
    fleetKernel = "up" /\ ~fleetReload /\ edits = {} /\ ~silent /\ Valid(config) =>
        frozen = (config.grant # "yes") /\ \A n \in Pais : Mirrors(n)

(* Statements of the source that the code does not keep. *)

\* config.py:578: an edit "Preserves every other key in the file": what a
\* rename changes is what its editor meant to change.
PreservesOthers ==
    [][\A k \in edits : k.at = "written" /\ k \notin edits' /\ config' # config =>
          /\ k.field # "capabilities" => config'.grant = config.grant
          /\ \A n \in Pais \ {k.field} :
                /\ n \in DOMAIN config'.pais <=> n \in Declared
                /\ n \in Declared => config'.pais[n] = config.pais[n]]_fleetVars

\* config.py:237: no name may hold a ":" -- "same guard paiclone applies": a
\* document that loads stays one that loads.
StaysValid == Valid(config)
=============================================================================
