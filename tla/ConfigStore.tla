----------------------------- MODULE ConfigStore -----------------------------
(***************************************************************************)
(* Hot reload: the snapshot cell of src/config_store.rs, the SIGHUP        *)
(* service and the HotApply hook of src/lib.rs that re-seeds the running   *)
(* components, and requests that hold the snapshot they started with.      *)
(*                                                                         *)
(* A configuration maps keys to numbers.  A file that does not parse (it   *)
(* is missing, torn by a write in progress or not of this schema) is       *)
(* Unreadable.  The components are named after the hot keys they are       *)
(* seeded from, in the order HotApply::apply seeds them.  The process may  *)
(* crash or be restarted at any point, and comes up from the file as it    *)
(* then is, or not at all.                                                 *)
(***************************************************************************)
EXTENDS Integers, Sequences, FiniteSets

CONSTANTS
    HotKey, StructuralKey,
    ApplyOrder,     \* the components HotApply::apply re-seeds, in its order
    Config,         \* files that parse, valid or not
    Unreadable,     \* a file that does not parse
    Request,        \* requests, each of which takes one snapshot
    NoSnapshot,     \* of a request that is not being served
    StderrMayFail,  \* may eprintln! panic on a write error?
    MaxWrites,      \* bound on the edits of the file
    MaxHangups,     \* bound on the signals sent
    MaxRestarts     \* bound on the restarts

Key == HotKey \cup StructuralKey
Component == {ApplyOrder[i] : i \in DOMAIN ApplyOrder}

ASSUME ConfigAssumption ==
    /\ HotKey \cap StructuralKey = {}
    /\ ApplyOrder \in Seq(HotKey)
    /\ Config \subseteq [Key -> Nat]
    /\ Unreadable \notin Config
    /\ StderrMayFail \in BOOLEAN
    /\ MaxWrites \in Nat /\ MaxHangups \in Nat /\ MaxRestarts \in Nat

VARIABLES
    file, writes,     \* the file and the edits of it so far
    inner,            \* the current Snapshot
    reloadFailures,
    structural,       \* RunningStructural, pinned at startup
    component,        \* what each component currently runs with
    snap,             \* per request: the snapshot its Ctx holds
    hup, hangups,     \* a SIGHUP is pending (they coalesce); those sent so far
    restarts,
    pc,               \* of the config-reload service
    current, loaded,  \* reload(): the snapshot it read, the file it loaded
    step              \* the component it re-seeds next

serviceVars == <<pc, current, loaded, step>>
vars == <<file, writes, inner, reloadFailures, structural, component, snap,
          hup, hangups, restarts, serviceVars>>

Snapshot(c, generation, restartRequired) ==
    [cfg |-> c, generation |-> generation, restartRequired |-> restartRequired]

\* validate: no key may be zero.  The rules on addresses, the tag and the salt are
\* of the same kind: a value is acceptable or the file is not.
Validate(c) == \A k \in Key : c[k] >= 1

\* load() returns Ok.
Loads(f) == f # Unreadable /\ Validate(f)

\* main, ConfigStore::new and run(): generation 1, and everything is seeded from
\* the file.  The signal handler is not installed yet.
Boots(f) ==
    [inner |-> Snapshot(f, 1, {}), structural |-> [k \in StructuralKey |-> f[k]],
     component |-> [k \in Component |-> f[k]]]

Init ==
    /\ file \in Config /\ Loads(file) /\ writes = 0
    /\ inner = Boots(file).inner
    /\ structural = Boots(file).structural
    /\ component = Boots(file).component
    /\ reloadFailures = 0
    /\ snap = [r \in Request |-> NoSnapshot]
    /\ hup = FALSE /\ hangups = 0 /\ restarts = 0
    /\ pc = "boot" /\ current = inner /\ loaded = file /\ step = 1

-----------------------------------------------------------------------------
(* Expressions of the code, each after the faulty form it is checked       *)
(* against.                                                                *)

\* diff: the structural keys whose new value is not the running one.
RestartRequiredFromOld(new) ==
    {k \in StructuralKey : current.cfg[k] # new[k]}
RestartRequired(new) == {k \in StructuralKey : structural[k] # new[k]}

\* A signal that arrived during a reload is still pending after it.
PendingForgotten == FALSE
Pending == hup

\* What the hook seeds a component from: the snapshot that was swapped in.
SeededFromOld(k) == current.cfg[k]
Seeded(k) == loaded[k]

\* The generation after the current one.
Successor(generation) == generation + 1

-----------------------------------------------------------------------------
(* The file, its editor and the signal.                                    *)

\* An edit that is not atomic may leave any content, and a torn file, behind.
EditFile(f) ==
    /\ writes < MaxWrites
    /\ file' = f /\ writes' = writes + 1
    /\ UNCHANGED <<inner, reloadFailures, structural, component, snap, hup,
                   hangups, restarts, serviceVars>>

\* The service has installed its handler (tokio never removes it); until then a
\* SIGHUP has its default effect, which ends the process.
Handled == pc \notin {"boot", "deaf", "down"}

Hangup ==
    /\ hangups < MaxHangups /\ pc # "down"
    /\ hangups' = hangups + 1
    /\ IF Handled THEN hup' = TRUE /\ UNCHANGED pc
                  ELSE pc' = "down" /\ UNCHANGED hup
    /\ UNCHANGED <<file, writes, inner, reloadFailures, structural, component,
                   snap, restarts, current, loaded, step>>

-----------------------------------------------------------------------------
(* The process and its config-reload service.                              *)

\* The process ends, at any point, and is started again: main loads the file and
\* run() builds everything anew.  It exits on a config error, and may do so when it
\* sets up its client or its listener.
Restart ==
    /\ restarts < MaxRestarts
    /\ restarts' = restarts + 1
    /\ hup' = FALSE
    /\ \/ /\ Loads(file)
          /\ inner' = Boots(file).inner
          /\ structural' = Boots(file).structural
          /\ component' = Boots(file).component
          /\ reloadFailures' = 0
          /\ current' = inner' /\ loaded' = file /\ step' = 1
          /\ pc' = "boot"
       \/ /\ pc' = "down"
          /\ UNCHANGED <<inner, structural, component, reloadFailures, current,
                         loaded, step>>
    /\ snap' = [r \in Request |-> NoSnapshot]
    /\ UNCHANGED <<file, writes, hangups>>

\* The service starts and installs the handler; if it cannot, it returns.
ServiceStarts ==
    /\ pc = "boot"
    /\ pc' \in {"select", "deaf"}
    /\ UNCHANGED <<file, writes, inner, reloadFailures, structural, component,
                   snap, hup, hangups, restarts, current, loaded, step>>

\* hup.recv() returns, and reload() reads the current snapshot.
ServiceRecv ==
    /\ pc = "select" /\ hup
    /\ hup' = FALSE
    /\ current' = inner
    /\ pc' = "load"
    /\ UNCHANGED <<file, writes, inner, reloadFailures, structural, component,
                   snap, hangups, restarts, loaded, step>>

\* load() fails: the failure is counted, the old snapshot is kept.
ReloadFails ==
    /\ pc = "load" /\ ~Loads(file)
    /\ reloadFailures' = reloadFailures + 1
    /\ pc' \in {"select"} \cup (IF StderrMayFail THEN {"panicked"} ELSE {})
    /\ UNCHANGED <<file, writes, inner, structural, component, snap, hup,
                   hangups, restarts, current, loaded, step>>

ReloadLoads ==
    /\ pc = "load" /\ Loads(file)
    /\ loaded' = file
    /\ pc' = "swap"
    /\ UNCHANGED <<file, writes, inner, reloadFailures, structural, component,
                   snap, hup, hangups, restarts, current, step>>

\* The write of inner; the log line that follows may panic before the hook.
ReloadSwaps ==
    /\ pc = "swap"
    /\ inner' = Snapshot(loaded, Successor(current.generation),
                         RestartRequired(loaded))
    /\ step' = 1
    /\ pc' \in {"apply"} \cup (IF StderrMayFail THEN {"panicked"} ELSE {})
    /\ UNCHANGED <<file, writes, reloadFailures, structural, component, snap,
                   hup, hangups, restarts, current, loaded>>

\* HotApply::apply, one component at a time.
ReloadApplies ==
    /\ pc = "apply" /\ step <= Len(ApplyOrder)
    /\ component' = [component EXCEPT ![ApplyOrder[step]] =
                                         Seeded(ApplyOrder[step])]
    /\ step' = step + 1
    /\ UNCHANGED <<file, writes, inner, reloadFailures, structural, snap, hup,
                   hangups, restarts, pc, current, loaded>>

ReloadReturns ==
    /\ pc = "apply" /\ step > Len(ApplyOrder)
    /\ pc' = "select"
    /\ hup' = Pending
    /\ UNCHANGED <<file, writes, inner, reloadFailures, structural, component,
                   snap, hangups, restarts, current, loaded, step>>

\* shutdown.changed() wins the select.
ServiceStops ==
    /\ pc = "select"
    /\ pc' = "stopped"
    /\ UNCHANGED <<file, writes, inner, reloadFailures, structural, component,
                   snap, hup, hangups, restarts, current, loaded, step>>

-----------------------------------------------------------------------------
\* new_ctx: a request takes its snapshot.
NewCtx(r) ==
    /\ pc # "down" /\ snap[r] = NoSnapshot
    /\ snap' = [snap EXCEPT ![r] = inner]
    /\ UNCHANGED <<file, writes, inner, reloadFailures, structural, component,
                   hup, hangups, restarts, serviceVars>>

\* The request ends and its Ctx is dropped.
DropCtx(r) ==
    /\ pc # "down" /\ snap[r] # NoSnapshot
    /\ snap' = [snap EXCEPT ![r] = NoSnapshot]
    /\ UNCHANGED <<file, writes, inner, reloadFailures, structural, component,
                   hup, hangups, restarts, serviceVars>>

Service == \/ ServiceStarts \/ ServiceRecv \/ ReloadFails \/ ReloadLoads \/ ReloadSwaps
           \/ ReloadApplies \/ ReloadReturns

Next ==
    \/ \E f \in Config \cup {Unreadable} : EditFile(f)
    \/ Hangup \/ Restart
    \/ Service \/ ServiceStops
    \/ \E r \in Request : NewCtx(r) \/ DropCtx(r)

Spec == Init /\ [][Next]_vars

\* The service is a task of the server's runtime: it runs whenever it can.
FairSpec == Spec /\ WF_vars(Service)

-----------------------------------------------------------------------------
(* Properties.                                                             *)

\* Every variable has its type.
TypeOK ==
    /\ file \in Config \cup {Unreadable} /\ writes \in 0 .. MaxWrites
    /\ inner.cfg \in Config /\ inner.generation \in Nat \ {0}
    /\ inner.restartRequired \subseteq StructuralKey
    /\ current.cfg \in Config /\ current.generation \in Nat \ {0}
    /\ loaded \in Config
    /\ reloadFailures \in Nat
    /\ DOMAIN component = Component /\ DOMAIN structural = StructuralKey
    /\ hup \in BOOLEAN /\ hangups \in 0 .. MaxHangups
    /\ restarts \in 0 .. MaxRestarts
    /\ pc \in {"boot", "deaf", "down", "select", "load", "swap", "apply", "stopped", "panicked"}
    /\ step \in 1 .. Len(ApplyOrder) + 1

\* "reported in the snapshot's restart_required, never silently ignored": the
\* structural keys a snapshot reports are exactly those whose file value is
\* not what the process runs with, however many reloads went before.
RestartRequiredExact ==
    inner.restartRequired =
        {k \in StructuralKey : inner.cfg[k] # structural[k]}

\* "a caller that observed Ok can rely on the running components already
\* carrying the new values": between reloads every component runs with the
\* values of the current snapshot.
ComponentsFollow ==
    pc \in {"boot", "deaf", "select", "load", "swap", "stopped"}
        => \A k \in Component : component[k] = inner.cfg[k]

\* A signal sent after an edit is never lost, even one that arrives while a
\* reload is running: the components come to run with what is in the file,
\* unless the file changes again, or the service or the process stops.
HangupServed ==
    \A c \in {c \in Config : Loads(c)} :
        hup /\ file = c ~> \/ \A k \in Component : component[k] = c[k]
                           \/ file # c \/ pc \in {"stopped", "panicked", "boot", "down"}

=============================================================================
