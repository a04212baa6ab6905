------------------------------ MODULE EdgeBoot ------------------------------
(***************************************************************************)
(* How the chain of GatewayChain comes to be: the files and the .env that  *)
(* somebody edits, docker compose up, restart and down, KrakenD composing  *)
(* at each start the plugins that are built, on and content with their     *)
(* configuration, and check-plugins-loaded.sh, which reads the log while   *)
(* all this goes on.  A request meets the edge that is there at the time.  *)
(***************************************************************************)
EXTENDS GatewayChain

CONSTANTS
    Disks,    \* [built, introspection, defects]: plugins/build, config/settings
    DotEnvs,  \* [off, defects, introspection_secret, enforce]: .env
    MaxBoots  \* bound on the starts

ASSUME BootsAssumption == MaxBoots \in Nat /\ \A env \in DotEnvs : env.enforce \in BOOLEAN

VARIABLES
    disk,    \* the files; the container mounts them
    dotenv,  \* .env; a container keeps the one it was created with
    box,     \* the container, and what its process read when it started
    phase,   \* of the container: "none", "stopped", "starting", "serving"
    boot,    \* how many starts there were
    todo,    \* the rest of the array that KrakenD is composing
    log,     \* the lines of the container's log that the gate looks for
    gate,    \* the container and the start that the gate has inspected
    passed   \* the start that the gate vouched for, 0 when it failed

deployment == <<disk, dotenv, box, phase, boot, todo, log, gate, passed>>
bootVars == <<vars, deployment>>

NoBox == [id |-> 0, env |-> dotenv, disk |-> disk]
NotInspected == [id |-> 0, since |-> 0]

Line(plugin) == [boot |-> boot, plugin |-> plugin]

-----------------------------------------------------------------------------
(* The plugins' own look at their configuration.                           *)

\* The plugins that the settings or .env leave without a setting that they
\* require, or with one that is malformed.
Defective == box.disk.defects \cup box.env.defects

\* valkey_addr, cookie_name, internal_secret, a refresh_url with {sid}
SessionRefuses == "session-resolver" \in Defective

\* jwks_url; and, with introspection, its credentials
JwtRefuses ==
    \/ "jwt-headers" \in Defective
    \/ box.disk.introspection /\ ~box.env.introspection_secret

\* a min_elapsed that is a duration
TimeoutRefuses == "gateway-timeout" \in Defective

Refuses(plugin) ==
    \/ plugin = "session-resolver" /\ SessionRefuses
    \/ plugin = "jwt-headers" /\ JwtRefuses
    \/ plugin = "gateway-timeout" /\ TimeoutRefuses

-----------------------------------------------------------------------------
(* Somebody at the files, and docker compose.                              *)

Edit ==
    /\ \/ disk' \in Disks /\ UNCHANGED dotenv
       \/ dotenv' \in DotEnvs /\ UNCHANGED disk
    /\ UNCHANGED <<edge, box, phase, boot, todo, log, gate, passed>>

\* Mutant: the chain of the previous start is still there.
StartOver(id, env) ==
    /\ boot < MaxBoots /\ boot' = boot + 1
    /\ box' = [id |-> id, env |-> env, disk |-> disk]
    /\ phase' = "starting"
    /\ todo' = Declared(Plugins \ env.off)
    /\ edge' = [edge EXCEPT !.enforce = env.enforce]

\* KrakenD renders the template and looks for plugins.
Start(id, env) ==
    /\ boot < MaxBoots /\ boot' = boot + 1
    /\ box' = [id |-> id, env |-> env, disk |-> disk]
    /\ phase' = "starting"
    /\ todo' = Declared(Plugins \ env.off)
    /\ edge' = [plugins |-> <<>>, enforce |-> env.enforce]

\* The line that says that there is no plugin at all.
NoneRegistered == IF disk.built = {} THEN {[boot |-> boot + 1, plugin |-> "none"]} ELSE {}

\* docker compose up -d: a new container when there is none or when the
\* environment is another one; else it starts the one that has stopped.
Up ==
    /\ \/ /\ phase = "none" \/ box.env # dotenv
          /\ Start(boot + 1, dotenv)
          /\ log' = NoneRegistered
       \/ /\ phase = "stopped" /\ box.env = dotenv
          /\ Start(box.id, box.env)
          /\ log' = log \cup NoneRegistered
    /\ UNCHANGED <<disk, dotenv, gate, passed>>

\* docker compose restart: the same container with the same environment, and no
\* gate behind it.
Restart ==
    /\ phase # "none"
    /\ Start(box.id, box.env)
    /\ log' = log \cup NoneRegistered
    /\ UNCHANGED <<disk, dotenv, gate, passed>>

\* The process ends, by itself or by docker compose stop.
Stop ==
    /\ phase \in {"starting", "serving"}
    /\ phase' = "stopped"
    /\ UNCHANGED <<edge, disk, dotenv, box, boot, todo, log, gate, passed>>

Down ==
    /\ phase # "none"
    /\ phase' = "none" /\ log' = {}
    /\ UNCHANGED <<edge, disk, dotenv, box, boot, todo, gate, passed>>

-----------------------------------------------------------------------------
(* KrakenD.                                                                *)

\* Mutant: the plugin logs that it is loaded before it has checked.
LogsFirst(plugin) ==
    IF plugin \in box.disk.built
    THEN /\ log' = log \cup {Line(plugin)}
         /\ edge' = IF Refuses(plugin) THEN edge ELSE [edge EXCEPT !.plugins = <<plugin>> \o @]
    ELSE UNCHANGED <<edge, log>>

\* KrakenD wraps the plugin around what is composed so far; that it is loaded is
\* the last thing the plugin logs.  KrakenD goes on without one that refuses.
Wrap(plugin) ==
    IF plugin \in box.disk.built /\ ~Refuses(plugin)
    THEN /\ edge' = [edge EXCEPT !.plugins = <<plugin>> \o @]
         /\ log' = log \cup {Line(plugin)}
    ELSE UNCHANGED <<edge, log>>

Compose ==
    /\ phase = "starting" /\ todo # <<>>
    /\ Wrap(Head(todo))
    /\ todo' = Tail(todo)
    /\ UNCHANGED <<disk, dotenv, box, phase, boot, gate, passed>>

Serve ==
    /\ phase = "starting" /\ todo = <<>>
    /\ phase' = "serving"
    /\ UNCHANGED <<edge, disk, dotenv, box, boot, todo, log, gate, passed>>

-----------------------------------------------------------------------------
(* check-plugins-loaded.sh                                                 *)

\* docker compose ps, then docker inspect
Inspect ==
    /\ phase \in {"starting", "serving"}
    /\ gate' = [id |-> box.id, since |-> boot]
    /\ UNCHANGED <<edge, disk, dotenv, box, phase, boot, todo, log, passed>>

\* Mutant: docker logs without --since.
WholeHistory(since) == {line.plugin : line \in log}

\* Mutant: the lines of the inspected start are left out.
LinesAfter(since) == {line.plugin : line \in {l \in log : l.boot > since}}

LinesSince(since) == {line.plugin : line \in {l \in log : l.boot >= since}}

\* A container that is gone has no log.
Passes ==
    /\ phase # "none" /\ box.id = gate.id
    /\ "none" \notin LinesSince(gate.since)
    /\ Plugins \subseteq LinesSince(gate.since)

Read ==
    /\ gate # NotInspected
    /\ gate' = NotInspected
    /\ passed' = IF Passes THEN gate.since ELSE 0
    /\ UNCHANGED <<edge, disk, dotenv, box, phase, boot, todo, log>>

-----------------------------------------------------------------------------

BootInit ==
    /\ NothingReceived
    /\ edge = [plugins |-> <<>>, enforce |-> TRUE]
    /\ disk \in Disks /\ dotenv \in DotEnvs
    /\ box = NoBox /\ phase = "none" /\ boot = 0
    /\ todo = <<>> /\ log = {} /\ gate = NotInspected /\ passed = 0

Deploy == Edit \/ Up \/ Restart \/ Stop \/ Down \/ Compose \/ Serve \/ Inspect \/ Read

\* A request stays with the edge that it has reached.
BootNext ==
    \/ at = 0 /\ Deploy /\ UNCHANGED request
    \/ phase = "serving" /\ (Receive \/ Handle) /\ UNCHANGED <<edge, deployment>>

BootSpec == BootInit /\ [][BootNext]_bootVars

-----------------------------------------------------------------------------

\* The type invariant: what is composed and what is still to be composed never
\* exceed the array, and no line, verdict or inspection is of a start to come.
BootTypeOK ==
    /\ disk \in Disks /\ dotenv \in DotEnvs
    /\ box.id \in 0..boot /\ box.env \in DotEnvs /\ box.disk \in Disks
    /\ phase \in {"none", "stopped", "starting", "serving"}
    /\ boot \in 0..MaxBoots
    /\ phase # "none" => box.id # 0
    /\ edge.enforce \in BOOLEAN
    /\ Len(edge.plugins) + Len(todo) <= Cardinality(Plugins)
    /\ \A i \in DOMAIN edge.plugins : edge.plugins[i] \in Plugins \ box.env.off
    /\ log \subseteq [boot : 1..boot, plugin : Plugins \cup {"none"}]
    /\ gate \in [id : 0..boot, since : 0..boot]
    /\ passed \in 0..boot

Whole == edge.plugins = Reverse(Declared(Plugins))

\* An edge that serves on a start that the gate vouched for runs all five
\* plugins, in their order, whatever was edited, restarted or recreated before,
\* meanwhile or since.
GateMeansWhole == phase = "serving" /\ passed = boot => Whole

\* The gate does not fail an edge that is whole and serving, unless it started
\* again while the gate was looking.
WholePassesGate ==
    phase = "serving" /\ Whole /\ gate = [id |-> box.id, since |-> boot] => Passes

\* On such an edge a protected endpoint serves nobody without a valid token,
\* and no backend is sent a cookie.  Nothing of the kind holds before the gate,
\* or after a restart that it did not see: those edges may lack any plugin.
GatedIsGuarded ==
    AtRouter /\ passed = boot =>
        /\ req.cookie # "none" => SessionSkips(req.path)
        /\ \A e \in Endpoints : Serves(e) /\ e.auth = "protected" =>
               req.auth \in Tokens /\ Payload[req.auth].valid

=============================================================================
