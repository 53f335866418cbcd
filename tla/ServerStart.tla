---------------------------- MODULE ServerStart ----------------------------
(***************************************************************************)
(* The API process from its environment to its end: the configuration      *)
(* check (config/validate-runtime-config.ts), the search for a port beside *)
(* other processes that take and free ports, and the shutdown (server.ts). *)
(*                                                                         *)
(* Timeouts and URLs are checked one by one and stand behind "sound".      *)
(***************************************************************************)
EXTENDS Naturals

CONSTANTS
  Configurations,  \* environments: see ConfigurationSpace
  LastPort,        \* 65535
  MaxAttempts      \* MAX_DEV_PORT_ATTEMPTS

ConfigurationSpace ==
  [production : BOOLEAN, sound : BOOLEAN, port : Nat,
   fallback : {"true", "false", "unset"}, network : {"mainnet-beta", "devnet"},
   origins : SUBSET {"site", "*"}, token : {"none", "short", "long"},
   strict : BOOLEAN, genesis : BOOLEAN]

ASSUME ServerAssumption ==
  /\ Configurations \subseteq ConfigurationSpace
  /\ LastPort \in Nat /\ MaxAttempts \in Nat \ {0}

VARIABLES
  config,
  server,   \* "new", "starting", "listening", "closing", "ended"
  port,
  attempt,
  busy,     \* the ports other processes hold
  signals   \* the signals whose handler has not run

serverVars == <<config, server, port, attempt, busy, signals>>

\* The ports the search may come to.
Ports == config.port..(config.port + MaxAttempts - 1)

ServerInit ==
  /\ config \in Configurations
  /\ server = "new" /\ port = config.port /\ attempt = 1
  /\ busy = {}
  /\ signals = {"SIGINT", "SIGTERM"}

\* The fields validateRuntimeConfig finds a problem with.
Problems(c) ==
  { field \in {"PORT", "SOUND"} :
      \/ field = "PORT" /\ c.port \notin 1..LastPort
      \/ field = "SOUND" /\ ~c.sound }
  \cup
  { field \in {"NETWORK", "FALLBACK", "ORIGINS", "TOKEN", "GENESIS"} :
      /\ c.production
      /\ \/ field = "NETWORK" /\ c.network # "mainnet-beta"
         \/ field = "FALLBACK" /\ c.fallback = "true"
         \/ field = "ORIGINS" /\ (c.origins = {} \/ "*" \in c.origins)
         \/ field = "TOKEN" /\ c.token = "short"
         \/ field = "GENESIS" /\ c.strict /\ ~c.genesis }

ConfigRefused ==
  /\ server = "new" /\ Problems(config) # {}
  /\ server' = "ended"
  /\ UNCHANGED <<config, port, attempt, busy, signals>>

ConfigAccepted ==
  /\ server = "new" /\ Problems(config) = {}
  /\ server' = "starting"
  /\ UNCHANGED <<config, port, attempt, busy, signals>>

\* Faulty variant (mutant): the fallback does not ask for the environment.
FallbackUnlessRefused == config.fallback # "false"

AllowPortFallback == ~config.production /\ config.fallback # "false"

Listens ==
  /\ server = "starting"
  /\ port \in 1..LastPort \ busy
  /\ server' = "listening"
  /\ UNCHANGED <<config, port, attempt, busy, signals>>

PortIsTaken ==
  /\ server = "starting"
  /\ port \in busy
  /\ IF AllowPortFallback /\ attempt < MaxAttempts
     THEN port' = port + 1 /\ attempt' = attempt + 1 /\ server' = server
     ELSE server' = "ended" /\ UNCHANGED <<port, attempt>>
  /\ UNCHANGED <<config, busy, signals>>

\* Another error: no permission, or a port beyond the last one.
ListenFails ==
  /\ server = "starting"
  /\ server' = "ended"
  /\ UNCHANGED <<config, port, attempt, busy, signals>>

\* Another process binds a port or lets it go.
OthersBind(p) ==
  /\ server \in {"new", "starting"}
  /\ p \notin busy
  /\ busy' = busy \cup {p}
  /\ UNCHANGED <<config, server, port, attempt, signals>>

OthersRelease(p) ==
  /\ server \in {"new", "starting"}
  /\ p \in busy
  /\ busy' = busy \ {p}
  /\ UNCHANGED <<config, server, port, attempt, signals>>

\* process.once: the handler closes the application; a second signal of its kind,
\* or one before the handlers are there, finds none and ends the process.
Signalled(signal) ==
  /\ server # "ended"
  /\ server' = IF server # "new" /\ signal \in signals THEN "closing" ELSE "ended"
  /\ signals' = signals \ {signal}
  /\ UNCHANGED <<config, port, attempt, busy>>

\* app.close() resolves or rejects, or a listen that was under way breaks.
Closed ==
  /\ server = "closing"
  /\ server' = "ended"
  /\ UNCHANGED <<config, port, attempt, busy, signals>>

ServerNext ==
  \/ ConfigRefused \/ ConfigAccepted
  \/ Listens \/ PortIsTaken \/ ListenFails
  \/ \E p \in Ports : OthersBind(p) \/ OthersRelease(p)
  \/ \E s \in {"SIGINT", "SIGTERM"} : Signalled(s)
  \/ Closed

----------------------------------------------------------------------------
(* Properties. *)

\* Whatever other processes do with the ports, a server in production listens
\* where it was told to or not at all, and only on mainnet with named origins;
\* in development it stays within its attempts and the port range.
ListeningIsAllowed ==
  server = "listening" =>
    /\ port \in config.port..(config.port + MaxAttempts - 1)
    /\ port <= LastPort
    /\ config.production =>
         /\ port = config.port
         /\ config.network = "mainnet-beta"
         /\ config.origins = {"site"}
============================================================================
