----------------------------- MODULE IngestPath -----------------------------
(***************************************************************************)
(* The uploader together with its configuration and the manager's ingestion  *)
(* endpoint: agent_key is read once, when the agent starts, usually out of   *)
(* an environment variable; the agent sends it as a bearer token, the         *)
(* middleware lets a JWT through for as long as it has not expired, and the   *)
(* handler then adds the number of events to the tenant's counter, through a  *)
(* client that sends a command again when an attempt at it fails.              *)
(***************************************************************************)
EXTENDS Uploader, FiniteSets

CONSTANTS
  MaxTokens,   \* bound on the tokens issued, one more for each login
  MaxRetries,  \* how often go-redis sends a command again: 3, or what the URL says
  MaxSlips     \* bound on the attempts at Redis that fail in one behaviour

\* A behaviour is about finitely many events, as it is about finitely many logins;
\* the token an agent may start with is one of them.
ASSUME IngestAssumption ==
  /\ MaxTokens \in Nat \ {0} /\ MaxRetries \in Nat /\ MaxSlips \in Nat
  /\ IsFiniteSet(Event)

VARIABLES
  env,         \* what the variable agent_key names holds: a token, or none
  key,         \* agent_key as the running agent expanded it
  issued,      \* tokens issued so far: 1, 2, ...
  valid,       \* those that have not expired
  sent,        \* the key of the process behind each failed exchange or restart
  passed,      \* exchanges the middleware let through, not yet handled
  count,       \* events:<tenant>:count
  slips        \* history: attempts at Redis that failed

tokens == <<env, key, issued, valid, sent>>
tally == <<count, slips>>
ingestVars == <<vars, tokens, passed, tally>>

Unset == 0
\* A text that is no token: a registration key, or a placeholder left as it was.
NoToken == MaxTokens + 1

\* expand_env: a variable that is not set leaves the text "${...}" in place.
Expand(v) == IF v = Unset THEN NoToken ELSE v

IngestInit ==
  /\ Init
  /\ issued \in {0, 1} /\ env = issued /\ key = Expand(env)
  /\ valid = 1..issued /\ sent = <<>> /\ passed = {}
  /\ count = 0 /\ slips = 0

-----------------------------------------------------------------------------
\* Someone logs in, and puts the new token where the agent's next start finds it.
Login ==
  /\ issued < MaxTokens
  /\ issued' = issued + 1
  /\ env' = issued'
  /\ valid' = valid \cup {issued'}
  /\ UNCHANGED <<vars, key, sent, passed, tally>>

\* jwt.expiration seconds after the login nothing renews the token: the refresh
\* endpoint answers 501 and the agent never asks it.
Expire(t) ==
  /\ t \in valid
  /\ valid' = valid \ {t}
  /\ UNCHANGED <<vars, env, key, issued, sent, passed, tally>>

Remember == sent' = IF faults' > faults THEN Append(sent, key) ELSE sent

Run ==
  AgentStep /\ Remember /\ UNCHANGED <<env, key, issued, valid, passed, tally>>

\* Config::load runs in main, before run_agent.
Reload ==
  /\ Restart /\ Remember
  /\ key' = Expand(env)
  /\ UNCHANGED <<env, issued, valid, passed, tally>>

\* mutant: the "Bearer " prefix is not what the middleware expects
AuthorizedNever == FALSE
Authorized == key \in valid

\* The middleware lets the exchange through; what expires from here on does not
\* matter to it any more.
Check ==
  /\ req = "sent" /\ faults \notin passed /\ Authorized
  /\ passed' = passed \cup {faults}
  /\ UNCHANGED <<vars, tokens, tally>>

Unauthorized ==
  /\ req = "sent" /\ faults \notin passed /\ ~Authorized
  /\ PeerReject
  /\ UNCHANGED <<tokens, passed, tally>>

\* A request given up on still carries the key it was sent with.
CheckLate(r) ==
  /\ sent[r.n + 1] \in valid
  /\ passed' = passed \cup {r.n}
  /\ UNCHANGED <<vars, tokens, tally>>

\* mutant: Incr in place of IncrBy
CountOne(body) == count' = count + 1 /\ UNCHANGED slips
\* IncrBy: a number of attempts fail, each of them before or after Redis carried it
\* out; then one succeeds, or the client gives up and nobody looks at the error.
Count(body) ==
  \E failed \in 0..(MaxRetries + 1), applied \in 0..(MaxRetries + 1) :
    /\ \/ failed <= MaxRetries /\ applied \in 1..(failed + 1)
       \/ failed > 0 /\ applied <= failed
    /\ slips + failed <= MaxSlips
    /\ slips' = slips + failed
    /\ count' = count + applied * Len(body)

Ingest ==
  /\ faults \in passed
  /\ PeerAccept
  /\ Count(batch)
  /\ passed' = passed \ {faults}
  /\ UNCHANGED tokens

IngestLate(r) ==
  /\ r.n \in passed
  /\ LateAccept(r)
  /\ Count(r.body)
  /\ passed' = passed \ {r.n}
  /\ UNCHANGED tokens

IngestNext ==
  \/ Run
  \/ Login
  \/ \E t \in valid : Expire(t)
  \/ Reload
  \/ Check
  \/ Unauthorized
  \/ Ingest
  \/ \E r \in late : CheckLate(r) \/ IngestLate(r)

\* The agent runs, and the manager answers what it is asked.
IngestSpec ==
  /\ IngestInit /\ [][IngestNext]_ingestVars
  /\ WF_ingestVars(UploaderTask /\ UNCHANGED <<tokens, passed, tally>>)
  /\ WF_ingestVars(Tick /\ UNCHANGED <<tokens, passed, tally>>)
  /\ WF_ingestVars(Check \/ Unauthorized \/ Ingest)

-----------------------------------------------------------------------------
\* Processed, and the answer that says so is on its way back.
Unconfirmed == IF pc \in Flushing /\ req = "ok" THEN Len(batch) ELSE 0

\* The tenant's counter (events.go:38) falls behind what the manager has confirmed,
\* or is about to, by at most every event for each attempt at Redis that failed:
\* the handler ignores the error. And it runs ahead of it by at most every event
\* for each exchange that failed (mod.rs:86) and for each attempt that failed after
\* Redis had carried it out, which the client repeats (redis.go:7-9).
CounterFollows ==
  LET confirmed == Len(acked) + Unconfirmed
  IN  /\ confirmed <= count + slips * Cardinality(Event)
      /\ count <= confirmed + (faults + slips) * Cardinality(Event)

\* Every event the channel takes is uploaded or lost, unless from some moment on
\* the agent's key is refused for good (auth.go:31, uploader/mod.rs:72): a new
\* token in the environment helps only the next start (config.rs:81-90), which
\* loses what this one still held.
SettledOrRefused ==
  \A e \in Event :
    e \in Range(accepted) ~>
      e \in Range(acked) \cup lost \/ [](key \notin valid)
=============================================================================
