------------------------------ MODULE Admission ------------------------------
(***************************************************************************)
(* Who gets in: the bind guard and the token read at startup, the bearer   *)
(* token and the Tailscale allowlist on every request, and the single-use  *)
(* tickets that open an event stream (auth.py, api/routes.py).             *)
(*                                                                         *)
(* require_auth, issue and consume hold no await, so a request is admitted *)
(* or refused in one step; time passes between requests.                   *)
(***************************************************************************)
EXTENDS Integers, FiniteSets

CONSTANTS Tickets,    \* the tickets that may ever be issued
          Tokens,     \* bearer tokens
          Ips,        \* peer addresses other than loopback
          Identities, \* tailnet logins
          AllowList,  \* Settings.tailscale_allowlist, {} = the check is disabled
          Loopback,   \* Settings.is_loopback
          EnvToken,   \* the environment's DGXCTL_TOKEN
          TicketTTL, WhoisTTL,
          MaxTime     \* bound on the clock

ASSUME AdmissionAssumption ==
    /\ TicketTTL \in Nat \ {0} /\ WhoisTTL \in Nat \ {0} /\ MaxTime \in Nat
    /\ AllowList \subseteq Identities
    /\ Loopback \in BOOLEAN
    /\ EnvToken \in Tokens \cup {"no token"}

LocalIp == "127.0.0.1"
Peer    == Ips \cup {LocalIp}
Nobody  == "nobody"          \* whois has no answer
NoToken == "no token"        \* the token file is absent or empty; no variable
Loose   == "loose"           \* the token file is readable by others

VARIABLES clock,
          file,      \* what the token file holds
          server,    \* "down", "guarded" (the guard passed), "up", "refused"
          token,     \* Authenticator._token
          expiry,    \* TicketStore._tickets, 0 = not stored
          cache,     \* Authenticator._whois_cache
          owner,     \* what `tailscale whois` would answer for a peer now
          \* history, for the properties
          issuedAt,  \* when a ticket was issued, -1 = not yet
          presented, \* tickets a stream request has presented
          opened,    \* tickets a stream was opened with
          ownedAt,   \* when each identity last owned each peer, -1 = never
          last       \* the last admitted request

ticketVars == <<expiry, issuedAt, presented, opened>>
whoisVars  == <<cache, owner, ownedAt>>
bootVars   == <<file, server, token>>
vars == <<clock, file, server, token, expiry, cache, owner,
          issuedAt, presented, opened, ownedAt, last>>

NoRequest == [at |-> -1, peer |-> LocalIp, identity |-> Nobody]

(***************************************************************************)
(* Startup                                                                 *)
(***************************************************************************)
(* check_bind_guard: a loopback bind needs no token *)
Guard ==
    /\ server = "down"
    /\ server' = IF Loopback \/ file \notin {NoToken, Loose} THEN "guarded" ELSE "refused"
    /\ UNCHANGED <<clock, file, token, ticketVars, whoisVars, last>>


(* Authenticator.__init__ reads the file again, much later in create_app, *)
(* and falls back on the environment, which the guard does not look at    *)
Authenticate ==
    /\ server = "guarded"
    /\ server' = IF file = Loose THEN "refused" ELSE "up"
    /\ token' = CASE file = Loose   -> token
                  [] file = NoToken -> EnvToken
                  [] OTHER          -> file
    /\ UNCHANGED <<clock, file, ticketVars, whoisVars, last>>

(* another process writes, removes or loosens the token file *)
EditTokenFile ==
    /\ server \in {"down", "guarded"}
    /\ file' \in Tokens \cup {NoToken, Loose}
    /\ UNCHANGED <<clock, server, token, ticketVars, whoisVars, last>>

(***************************************************************************)
(* A request                                                               *)
(***************************************************************************)
\* mutant: no token configured admits on any bind
VerifyTokenOpen(t) == token = NoToken \/ t = token

(* verify_token: with no token configured, only a loopback bind admits *)
VerifyToken(t) == IF token = NoToken THEN Loopback ELSE t = token

\* mutant: a cached answer never expires
CachedForever(p) == cache[p].until > 0

(* whois: a cached answer, negative ones included, until it expires *)
Cached(p) == cache[p].until > clock
Whois(p)  == IF Cached(p) THEN cache[p].identity ELSE owner[p]
Remember(p) ==
    cache' = IF Cached(p) THEN cache
             ELSE [cache EXCEPT ![p] = [until |-> clock + WhoisTTL, identity |-> owner[p]]]

(* check_allowlist asks whois only of a peer that is not local *)
Asks(p)    == AllowList # {} /\ p # LocalIp
Allowed(p) == Asks(p) => Whois(p) \in AllowList
AskWhois(p) ==
    /\ IF Asks(p) THEN Remember(p) ELSE UNCHANGED cache
    /\ UNCHANGED <<owner, ownedAt>>

Admit(p) ==
    last' = [at |-> clock, peer |-> p, identity |-> IF Asks(p) THEN Whois(p) ELSE Nobody]

(* _sweep *)
Swept == [t \in Tickets |-> IF expiry[t] <= clock THEN 0 ELSE expiry[t]]

(* POST /api/stream-ticket, the token first and the allowlist second *)
IssueTicket(p, tok, t) ==
    /\ server = "up"
    /\ issuedAt[t] = -1
    /\ IF VerifyToken(tok)
       THEN /\ AskWhois(p)
            /\ IF Allowed(p)
               THEN /\ expiry' = [Swept EXCEPT ![t] = clock + TicketTTL]
                    /\ issuedAt' = [issuedAt EXCEPT ![t] = clock]
                    /\ Admit(p)
               ELSE UNCHANGED <<expiry, issuedAt, last>>
       ELSE UNCHANGED <<whoisVars, expiry, issuedAt, last>>
    /\ UNCHANGED <<clock, bootVars, presented, opened>>

\* mutants: a ticket is accepted while it is stored; it is not removed
AcceptsStored(t) == expiry[t] # 0
ConsumeKeeps(t) == expiry' = Swept

(* consume *)
Accepts(t) == Swept[t] > clock
Consume(t) == expiry' = [Swept EXCEPT ![t] = 0]

(* GET /api/stream?ticket=t: the ticket first, spent even if the peer is refused *)
OpenStream(p, t) ==
    /\ server = "up"
    /\ issuedAt[t] # -1
    /\ Consume(t)
    /\ presented' = presented \cup {t}
    /\ IF Accepts(t)
       THEN /\ AskWhois(p)
            /\ IF Allowed(p)
               THEN opened' = opened \cup {t} /\ Admit(p)
               ELSE UNCHANGED <<opened, last>>
       ELSE UNCHANGED <<whoisVars, opened, last>>
    /\ UNCHANGED <<clock, bootVars, issuedAt>>

(***************************************************************************)
(* The environment                                                         *)
(***************************************************************************)
Seen(t, o) == [p \in Ips |-> [i \in Identities |-> IF o[p] = i THEN t ELSE ownedAt[p][i]]]

Tick ==
    /\ clock < MaxTime
    /\ clock' = clock + 1
    /\ ownedAt' = Seen(clock', owner)
    /\ UNCHANGED <<bootVars, ticketVars, cache, owner, last>>

(* a tailnet address changes hands, or tailscaled stops answering *)
ChangeOwner(p, i) ==
    /\ owner[p] # i
    /\ owner' = [owner EXCEPT ![p] = i]
    /\ ownedAt' = Seen(clock, owner')
    /\ UNCHANGED <<clock, bootVars, ticketVars, cache, last>>

-----------------------------------------------------------------------------
Init ==
    /\ clock = 0
    /\ file \in Tokens \cup {NoToken, Loose}
    /\ server = "down"
    /\ token = NoToken
    /\ expiry = [t \in Tickets |-> 0]
    /\ cache = [p \in Ips |-> [until |-> 0, identity |-> Nobody]]
    /\ owner \in [Ips -> Identities \cup {Nobody}]
    /\ issuedAt = [t \in Tickets |-> -1]
    /\ presented = {}
    /\ opened = {}
    /\ ownedAt = [p \in Ips |-> [i \in Identities |-> IF owner[p] = i THEN 0 ELSE -1]]
    /\ last = NoRequest

Startup == Guard \/ Authenticate \/ EditTokenFile

Request ==
    \E p \in Peer, t \in Tickets :
        \/ \E tok \in Tokens \cup {NoToken} : IssueTicket(p, tok, t)
        \/ OpenStream(p, t)

Next ==
    \/ Startup
    \/ Request
    \/ Tick
    \/ \E p \in Ips, i \in Identities \cup {Nobody} : ChangeOwner(p, i)

Spec == Init /\ [][Next]_vars

-----------------------------------------------------------------------------
TypeOK ==
    /\ clock \in 0..MaxTime
    /\ file \in Tokens \cup {NoToken, Loose}
    /\ server \in {"down", "guarded", "up", "refused"}
    /\ token \in Tokens \cup {NoToken}
    /\ expiry \in [Tickets -> 0..(MaxTime + TicketTTL)]
    /\ cache \in [Ips -> [until : 0..(MaxTime + WhoisTTL), identity : Identities \cup {Nobody}]]
    /\ owner \in [Ips -> Identities \cup {Nobody}]
    /\ issuedAt \in [Tickets -> -1..MaxTime]
    /\ presented \subseteq Tickets
    /\ opened \subseteq Tickets
    /\ ownedAt \in [Ips -> [Identities -> -1..MaxTime]]
    /\ last \in [at : -1..MaxTime, peer : Peer, identity : Identities \cup {Nobody}]

(* A ticket opens a stream at its first presentation or never: one that was *)
(* presented, even by a peer the allowlist refused, opens nothing later     *)
(* (consume pops before the allowlist is asked, routes.py:133-138).         *)
TicketOpensOnce == [][\A t \in presented : t \in opened' => t \in opened]_vars

(* A ticket opens a stream only within its TTL of being issued              *)
(* (architecture.md:204, auth.py:71-86).                                    *)
NoLateTicket ==
    [][\A t \in opened' \ opened : /\ issuedAt[t] # -1
                                   /\ clock < issuedAt[t] + TicketTTL]_vars

(* Abandoned tickets do not pile up: after any request that touches the     *)
(* store, what it holds is still usable (_sweep on both paths).             *)
OnlyUsableKept ==
    [][expiry' # expiry => \A t \in Tickets : expiry'[t] = 0 \/ expiry'[t] > clock]_vars

(* With an allowlist, a remote peer is admitted only as an identity on the  *)
(* list that owned its address within the lifetime of a whois answer: the   *)
(* cache never serves one for longer (auth.py:114-129, spec S4).            *)
AdmittedOwnerIsRecent ==
    last.at >= 0 /\ AllowList # {} /\ last.peer # LocalIp =>
        /\ last.identity \in AllowList
        /\ ownedAt[last.peer][last.identity] > last.at - WhoisTTL

(* Fail closed: off loopback nobody is admitted without a token, even when  *)
(* the token file vanishes between the guard's read and the                 *)
(* authenticator's (spec S3; auth.py:50-61, 93-112).                        *)
FailClosed == last.at >= 0 /\ token = NoToken => Loopback

=============================================================================
