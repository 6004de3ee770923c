---------------------------- MODULE AdmissionProofs ----------------------------
(***************************************************************************)
(* Proofs about Admission, for any tickets, tokens, peers, identities and  *)
(* allowlist, any lifetimes, and either kind of bind.                      *)
(***************************************************************************)
EXTENDS Admission, TLAPS

(* Nothing was granted before the service was up.                          *)
Booted ==
    server # "up" => /\ token = NoToken
                     /\ last.at = -1
                     /\ \A t \in Tickets : expiry[t] = 0

(* A ticket that is stored was issued with its TTL, and one that was        *)
(* presented is gone.                                                       *)
TicketDates ==
    \A t \in Tickets :
        /\ expiry[t] # 0 => /\ issuedAt[t] # -1
                            /\ expiry[t] = issuedAt[t] + TicketTTL
        /\ t \in presented => issuedAt[t] # -1 /\ expiry[t] = 0

(* A ticket stored by a service without a token is one of a loopback bind:  *)
(* what makes a stream opened by ticket fail closed.                        *)
GrantedOnLoopback ==
    token = NoToken /\ (\E t \in Tickets : expiry[t] # 0) => Loopback

(* Who owns an address now owned it last now, and nobody later.             *)
OwnersDated ==
    \A p \in Ips, i \in Identities :
        /\ owner[p] = i => ownedAt[p][i] = clock
        /\ ownedAt[p][i] <= clock

(* A whois answer names who owned the address when it was asked.            *)
AnswersDated ==
    \A p \in Ips, i \in Identities :
        cache[p].until > 0 /\ cache[p].identity = i =>
            ownedAt[p][i] >= cache[p].until - WhoisTTL

AdmissionInv ==
    /\ TypeOK
    /\ Booted
    /\ TicketDates
    /\ GrantedOnLoopback
    /\ OwnersDated
    /\ AnswersDated
    /\ AdmittedOwnerIsRecent
    /\ FailClosed

-----------------------------------------------------------------------------
(* The assumptions, in the form the proofs use.                             *)
LEMMA Lifetimes ==
    /\ TicketTTL \in Nat /\ TicketTTL > 0
    /\ WhoisTTL \in Nat /\ WhoisTTL > 0
    /\ MaxTime \in Nat
<1>1. TicketTTL \in Nat \ {0} /\ WhoisTTL \in Nat \ {0} /\ MaxTime \in Nat
  BY AdmissionAssumption
<1> QED
  BY <1>1

(* _sweep keeps a ticket as it is, or forgets one that has expired.         *)
LEMMA SweptTickets ==
    ASSUME TypeOK
    PROVE  /\ Swept \in [Tickets -> 0..(MaxTime + TicketTTL)]
           /\ \A t \in Tickets : /\ Swept[t] \in {0, expiry[t]}
                                 /\ Swept[t] # 0 => Swept[t] > clock
<1>1. /\ clock \in Nat
      /\ expiry \in [Tickets -> 0..(MaxTime + TicketTTL)]
      /\ 0 \in 0..(MaxTime + TicketTTL)
  BY Lifetimes DEF TypeOK
<1>2. \A t \in Tickets : /\ expiry[t] \in 0..(MaxTime + TicketTTL)
                         /\ expiry[t] \in Int
  BY <1>1
<1> QED
  BY <1>1, <1>2 DEF Swept

(* Only a stored ticket that has not expired is accepted.                   *)
LEMMA AcceptedIsStored ==
    ASSUME TypeOK, NEW t \in Tickets, Accepts(t)
    PROVE  expiry[t] # 0 /\ expiry[t] > clock
BY SweptTickets DEF Accepts, TypeOK

(* whois answers with an identity or none, and what is remembered of it is  *)
(* of the right type.                                                       *)
LEMMA WhoisTyped ==
    ASSUME TypeOK, NEW p \in Peer, AskWhois(p)
    PROVE  /\ Asks(p) => p \in Ips /\ Whois(p) \in Identities \cup {Nobody}
           /\ cache' \in [Ips -> [until : 0..(MaxTime + WhoisTTL),
                                  identity : Identities \cup {Nobody}]]
<1>1. Asks(p) => p \in Ips
  BY DEF Asks, Peer
<1>2. ASSUME p \in Ips PROVE Whois(p) \in Identities \cup {Nobody}
  BY <1>2 DEF Whois, TypeOK
<1>3. ASSUME p \in Ips
      PROVE  [until |-> clock + WhoisTTL, identity |-> owner[p]]
                \in [until : 0..(MaxTime + WhoisTTL), identity : Identities \cup {Nobody}]
  <2>1. clock + WhoisTTL \in 0..(MaxTime + WhoisTTL)
    BY Lifetimes DEF TypeOK
  <2>2. owner[p] \in Identities \cup {Nobody}
    BY <1>3 DEF TypeOK
  <2> QED
    BY <2>1, <2>2
<1>4. cache' \in [Ips -> [until : 0..(MaxTime + WhoisTTL), identity : Identities \cup {Nobody}]]
  BY <1>1, <1>3 DEF AskWhois, Remember, TypeOK
<1> QED
  BY <1>1, <1>2, <1>4

(* The request that is admitted last is recorded with what whois said.      *)
LEMMA AdmitTyped ==
    ASSUME TypeOK, NEW p \in Peer, AskWhois(p), Admit(p)
    PROVE  last' \in [at : -1..MaxTime, peer : Peer, identity : Identities \cup {Nobody}]
<1>1. (IF Asks(p) THEN Whois(p) ELSE Nobody) \in Identities \cup {Nobody}
  BY WhoisTyped
<1> QED
  BY <1>1 DEF Admit, TypeOK

(* The service is not up yet, and knows of nobody.                          *)
LEMMA AdmissionTypeInit == Init => TypeOK
<1> SUFFICES ASSUME Init PROVE TypeOK
  OBVIOUS
<1>1. NoRequest \in [at : -1..MaxTime, peer : Peer, identity : Identities \cup {Nobody}]
  BY Lifetimes DEF NoRequest, Peer
<1>2. cache \in [Ips -> [until : 0..(MaxTime + WhoisTTL), identity : Identities \cup {Nobody}]]
  BY Lifetimes DEF Init
<1> QED
  BY <1>1, <1>2, Lifetimes DEF Init, TypeOK

(* Type correctness of startup, tokens, tickets and whois answers.          *)
THEOREM AdmissionTypeCorrect == Spec => []TypeOK
<1>1. TypeOK /\ [Next]_vars => TypeOK'
  <2> SUFFICES ASSUME TypeOK, [Next]_vars PROVE TypeOK'
    OBVIOUS
  <2>1. CASE Guard
    BY <2>1 DEF Guard, TypeOK, ticketVars, whoisVars
  <2>2. CASE Authenticate
    <3>1. token' \in Tokens \cup {NoToken}
      <4>1. CASE file = Loose
        BY <2>2, <4>1 DEF Authenticate, TypeOK, Loose, NoToken
      <4>2. CASE file # Loose /\ file = NoToken
        <5>1. token' = EnvToken
          BY <2>2, <4>2 DEF Authenticate, Loose, NoToken
        <5> QED
          BY <5>1, AdmissionAssumption, Zenon DEF NoToken
      <4>3. CASE file # Loose /\ file # NoToken
        BY <2>2, <4>3 DEF Authenticate, TypeOK, Loose, NoToken
      <4> QED
        BY <4>1, <4>2, <4>3
    <3> QED
      BY <2>2, <3>1 DEF Authenticate, TypeOK, ticketVars, whoisVars
  <2>3. CASE EditTokenFile
    BY <2>3 DEF EditTokenFile, TypeOK, ticketVars, whoisVars
  <2>4. ASSUME NEW p \in Peer, NEW t \in Tickets, NEW tok \in Tokens \cup {NoToken},
               IssueTicket(p, tok, t)
        PROVE  TypeOK'
    <3>1. CASE ~VerifyToken(tok)
      BY <2>4, <3>1 DEF IssueTicket, TypeOK, whoisVars, bootVars
    <3>2. CASE VerifyToken(tok) /\ ~Allowed(p)
      BY <2>4, <3>2, WhoisTyped DEF IssueTicket, AskWhois, TypeOK, bootVars
    <3>3. CASE VerifyToken(tok) /\ Allowed(p)
      <4>1. expiry' \in [Tickets -> 0..(MaxTime + TicketTTL)]
        <5>1. expiry' = [Swept EXCEPT ![t] = clock + TicketTTL]
          BY <2>4, <3>3 DEF IssueTicket
        <5>2. clock + TicketTTL \in 0..(MaxTime + TicketTTL)
          BY Lifetimes DEF TypeOK
        <5> QED
          BY <5>1, <5>2, SweptTickets
      <4>2. issuedAt' \in [Tickets -> -1..MaxTime]
        <5>1. clock \in -1..MaxTime
          BY Lifetimes DEF TypeOK
        <5> QED
          BY <2>4, <3>3, <5>1 DEF IssueTicket, TypeOK
      <4>3. /\ AskWhois(p) /\ Admit(p)
            /\ UNCHANGED <<clock, bootVars, presented, opened>>
        BY <2>4, <3>3 DEF IssueTicket
      <4>4. /\ cache' \in [Ips -> [until : 0..(MaxTime + WhoisTTL),
                                   identity : Identities \cup {Nobody}]]
            /\ last' \in [at : -1..MaxTime, peer : Peer, identity : Identities \cup {Nobody}]
        BY <4>3, WhoisTyped, AdmitTyped
      <4> QED
        BY <4>1, <4>2, <4>3, <4>4 DEF AskWhois, TypeOK, bootVars
    <3> QED
      BY <3>1, <3>2, <3>3
  <2>5. ASSUME NEW p \in Peer, NEW t \in Tickets, OpenStream(p, t)
        PROVE  TypeOK'
    <3>1. expiry' \in [Tickets -> 0..(MaxTime + TicketTTL)]
      BY <2>5, SweptTickets, Lifetimes DEF OpenStream, Consume, TypeOK
    <3>2. CASE ~Accepts(t)
      BY <2>5, <3>1, <3>2 DEF OpenStream, TypeOK, whoisVars, bootVars
    <3>3. CASE Accepts(t) /\ ~Allowed(p)
      BY <2>5, <3>1, <3>3, WhoisTyped DEF OpenStream, AskWhois, TypeOK, bootVars
    <3>4. CASE Accepts(t) /\ Allowed(p)
      <4>1. AskWhois(p) /\ Admit(p)
        BY <2>5, <3>4 DEF OpenStream
      <4> QED
        BY <2>5, <3>1, <3>4, <4>1, WhoisTyped, AdmitTyped
           DEF OpenStream, AskWhois, TypeOK, bootVars
    <3> QED
      BY <3>2, <3>3, <3>4
  <2>6. CASE Tick
    <3>1. clock' \in 0..MaxTime
      BY <2>6, Lifetimes DEF Tick, TypeOK
    <3>2. ownedAt' \in [Ips -> [Identities -> -1..MaxTime]]
      BY <2>6, <3>1 DEF Tick, Seen, TypeOK
    <3> QED
      BY <2>6, <3>1, <3>2 DEF Tick, TypeOK, bootVars, ticketVars
  <2>7. ASSUME NEW p \in Ips, NEW i \in Identities \cup {Nobody}, ChangeOwner(p, i)
        PROVE  TypeOK'
    <3>1. ownedAt' \in [Ips -> [Identities -> -1..MaxTime]]
      BY <2>7 DEF ChangeOwner, Seen, TypeOK
    <3> QED
      BY <2>7, <3>1 DEF ChangeOwner, TypeOK, bootVars, ticketVars
  <2>8. CASE UNCHANGED vars
    BY <2>8 DEF TypeOK, vars
  <2> QED
    BY <2>1, <2>2, <2>3, <2>4, <2>5, <2>6, <2>7, <2>8 DEF Next, Startup, Request
<1> QED
  BY <1>1, AdmissionTypeInit, PTL DEF Spec

-----------------------------------------------------------------------------
(* Asking whois, or not having to, leaves every remembered answer dated,    *)
(* and what it says of a remote peer was so less than WhoisTTL ago.         *)
LEMMA WhoisRecent ==
    ASSUME TypeOK, OwnersDated, AnswersDated, NEW p \in Peer, AskWhois(p)
    PROVE  /\ AnswersDated'
           /\ \A i \in Identities :
                  Asks(p) /\ Whois(p) = i => ownedAt[p][i] > clock - WhoisTTL
<1>1. UNCHANGED <<owner, ownedAt>>
  BY DEF AskWhois
<1>2. /\ clock \in Nat
      /\ \A q \in Ips : cache[q].until \in Nat
      /\ \A q \in Ips, i \in Identities : ownedAt[q][i] \in Int
  BY Lifetimes DEF TypeOK
<1>3. CASE ~Asks(p)
  BY <1>1, <1>3 DEF AskWhois, AnswersDated
<1>4. CASE Asks(p) /\ Cached(p)
  <2>1. UNCHANGED cache
    BY <1>4 DEF AskWhois, Remember
  <2>2. p \in Ips /\ cache[p].until > clock /\ Whois(p) = cache[p].identity
    BY <1>4 DEF Asks, Peer, Cached, Whois
  <2>3. \A i \in Identities : Whois(p) = i => ownedAt[p][i] >= cache[p].until - WhoisTTL
    <3>1. cache[p].until > 0
      BY <1>2, <2>2
    <3> QED
      BY <2>2, <3>1 DEF AnswersDated
  <2> QED
    BY <1>1, <1>2, <2>1, <2>2, <2>3, Lifetimes DEF AnswersDated
<1>5. CASE Asks(p) /\ ~Cached(p)
  <2>1. p \in Ips /\ Whois(p) = owner[p]
    BY <1>5 DEF Asks, Peer, Whois
  <2>2. cache' = [cache EXCEPT ![p] = [until |-> clock + WhoisTTL, identity |-> owner[p]]]
    BY <1>5 DEF AskWhois, Remember
  <2>3. \A i \in Identities : owner[p] = i => ownedAt[p][i] = clock
    BY <2>1 DEF OwnersDated
  <2>4. ASSUME NEW q \in Ips, NEW i \in Identities, cache'[q].until > 0, cache'[q].identity = i
        PROVE  ownedAt'[q][i] >= cache'[q].until - WhoisTTL
    <3>1. CASE q = p
      <4>1. cache'[q].until = clock + WhoisTTL /\ cache'[q].identity = owner[p]
        BY <2>1, <2>2, <3>1 DEF TypeOK
      <4> QED
        BY <1>1, <1>2, <2>3, <2>4, <3>1, <4>1, Lifetimes
    <3>2. CASE q # p
      <4>1. cache'[q] = cache[q]
        BY <2>2, <3>2 DEF TypeOK
      <4> QED
        BY <1>1, <2>4, <4>1 DEF AnswersDated
    <3> QED
      BY <3>1, <3>2
  <2>5. \A i \in Identities : Whois(p) = i => ownedAt[p][i] > clock - WhoisTTL
    BY <1>2, <2>1, <2>3, Lifetimes
  <2> QED
    BY <2>4, <2>5 DEF AnswersDated
<1> QED
  BY <1>3, <1>4, <1>5

(* A request admitted from a peer the allowlist lets in is one of a recent  *)
(* owner of the peer's address.                                             *)
LEMMA AdmitRecent ==
    ASSUME TypeOK, OwnersDated, AnswersDated, NEW p \in Peer,
           AskWhois(p), Allowed(p), Admit(p)
    PROVE  AdmittedOwnerIsRecent'
<1>1. /\ last'.at = clock /\ last'.peer = p
      /\ Asks(p) => last'.identity = Whois(p)
  BY DEF Admit
<1>2. ownedAt' = ownedAt
  BY DEF AskWhois
<1> SUFFICES ASSUME AllowList # {}, p # LocalIp
             PROVE  /\ last'.identity \in AllowList
                    /\ ownedAt[p][last'.identity] > clock - WhoisTTL
  BY <1>1, <1>2 DEF AdmittedOwnerIsRecent
<1>3. Asks(p) /\ last'.identity = Whois(p) /\ Whois(p) \in AllowList
  BY <1>1 DEF Asks, Allowed
<1>4. AllowList \subseteq Identities
  BY AdmissionAssumption
<1> QED
  BY <1>3, <1>4, WhoisRecent

(* A refused request, and one that asks nothing, admits nobody new.         *)
LEMMA LastKept ==
    ASSUME AdmittedOwnerIsRecent, UNCHANGED <<last, ownedAt>>
    PROVE  AdmittedOwnerIsRecent'
BY DEF AdmittedOwnerIsRecent

(* POST /api/stream-ticket, granted or refused.                             *)
LEMMA IssueKeeps ==
    ASSUME AdmissionInv, NEW p \in Peer, NEW t \in Tickets,
           NEW tok \in Tokens \cup {NoToken}, IssueTicket(p, tok, t), TypeOK'
    PROVE  AdmissionInv'
<1>0. TypeOK /\ OwnersDated /\ AnswersDated
  BY DEF AdmissionInv
<1>1. /\ server = "up" /\ issuedAt[t] = -1
      /\ UNCHANGED <<clock, server, token, presented, owner, ownedAt>>
  BY DEF IssueTicket, bootVars, AskWhois, whoisVars
<1>2. Booted'
  BY <1>1 DEF Booted
<1>3. OwnersDated'
  BY <1>0, <1>1 DEF OwnersDated
<1>4. CASE VerifyToken(tok) /\ Allowed(p)
  <2>1. /\ expiry' = [Swept EXCEPT ![t] = clock + TicketTTL]
        /\ issuedAt' = [issuedAt EXCEPT ![t] = clock]
        /\ AskWhois(p) /\ Admit(p)
    BY <1>4 DEF IssueTicket
  <2>2. token = NoToken => Loopback
    BY <1>4 DEF VerifyToken
  <2>3. TicketDates'
    <3> SUFFICES ASSUME NEW u \in Tickets
                 PROVE  /\ expiry'[u] # 0 => /\ issuedAt'[u] # -1
                                             /\ expiry'[u] = issuedAt'[u] + TicketTTL
                        /\ u \in presented' => issuedAt'[u] # -1 /\ expiry'[u] = 0
      BY DEF TicketDates
    <3>1. t \notin presented
      BY <1>1 DEF AdmissionInv, TicketDates
    <3>2. CASE u = t
      <4>1. issuedAt'[u] = clock /\ expiry'[u] = clock + TicketTTL
        BY <1>0, <2>1, <3>2, SweptTickets DEF TypeOK
      <4>2. clock # -1
        BY <1>0, Lifetimes DEF TypeOK
      <4> QED
        BY <1>1, <3>1, <3>2, <4>1, <4>2
    <3>3. CASE u # t
      <4>1. issuedAt'[u] = issuedAt[u] /\ expiry'[u] \in {0, expiry[u]}
        BY <1>0, <2>1, <3>3, SweptTickets DEF TypeOK
      <4> QED
        BY <1>1, <4>1 DEF AdmissionInv, TicketDates
    <3> QED
      BY <3>2, <3>3
  <2>4. GrantedOnLoopback' /\ FailClosed'
    BY <1>1, <2>2 DEF GrantedOnLoopback, FailClosed
  <2>5. AnswersDated' /\ AdmittedOwnerIsRecent'
    BY <1>0, <1>4, <2>1, WhoisRecent, AdmitRecent
  <2> QED
    BY <1>2, <1>3, <2>3, <2>4, <2>5 DEF AdmissionInv
<1>5. CASE ~(VerifyToken(tok) /\ Allowed(p))
  <2>1. UNCHANGED <<expiry, issuedAt, last>>
    BY <1>5 DEF IssueTicket
  <2>2. AnswersDated'
    <3>1. CASE AskWhois(p)
      BY <1>0, <3>1, WhoisRecent
    <3>2. CASE UNCHANGED cache
      BY <1>0, <1>1, <3>2 DEF AnswersDated
    <3> QED
      BY <1>5, <3>1, <3>2 DEF IssueTicket, whoisVars
  <2>3. TicketDates' /\ GrantedOnLoopback' /\ FailClosed' /\ AdmittedOwnerIsRecent'
    BY <1>1, <2>1, LastKept DEF AdmissionInv, TicketDates, GrantedOnLoopback, FailClosed
  <2> QED
    BY <1>2, <1>3, <2>2, <2>3 DEF AdmissionInv
<1> QED
  BY <1>4, <1>5
(* GET /api/stream: the ticket is spent whatever comes of the request.      *)
LEMMA OpenKeeps ==
    ASSUME AdmissionInv, NEW p \in Peer, NEW t \in Tickets, OpenStream(p, t), TypeOK'
    PROVE  AdmissionInv'
<1>0. TypeOK /\ OwnersDated /\ AnswersDated
  BY DEF AdmissionInv
<1>1. /\ server = "up" /\ issuedAt[t] # -1
      /\ expiry' = [Swept EXCEPT ![t] = 0]
      /\ presented' = presented \cup {t}
      /\ UNCHANGED <<clock, server, token, issuedAt, owner, ownedAt>>
  BY DEF OpenStream, Consume, bootVars, AskWhois, whoisVars
<1>2. \A u \in Tickets : expiry'[u] \in {0, expiry[u]} /\ expiry'[t] = 0
  BY <1>0, <1>1, SweptTickets
<1>3. Booted' /\ OwnersDated' /\ GrantedOnLoopback'
  BY <1>0, <1>1, <1>2 DEF AdmissionInv, Booted, OwnersDated, GrantedOnLoopback
<1>4. TicketDates'
  BY <1>1, <1>2 DEF AdmissionInv, TicketDates
<1>5. CASE Accepts(t) /\ Allowed(p)
  <2>1. AskWhois(p) /\ Admit(p)
    BY <1>5 DEF OpenStream
  <2>2. AnswersDated' /\ AdmittedOwnerIsRecent'
    BY <1>0, <1>5, <2>1, WhoisRecent, AdmitRecent
  <2>3. FailClosed'
    BY <1>0, <1>1, <1>5, AcceptedIsStored DEF AdmissionInv, GrantedOnLoopback, FailClosed
  <2> QED
    BY <1>3, <1>4, <2>2, <2>3 DEF AdmissionInv
<1>6. CASE ~(Accepts(t) /\ Allowed(p))
  <2>1. UNCHANGED last
    BY <1>6 DEF OpenStream
  <2>2. AnswersDated'
    <3>1. CASE AskWhois(p)
      BY <1>0, <3>1, WhoisRecent
    <3>2. CASE UNCHANGED cache
      BY <1>0, <1>1, <3>2 DEF AnswersDated
    <3> QED
      BY <1>6, <3>1, <3>2 DEF OpenStream, whoisVars
  <2>3. FailClosed' /\ AdmittedOwnerIsRecent'
    BY <1>1, <2>1, LastKept DEF AdmissionInv, FailClosed
  <2> QED
    BY <1>3, <1>4, <2>2, <2>3 DEF AdmissionInv
<1> QED
  BY <1>5, <1>6

(* A record of ownership moves forward only, and up to the present.         *)
LEMMA SeenDated ==
    ASSUME TypeOK, OwnersDated, NEW now \in Nat, now >= clock,
           NEW o \in [Ips -> Identities \cup {Nobody}]
    PROVE  \A p \in Ips, i \in Identities :
               /\ Seen(now, o)[p][i] >= ownedAt[p][i]
               /\ Seen(now, o)[p][i] <= now
               /\ o[p] = i => Seen(now, o)[p][i] = now
<1>1. clock \in Nat /\ \A p \in Ips, i \in Identities : ownedAt[p][i] \in Int
  BY Lifetimes DEF TypeOK
<1>2. \A p \in Ips, i \in Identities :
          Seen(now, o)[p][i] = IF o[p] = i THEN now ELSE ownedAt[p][i]
  BY DEF Seen
<1> QED
  BY <1>1, <1>2 DEF OwnersDated

(* Time, and a change of hands, make what is known older and nothing else.  *)
LEMMA LaterKeeps ==
    ASSUME AdmissionInv, NEW now \in Nat, now >= clock,
           NEW o \in [Ips -> Identities \cup {Nobody}], TypeOK',
           clock' = now, owner' = o, ownedAt' = Seen(now, o),
           UNCHANGED <<bootVars, ticketVars, cache, last>>
    PROVE  AdmissionInv'
<1>1. TypeOK /\ OwnersDated
  BY DEF AdmissionInv
<1>2. OwnersDated'
  BY <1>1, SeenDated DEF OwnersDated
<1>3. \A p \in Ips, i \in Identities : /\ ownedAt[p][i] \in Int /\ ownedAt'[p][i] \in Int
                                       /\ ownedAt'[p][i] >= ownedAt[p][i]
  <2>1. \A p \in Ips, i \in Identities : ownedAt[p][i] \in Int /\ ownedAt'[p][i] \in Int
    BY <1>1 DEF TypeOK
  <2>2. \A p \in Ips, i \in Identities : ownedAt'[p][i] >= ownedAt[p][i]
    BY <1>1, SeenDated
  <2> QED
    BY <2>1, <2>2
<1>4. /\ \A p \in Ips : cache[p].until \in Int
      /\ last.at \in Int
  BY <1>1 DEF TypeOK
<1>5. AnswersDated'
  BY <1>3, <1>4, Lifetimes DEF AdmissionInv, AnswersDated
<1>6. AdmittedOwnerIsRecent'
  <2> SUFFICES ASSUME last.at >= 0, AllowList # {}, last.peer # LocalIp
               PROVE  /\ last.identity \in AllowList
                      /\ ownedAt'[last.peer][last.identity] > last.at - WhoisTTL
    BY DEF AdmittedOwnerIsRecent
  <2>1. /\ last.identity \in AllowList
        /\ ownedAt[last.peer][last.identity] > last.at - WhoisTTL
    BY DEF AdmissionInv, AdmittedOwnerIsRecent
  <2>2. last.peer \in Ips /\ last.identity \in Identities
    <3>1. last.peer \in Ips
      BY <1>1 DEF TypeOK, Peer
    <3> QED
      BY <2>1, <3>1, AdmissionAssumption, Zenon
  <2> QED
    BY <1>3, <1>4, <2>1, <2>2, Lifetimes
<1>7. Booted' /\ TicketDates' /\ GrantedOnLoopback' /\ FailClosed'
  BY DEF AdmissionInv, Booted, TicketDates, GrantedOnLoopback, FailClosed, bootVars, ticketVars
<1> QED
  BY <1>2, <1>5, <1>6, <1>7 DEF AdmissionInv

-----------------------------------------------------------------------------
(* The inductive invariant: what was granted, on which bind, and when what  *)
(* is known of an address was true.                                         *)
THEOREM AdmissionInvariant == Spec => []AdmissionInv
<1>1. Init => AdmissionInv
  <2> SUFFICES ASSUME Init, TypeOK PROVE AdmissionInv
    BY AdmissionTypeInit
  <2>1. Booted /\ TicketDates /\ GrantedOnLoopback /\ AnswersDated
    BY DEF Init, Booted, TicketDates, GrantedOnLoopback, AnswersDated, NoRequest
  <2>2. OwnersDated
    BY DEF Init, OwnersDated
  <2>3. AdmittedOwnerIsRecent /\ FailClosed
    BY DEF Init, AdmittedOwnerIsRecent, FailClosed, NoRequest
  <2> QED
    BY <2>1, <2>2, <2>3 DEF AdmissionInv
<1>2. AdmissionInv /\ TypeOK' /\ [Next]_vars => AdmissionInv'
  <2> SUFFICES ASSUME AdmissionInv, TypeOK', [Next]_vars
               PROVE  AdmissionInv'
    OBVIOUS
  <2>1. CASE Startup
    <3>1. /\ server # "up"
          /\ UNCHANGED <<clock, ticketVars, whoisVars, last>>
          /\ server' # "up" => token' = token
      <4>1. CASE Guard
        BY <4>1 DEF Guard
      <4>2. CASE Authenticate
        BY <4>2 DEF Authenticate, Loose, NoToken
      <4>3. CASE EditTokenFile
        BY <4>3 DEF EditTokenFile
      <4> QED
        BY <2>1, <4>1, <4>2, <4>3 DEF Startup
    <3>2. /\ last.at = -1
          /\ \A t \in Tickets : expiry[t] = 0
          /\ token = NoToken
      BY <3>1 DEF AdmissionInv, Booted
    <3>3. Booted' /\ GrantedOnLoopback' /\ FailClosed'
      BY <3>1, <3>2 DEF Booted, GrantedOnLoopback, FailClosed, ticketVars
    <3>4. TicketDates' /\ OwnersDated' /\ AnswersDated' /\ AdmittedOwnerIsRecent'
      BY <3>1, LastKept
         DEF AdmissionInv, TicketDates, OwnersDated, AnswersDated, ticketVars, whoisVars
    <3> QED
      BY <3>3, <3>4 DEF AdmissionInv
  <2>2. CASE Request
    BY <2>2, IssueKeeps, OpenKeeps DEF Request
  <2>3. CASE Tick
    <3>1. /\ clock + 1 \in Nat /\ clock + 1 >= clock
          /\ owner \in [Ips -> Identities \cup {Nobody}]
      BY Lifetimes DEF AdmissionInv, TypeOK
    <3>2. /\ clock' = clock + 1 /\ owner' = owner /\ ownedAt' = Seen(clock + 1, owner)
          /\ UNCHANGED <<bootVars, ticketVars, cache, last>>
      BY <2>3 DEF Tick
    <3> QED
      BY <3>1, <3>2, LaterKeeps
  <2>4. ASSUME NEW p \in Ips, NEW i \in Identities \cup {Nobody}, ChangeOwner(p, i)
        PROVE  AdmissionInv'
    <3>1. /\ clock \in Nat /\ clock >= clock
          /\ owner' \in [Ips -> Identities \cup {Nobody}]
      BY Lifetimes DEF AdmissionInv, TypeOK
    <3>2. /\ clock' = clock /\ ownedAt' = Seen(clock, owner')
          /\ UNCHANGED <<bootVars, ticketVars, cache, last>>
      BY <2>4 DEF ChangeOwner
    <3> QED
      BY <3>1, <3>2, LaterKeeps
  <2>5. CASE UNCHANGED vars
    BY <2>5, LastKept
       DEF AdmissionInv, vars, Booted, TicketDates, GrantedOnLoopback, OwnersDated,
           AnswersDated, FailClosed
  <2> QED
    BY <2>1, <2>2, <2>3, <2>4, <2>5 DEF Next
<1> QED
  BY <1>1, <1>2, AdmissionTypeCorrect, PTL DEF Spec

(* Fail closed, whatever is in the token file and whenever it changes:      *)
(* check_bind_guard and Authenticator.__init__ read it apart.               *)
THEOREM AdmissionFailsClosed == Spec => []FailClosed
<1>1. AdmissionInv => FailClosed
  BY DEF AdmissionInv
<1> QED
  BY <1>1, AdmissionInvariant, PTL

(* With an allowlist, a remote peer is only let in as an identity that      *)
(* owned its address less than WhoisTTL before.                             *)
THEOREM OwnersAreRecent == Spec => []AdmittedOwnerIsRecent
<1>1. AdmissionInv => AdmittedOwnerIsRecent
  BY DEF AdmissionInv
<1> QED
  BY <1>1, AdmissionInvariant, PTL

-----------------------------------------------------------------------------
(* Only a ticket presented at once opens a stream, and the ticket is stored *)
(* then.                                                                    *)
LEMMA OpensWhatIsStored ==
    ASSUME TypeOK, [Next]_vars, NEW t \in Tickets, t \in opened', t \notin opened
    PROVE  expiry[t] # 0 /\ expiry[t] > clock
<1>1. PICK p \in Peer, u \in Tickets : OpenStream(p, u)
  <2>1. ~Startup /\ ~Tick /\ ~UNCHANGED vars
    BY DEF Startup, Guard, Authenticate, EditTokenFile, Tick, ticketVars, vars
  <2>2. \A p \in Ips, i \in Identities \cup {Nobody} : ~ChangeOwner(p, i)
    BY DEF ChangeOwner, ticketVars
  <2>3. \A p \in Peer, u \in Tickets, tok \in Tokens \cup {NoToken} : ~IssueTicket(p, tok, u)
    BY DEF IssueTicket
  <2> QED
    BY <2>1, <2>2, <2>3 DEF Next, Request
<1>2. t = u /\ Accepts(u)
  BY <1>1 DEF OpenStream
<1> QED
  BY <1>2, AcceptedIsStored

(* A ticket that was presented once, by whoever and with whatever outcome,  *)
(* opens nothing any more (consume).                                        *)
THEOREM TicketsAreSingleUse == Spec => TicketOpensOnce
<1>1. AdmissionInv /\ [Next]_vars => [\A t \in presented : t \in opened' => t \in opened]_vars
  <2> SUFFICES ASSUME AdmissionInv, [Next]_vars, NEW t \in presented, t \in opened', t \notin opened
               PROVE  FALSE
    OBVIOUS
  <2>1. TypeOK /\ TicketDates
    BY DEF AdmissionInv
  <2>2. t \in Tickets /\ expiry[t] = 0
    BY <2>1 DEF TypeOK, TicketDates
  <2> QED
    BY <2>1, <2>2, OpensWhatIsStored
<1> QED
  BY <1>1, AdmissionInvariant, PTL DEF Spec, TicketOpensOnce

(* A ticket opens a stream within its TTL of being issued, or never.        *)
THEOREM TicketsExpire == Spec => NoLateTicket
<1>1. AdmissionInv /\ TypeOK' /\ [Next]_vars =>
          [\A t \in opened' \ opened : /\ issuedAt[t] # -1
                                       /\ clock < issuedAt[t] + TicketTTL]_vars
  <2> SUFFICES ASSUME AdmissionInv, TypeOK', [Next]_vars, NEW t \in opened' \ opened
               PROVE  issuedAt[t] # -1 /\ clock < issuedAt[t] + TicketTTL
    OBVIOUS
  <2>1. TypeOK /\ TicketDates
    BY DEF AdmissionInv
  <2>2. t \in Tickets
    BY DEF TypeOK
  <2>3. expiry[t] # 0 /\ expiry[t] > clock
    BY <2>1, <2>2, OpensWhatIsStored
  <2>4. issuedAt[t] # -1 /\ expiry[t] = issuedAt[t] + TicketTTL
    BY <2>1, <2>2, <2>3 DEF TicketDates
  <2> QED
    BY <2>3, <2>4
<1> QED
  BY <1>1, AdmissionTypeCorrect, AdmissionInvariant, PTL DEF Spec, NoLateTicket

(* Whatever a request leaves in the store can still open a stream (_sweep): *)
(* abandoned tickets do not pile up.                                        *)
THEOREM TicketsAreSwept == Spec => OnlyUsableKept
<1>1. TypeOK /\ [Next]_vars =>
          [expiry' # expiry => \A t \in Tickets : expiry'[t] = 0 \/ expiry'[t] > clock]_vars
  <2> SUFFICES ASSUME TypeOK, [Next]_vars, expiry' # expiry, NEW t \in Tickets
               PROVE  expiry'[t] = 0 \/ expiry'[t] > clock
    OBVIOUS
  <2>1. CASE Request
    <3>1. PICK u \in Tickets : \/ expiry' = [Swept EXCEPT ![u] = clock + TicketTTL]
                              \/ expiry' = [Swept EXCEPT ![u] = 0]
      BY <2>1 DEF Request, IssueTicket, OpenStream, Consume
    <3>2. clock \in Nat /\ clock + TicketTTL > clock
      BY Lifetimes DEF TypeOK
    <3> QED
      BY <3>1, <3>2, SweptTickets
  <2>2. CASE ~Request
    BY <2>2 DEF Next, Startup, Guard, Authenticate, EditTokenFile, Tick, ChangeOwner, ticketVars, vars
  <2> QED
    BY <2>1, <2>2
<1> QED
  BY <1>1, AdmissionTypeCorrect, PTL DEF Spec, OnlyUsableKept

================================================================================
