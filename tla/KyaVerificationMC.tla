--------------------------- MODULE KyaVerificationMC ---------------------------
(* Small cases for KyaVerification: one good case per profile, varied in    *)
(* groups of related fields.                                                *)
EXTENDS KyaVerification, TLC

CONSTANTS rp, mid, agent, stranger, owner, usd, eur, usdc, eurc, shop, till, home, away, here, there

terms == [transfer |-> TRUE, target |-> home, cap |-> 2, currency |-> usd, from |-> 0, until |-> 4,
          status |-> TRUE, audience |-> here]
Link(issuer, invoker) == terms @@ [issuer |-> issuer, signer |-> issuer, invoker |-> invoker]

goodPolicy ==
    [profiles |-> {"entity-card-v1", "legacy-v1"}, audiences |-> {here}, methods |-> {"did:web", "did:key"},
     responsible |-> {rp}, assurance |-> "L3-minus", fresh |-> TRUE, requireMax |-> FALSE, depth |-> 2,
     source |-> "responsible_party", resources |-> (shop :> home @@ till :> away),
     currencies |-> (usdc :> usd @@ eurc :> eur), payees |-> {}]

goodAction == [agent |-> agent, principal |-> rp, amount |-> 1, payee |-> shop, resource |-> shop, asset |-> usdc]
goodRequest == [strict |-> TRUE, amount |-> 1, currency |-> usd, payee |-> shop, resource |-> home]
goodProof == [did |-> agent, audience |-> here, expires |-> 3, assurance |-> "L3-minus"]

Present(profile, request, links) ==
    [profile |-> profile, request |-> request, proof |-> goodProof, chain |-> links, card |-> None]

Case(p, pol, a) == [presentation |-> p, policy |-> pol, action |-> a, expected |-> here]
direct == <<Link(rp, agent)>>
through == <<Link(rp, mid), Link(mid, agent)>>

(* The life of good authority, short and long, under both freshness rules.  *)
LifeCases ==
    {Case(Present(x[1], goodRequest, x[2]), [goodPolicy EXCEPT !.fresh = x[3]], goodAction) :
        x \in {<<"entity-card-v1", through, TRUE>>, <<"entity-card-v1", through, FALSE>>,
               <<"legacy-v1", direct, TRUE>>, <<"legacy-v1", direct, FALSE>>,
               <<"entity-card-v1", <<[Link(rp, agent) EXCEPT !.status = FALSE]>>, TRUE>>}}

(* Caps and currencies of both links against what is asked and what is paid.*)
MoneyCases ==
    {Case(Present("entity-card-v1", [goodRequest EXCEPT !.amount = m.asked, !.currency = m.named],
                  <<[Link(rp, mid) EXCEPT !.cap = m.root], [Link(mid, agent) EXCEPT !.cap = m.leaf, !.currency = m.cur]>>),
          [goodPolicy EXCEPT !.requireMax = m.strict],
          [goodAction EXCEPT !.amount = m.paid, !.asset = m.asset]) :
        m \in [asked : {2}, named : {usd, eur}, root : {None, 1, 2}, leaf : {None, 1, 2}, cur : {usd, eur},
               strict : {FALSE}, paid : {2}, asset : {usdc, eurc}]}

(* Who issued, signed, holds and presents; who is the principal.            *)
PartyCases ==
    {Case([Present(m.profile, goodRequest, <<[Link(m.by[1], m.invoker) EXCEPT !.signer = m.by[2]]>>)
              EXCEPT !.card = IF m.card = None THEN None
                              ELSE [agent |-> agent, responsible |-> rp, principal |-> m.card, attested |-> TRUE]],
          [goodPolicy EXCEPT !.source = m.source],
          [goodAction EXCEPT !.principal = m.principal]) :
        m \in [profile : {"entity-card-v1", "legacy-v1"}, by : {<<rp, rp>>, <<mid, mid>>, <<rp, mid>>},
               invoker : {agent, stranger}, card : {None, owner}, source : {"responsible_party", "card_principal"},
               principal : {rp, owner}]}

(* What is bought, and from whom.                                           *)
TargetCases ==
    {Case(Present(m.profile, [goodRequest EXCEPT !.resource = m.asked, !.payee = m.payee[1]],
                  <<[Link(rp, agent) EXCEPT !.target = m.target]>>),
          [goodPolicy EXCEPT !.payees = m.payee[2]], [goodAction EXCEPT !.resource = m.bought]) :
        m \in [profile : {"entity-card-v1", "legacy-v1"}, asked : {home, away}, target : {home, away},
               bought : {shop, till}, payee : {<<shop, {}>>, <<till, {}>>, <<till, {<<shop, till>>}>>}]}

(* A policy that asks for more than the presentation has, one demand each;  *)
(* terms that are not yet in force or made for another audience.            *)
StrictCases ==
    {Case(p, pol, goodAction) :
        p \in {Present("entity-card-v1", goodRequest, through), Present("legacy-v1", goodRequest, direct),
               Present("legacy-v1", goodRequest, <<[Link(rp, agent) EXCEPT !.audience = there]>>),
               Present("entity-card-v1", goodRequest, <<[Link(rp, agent) EXCEPT !.from = 1]>>),
               [Present("legacy-v1", goodRequest, direct) EXCEPT !.proof = None]},
        pol \in {goodPolicy, [goodPolicy EXCEPT !.assurance = "L3"], [goodPolicy EXCEPT !.depth = 1],
                 [goodPolicy EXCEPT !.methods = {"did:key"}], [goodPolicy EXCEPT !.profiles = {"entity-card-v1"}]}}

MCCases == LifeCases \cup MoneyCases \cup PartyCases \cup TargetCases \cup StrictCases

(* In the cases about terms the instants are those of validity alone.       *)
Instants == [x \in MCCases |-> IF x \in LifeCases THEN 3 ELSE 1]
================================================================================
