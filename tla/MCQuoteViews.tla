----------------------------- MODULE MCQuoteViews -----------------------------
(* Small instances of QuoteViews for TLC: who asks for what. *)
EXTENDS QuoteViews, TLC

Symmetry == Permutations(Users) \cup Permutations(Customers) \cup Permutations(Policies)
                \cup Permutations(Workers)

Ask(route, by, id, body) == [route |-> route, by |-> by, id |-> id, body |-> body]

NoBody == << >>

\* What anybody asks: to quote, to look and to make a customer.
Asked(by, p, c) ==
    { Ask("quote", by, Null, [customer_id |-> c, type |-> "known"]),
      Ask(IF by = Anon THEN "detail" ELSE "history", by, p, NoBody),
      Ask("create_customer", by, Null, [email |-> "address"]) }

\* What accounts ask besides, each branch of /quote/ and the admin action.
AskedByAccounts(by, p) ==
    { Ask("quote", by, Null, [quote_id |-> p, status |-> "accepted"]),
      Ask("quote", by, Null, [quote_id |-> p, status |-> "active", payment_method |-> "invoice"]),
      Ask("admin_bind", by, p, NoBody) }

(* What nobody in particular asks: bodies with a premium, of both kinds or   *)
(* neither, with a method left blank or unknown, and the other routes.       *)
AskedByAnybody(p, c) ==
    { Ask("quote", Anon, Null, b) : b \in
        { [customer_id |-> c, type |-> "unknown"],
          [quote_id |-> p, type |-> "known"],
          [quote_id |-> p, status |-> "accepted", premium |-> 1],
          [quote_id |-> p, status |-> "active", payment_method |-> ""],
          NoBody } }
    \cup { Ask("quotes", Anon, Null, [customer_id |-> c, type |-> "known", premium |-> 1]),
           Ask("accept", Anon, p, [premium |-> 1]),
           Ask("pay", Anon, p, [payment_method |-> "", premium |-> 1]),
           Ask("pay", Anon, p, [payment_method |-> "cheque"]) }

EveryRequest ==
    UNION { Asked(by, p, c) : by \in Users \cup {Anon}, p \in Policies, c \in Customers }
    \cup UNION { AskedByAccounts(by, p) : by \in Users, p \in Policies }
    \cup UNION { AskedByAnybody(p, c) : p \in Policies, c \in Customers }
=============================================================================
