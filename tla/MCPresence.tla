----------------------------- MODULE MCPresence -----------------------------
(* Instances of Presence for TLC: who sits behind which socket. *)
EXTENDS Presence, TLC

CONSTANTS u1, u2, s1, s2, s3

\* u1 has two tabs.
TwoTabs == s1 :> u1 @@ s2 :> u1

\* The two tabs are interchangeable.
Tabs == Permutations({s1, s2})

\* u1 has two tabs and u2 one.
TwoPeople == s1 :> u1 @@ s2 :> u1 @@ s3 :> u2

=============================================================================
