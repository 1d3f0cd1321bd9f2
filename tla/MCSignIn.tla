------------------------------- MODULE MCSignIn -------------------------------
(* Instances of SignIn for TLC. *)
EXTENDS SignIn, TLC

CONSTANTS ann, bob, s1, s2, s3, t1, t2, b1, b2, h1, h2

\* Two tabs of one browser, and one tab in each of two browsers.
OneBrowser == [t \in Tabs |-> b1]
TwoBrowsers == [t \in Tabs |-> IF t = t1 THEN b1 ELSE b2]
OneHost == [b \in Browsers |-> h1]
TwoHosts == [b \in Browsers |-> IF b = b1 THEN h1 ELSE h2]

Minted == Permutations(Sids)
===============================================================================
