---------------------------- MODULE MCChangeFeed ----------------------------
(***************************************************************************)
(* A small instance of ChangeFeed.                                         *)
(***************************************************************************)
EXTENDS ChangeFeed

CONSTANTS c1, s1, s2   \* named so that the configuration can assign them

\* One client, whose namespace filter lets one of the scopes through.
MCWanted == [c \in {c1} |-> {s1}]
=============================================================================
