---------------------------- MODULE Institutions ----------------------------
(***************************************************************************)
(* The families, councils, guilds and factions of a world, which share     *)
(* nothing but the people: their specifications hold side by side.         *)
(***************************************************************************)
EXTENDS Estates, Council, Guilds, Factions

\* No step forgets an institution that somebody alive belongs to, under the
\* eviction rule that families and factions share, and the factions stay within
\* their cap.
KeepsTheLiving ==
  [][FamiliesKeepTheLiving]_estatesVars /\ [][FactionsStayBounded]_factionsVars
=============================================================================
