------------------------------- MODULE Social -------------------------------
(***************************************************************************)
(* The Node service without its rooms: one handler of http/api.ts or       *)
(* http/legacy.ts at a time, or one tick of the housekeeping timer of      *)
(* server.ts, over one database.  The kinds of request that one behaviour  *)
(* sees are its menu.                                                      *)
(***************************************************************************)
EXTENDS Cups

CONSTANT Menus   \* bound: sets of kinds of request

VARIABLE menu

vars == <<day, pilotVars, squadVars, cupVars, menu>>

TypeOK == PilotsTypeOK /\ SquadsTypeOK /\ CupsTypeOK /\ menu \in Menus

\* nobody yet, everybody, or two
Init == /\ PilotsInit /\ SquadsInit /\ CupsInit /\ menu \in Menus
        /\ Cardinality(born) = IF "guests" \in menu THEN 0 ELSE IF "crowd" \in menu THEN Cardinality(Ids) ELSE 2

Plays(k) == k \in menu

People ==
    \/ Plays("guests") /\ ((\E d \in Devices : CreateGuest(d)) \/ (\E p \in born, a \in Accounts : Upgrade(p, a))
                           \/ (\E p, q \in born : MergeDevice(p, q)))
    \/ Plays("friends") /\ (Befriend \/ (\E q \in born : ListPending(q)) \/ (\E p \in born : UpdatePrivacy(p)))
    \/ Plays("moderation") /\ (Moderate \/ (\E p \in born : Look(p)))
    \/ Plays("cases") /\ (Flag \/ Resolve)

Clubs == /\ \/ Plays("squads") /\ (Found \/ Socialise)
            \/ Plays("clubs") /\ \E p \in born : Create(p, "public") \/ \E s \in DOMAIN squads : Join(p, s)
            \/ Plays("roles") /\ Govern
            \/ Plays("goals") /\ Aim
         /\ founded' <= (IF Plays("two") THEN MaxSquads ELSE 1)    \* bound

NewDay == Plays("days") /\ day < MaxDay /\ day' = day + 1 /\ UNCHANGED <<pilotVars, squadVars, cupVars>>

pilotsOnly == <<day, born, guestLinks, platformLinks, blocks, friendships, requests, cases>>

Next ==
    /\ UNCHANGED menu
    /\ \/ People /\ UNCHANGED <<squadVars, cupVars>>
       \/ Clubs /\ UNCHANGED <<pilotsOnly, cupVars>>
       \/ Plays("scores") /\ Post
       \/ Plays("rollback") /\ RollBack /\ UNCHANGED <<day, pilotVars, squadVars>>
       \/ Plays("cups") /\ Organise /\ UNCHANGED <<pilotsOnly, squadVars, scores, index>>
       \/ Plays("cups") /\ Compete /\ UNCHANGED <<pilotsOnly, squadVars, scores, season>>
       \/ NewDay

Spec == Init /\ [][Next]_vars
=============================================================================
