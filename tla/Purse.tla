------------------------------- MODULE Purse -------------------------------
(***************************************************************************)
(* What the player owns, and the save it lives in: SaveData.ts holds one   *)
(* record in memory and writes the whole of it to storage at every persist *)
(* of a handler; Game.ts claims gifts, prizes and quests against it, sells *)
(* things for coins, and reads it back at the next boot.                   *)
(*                                                                         *)
(* A write may be refused (a full or partitioned store), the stored text   *)
(* may be damaged, the page may be reloaded between any two handlers, a    *)
(* save code may be taken and put back later.  Amounts are left out: a save *)
(* keeps which claims it was paid for, and any price can be paid.           *)
(***************************************************************************)
EXTENDS Naturals, Sequences, FiniteSetsExt

CONSTANTS
    MaxDay,       \* bound: days played
    WeekDays,     \* days of a week; a month is as long here
    VipDays,      \* VIP_DAYS
    NestCap,      \* nest levels that coins can buy
    PrestigeNeed, \* nest levels a rebirth asks for
    MissionDefs,  \* MISSION_DEFS.length
    MaxKinds,     \* bound: kinds of handler the player of one behaviour uses
    MaxRefusals,  \* bound: writes that storage refuses
    MaxClaims     \* bound: rewards a save is paid by its handlers

VARIABLES
    day,      \* the calendar day
    mem,      \* SaveData.state
    disk,     \* the save in storage
    damaged,  \* the stored text no longer matches its checksum
    code,     \* save codes the player keeps
    cups,     \* the Tournaments object: its week, and whether it still holds the save's record
    vip,      \* VIP bought on the server, asked for, and granted from there
    refused,  \* writes that were refused
    menu      \* the kinds of handler this player uses

vars == <<day, mem, disk, damaged, code, cups, vip, refused, menu>>

Daily  == {"streak", "vipgift", "calendar", "wheel", "stipend", "squad", "quest", "daily"}
Weekly == {"gauntlet", "cup", "season", "rank", "pass"}
Once   == {"campaign", "starter", "bundle", "promo", "referral", "collection"}
Claims == Daily \cup Weekly \cup Once
Kinds  == (Claims \ {"streak", "vipgift", "cup", "season", "daily", "gauntlet", "starter"})
          \cup {"cup", "shop", "starter", "vault", "vip", "server", "nest", "trails", "refusals", "damage", "codes", "reset"}
Goods  == {"crate", "gold", "starter", "skin", "trail", "upgrade"}

ASSUME PurseAssumption ==
    /\ MaxDay \in Nat \ {0} /\ WeekDays \in Nat \ {0} /\ VipDays \in Nat \ {0}
    /\ NestCap \in Nat /\ PrestigeNeed \in Nat \ {0} /\ MissionDefs \in Nat
    /\ MaxKinds \in Nat /\ MaxRefusals \in Nat /\ MaxClaims \in Nat

Week(d) == 1 + (d - 1) \div WeekDays

\* the date a claim is stamped with: the day, the week (or month), or just "done"
Stamp(c, d) == CASE c \in Daily -> d
                 [] c \in Weekly -> Week(d)
                 [] OTHER -> 1

Saves == [piggy : 0..1, vipUntil : Nat,
          marks : [Claims -> Nat],        \* the stamp of the last claim
          owned : SUBSET Goods, bought : SUBSET Goods,
          nestBought : 0..NestCap, missions : 0..MissionDefs, nestLevel : Nat, prestige : Nat,
          paid : SUBSET (Claims \X Nat),  \* what was paid into this save, and whether any of it twice
          twice : SUBSET Claims]

TypeOK ==
    /\ day \in 1..MaxDay /\ mem \in Saves /\ disk \in Saves /\ damaged \in BOOLEAN
    /\ code \subseteq Saves
    /\ cups \in [own : BOOLEAN, mark : Nat, week : Nat]
    /\ vip \in [sold : 0..1, asked : BOOLEAN, restored : Nat]
    /\ refused \in 0..MaxRefusals /\ menu \subseteq Kinds

Fresh == [piggy |-> 0, vipUntil |-> 0, marks |-> [c \in Claims |-> 0],
          owned |-> {}, bought |-> {}, nestBought |-> 0, missions |-> 0, nestLevel |-> 0,
          prestige |-> 0, paid |-> {}, twice |-> {}]

-----------------------------------------------------------------------------
(* What handlers do to a save.                                             *)

Mark(s, c, p) == [s EXCEPT !.marks[c] = p]

\* addCoins, for the claim c of the stamp p
Pay(s, c, p) == [s EXCEPT !.paid = s.paid \cup {<<c, p>>},
                          !.twice = IF <<c, p>> \in s.paid THEN s.twice \cup {c} ELSE s.twice]

\* spend, for the thing i
Spend(s, i) == [s EXCEPT !.bought = s.bought \cup {i}]

Own(s, i) == [s EXCEPT !.owned = s.owned \cup {i}]

VipActive(s, d) == s.vipUntil > d

\* (mutant) the gift's day is stamped before the subscription is looked at
VipGiftStampedFirst(s, d) ==
    IF s.marks["vipgift"] = d THEN s
    ELSE IF VipActive(s, d) THEN Pay(Mark(s, "vipgift", d), "vipgift", d) ELSE Mark(s, "vipgift", d)

\* claimVipDaily
VipGift(s, d) == IF VipActive(s, d) /\ s.marks["vipgift"] # d
                 THEN Pay(Mark(s, "vipgift", d), "vipgift", d) ELSE s

\* grantVip: a month from now, or from the end of the month that is running
GrantVip(s, d) == [s EXCEPT !.vipUntil = (IF VipActive(s, d) THEN s.vipUntil ELSE d) + VipDays]

\* touchStreak, and the reward for the day
Streak(s, d) == IF s.marks["streak"] = d THEN s ELSE Pay(Mark(s, "streak", d), "streak", d)

\* ensureRankSeason: the season that is over is rewarded
RankSeason(s, d) ==
    IF s.marks["season"] = Week(d) THEN s
    ELSE Pay(Mark(s, "season", Week(d)), "season", Week(d))

Plays(k) == k \in menu    \* bound

\* persistNow of each save of a handler, in order: the last one that is taken stays
Persist(saves) ==
    \/ disk' = saves[Len(saves)] /\ damaged' = FALSE /\ UNCHANGED refused
    \/ /\ Plays("refusals") /\ refused < MaxRefusals /\ refused' = refused + 1
       /\ \/ UNCHANGED <<disk, damaged>>
          \/ \E i \in 1..(Len(saves) - 1) : disk' = saves[i] /\ damaged' = FALSE

Calm == UNCHANGED <<day, code, cups, vip, menu>>

\* (mutant) the nest level is bought in memory and never saved
BuyNestUnsaved ==
    /\ Plays("nest") /\ mem.nestBought < NestCap
    /\ mem' = [mem EXCEPT !.nestBought = @ + 1, !.nestLevel = mem.missions + mem.nestBought + 1]
    /\ Persist(<<mem>>) /\ Calm

\* a handler that leaves in memory what it wrote last
Do(saves) == /\ mem' = saves[Len(saves)] /\ Persist(saves)
             /\ Cardinality({x \in mem'.paid : x[1] \notin {"streak", "season", "vipgift"}}) <= MaxClaims

\* load: what storage holds, or a fresh save when its checksum is wrong
Loaded == IF damaged THEN Fresh ELSE disk

\* boot: the week's cups, and the season (a fresh save starts in this one)
BootSeason(s, d) ==
    LET a == IF s.marks["cup"] = Week(d) THEN s ELSE Mark(s, "cup", 0)
    IN  IF s = Fresh THEN Mark(a, "season", Week(d)) ELSE RankSeason(a, d)

\* boot: the streak and the VIP gift of the day
Booted(s, d) ==
    LET b == BootSeason(s, d)
        e == Streak(b, d)
    IN  <<b, e, VipGift(e, d)>>

Init ==
    /\ day = 1 /\ damaged = FALSE /\ code = {} /\ refused = 0
    /\ mem = Booted(Fresh, 1)[3] /\ disk = mem /\ menu \in kSubset(MaxKinds, Kinds)
    /\ cups = [own |-> TRUE, mark |-> 0, week |-> 1]
    /\ vip = [sold |-> 0, asked |-> FALSE, restored |-> 0]

-----------------------------------------------------------------------------
(* Claims.                                                                 *)

\* (mutant) the coins are saved before the claim is stamped
PayThenMark(c) ==
    LET p == Stamp(c, day)
        a == Pay(mem, c, p)
    IN  /\ Plays(c) /\ mem.marks[c] # p
        /\ Do(<<a, Mark(a, c, p)>>) /\ Calm

\* the claim is stamped and saved, then paid and saved
MarkThenPay(c) ==
    LET p == Stamp(c, day)
        a == Mark(mem, c, p)
    IN  /\ Plays(c) /\ mem.marks[c] # p
        /\ Do(<<a, Pay(a, c, p)>>) /\ Calm

\* the claim is stamped and paid, and saved once
PayAtOnce(c) ==
    LET p == Stamp(c, day)
    IN  /\ Plays(c) /\ mem.marks[c] # p
        /\ Do(<<Pay(Mark(mem, c, p), c, p)>>) /\ Calm

ClaimCalendar   == MarkThenPay("calendar")
ClaimRankPrize  == MarkThenPay("rank")
ClaimCampaign   == MarkThenPay("campaign")
RedeemReferral  == MarkThenPay("referral")
ClaimSquadQuest == PayAtOnce("squad")
ClaimPass       == PayAtOnce("pass")

\* the stipend: the coins are saved, the date is stamped in memory only
ClaimStipend ==
    /\ Plays("stipend") /\ mem.marks["stipend"] # day
    /\ LET a == Pay(mem, "stipend", day)
       IN  mem' = Mark(a, "stipend", day) /\ Persist(<<a>>)
    /\ Calm

\* a promo code: coins, Gold, or VIP with the gift of the day
Redeem ==
    /\ Plays("promo") /\ mem.marks["promo"] = 0
    /\ LET a == Mark(mem, "promo", 1)
           b == GrantVip(a, day)
       IN  \/ Do(<<a, Pay(a, "promo", 1)>>)
           \/ Do(<<a, Own(a, "gold")>>)
           \/ Do(<<a, b, VipGift(b, day)>>)
    /\ Calm

\* the crate: paid for, noted, opened
BuyBundle ==
    /\ Plays("bundle") /\ mem.marks["bundle"] = 0
    /\ LET a == Spend(mem, "crate")
           b == Mark(a, "bundle", 1)
           e == Own(Own(b, "trail"), "crate")
       IN  Do(<<a, b, e, Pay(e, "bundle", 1)>>)
    /\ Calm

\* what a vault holds, after its price was saved
Vault(s) == {s, Own(s, "skin"), Own(s, "trail")}

BuyVault == Plays("vault") /\ (\E v \in Vault(mem) : Do(<<mem, v>>)) /\ Calm

\* the wheel: coins, a boost, or what a vault holds
SpinWheel ==
    /\ Plays("wheel") /\ mem.marks["wheel"] # day
    /\ LET a == Mark(mem, "wheel", day)
       IN  \E v \in Vault(Pay(a, "wheel", day)) : Do(<<a, v>>)
    /\ Calm

\* Tournaments.claim, applyPrize: the object notes the claim in the record it was
\* given at boot, for the week of the boot
ClaimCup ==
    /\ Plays("cup")
    /\ (IF cups.own THEN mem.marks["cup"] ELSE cups.mark) # cups.week
    /\ LET a == IF cups.own THEN Mark(mem, "cup", cups.week) ELSE mem
       IN  Do(<<Pay(a, "cup", cups.week)>>)
    /\ cups' = IF cups.own THEN cups ELSE [cups EXCEPT !.mark = cups.week]
    /\ UNCHANGED <<day, code, vip, menu>>

-----------------------------------------------------------------------------
(* The shop.                                                               *)

\* the price is saved, then the thing
Buy(k, i) ==
    /\ Plays(k) /\ i \notin mem.owned
    /\ LET a == Spend(mem, i)
       IN  Do(<<a, Own(a, i)>>)
    /\ Calm

BuySkin     == Buy("shop", "skin")
BuyBoost    == Buy("trails", "upgrade")
BuyTrail    == Buy("trails", "trail")
BuyCoinGold == Buy("shop", "gold")

\* buyCoinStarter, grantStarter
BuyStarter ==
    /\ Plays("starter") /\ "starter" \notin mem.owned
    /\ LET a == Spend(mem, "starter")
           b == Pay(Mark(Own(a, "starter"), "starter", 1), "starter", 1)
       IN  Do(<<a, b, Own(b, "trail")>>)
    /\ Calm

BuyPortalVip ==
    /\ Plays("vip")
    /\ LET b == GrantVip(mem, day)
       IN  b.vipUntil <= MaxDay + VipDays /\ Do(<<mem, b, VipGift(b, day)>>)
    /\ Calm

\* the portal sells a month of VIP to the device
ServerSells == Plays("server") /\ vip.sold = 0 /\ vip' = [vip EXCEPT !.sold = 1]
               /\ UNCHANGED <<day, mem, disk, damaged, code, cups, refused, menu>>

\* restore, syncServerEntitlements: ask, and grant what is missing when the answer comes
Restore == Plays("server") /\ ~vip.asked /\ vip' = [vip EXCEPT !.asked = TRUE]
           /\ UNCHANGED <<day, mem, disk, damaged, code, cups, refused, menu>>

Restored ==
    /\ vip.asked
    /\ IF vip.sold > 0 /\ ~VipActive(mem, day) /\ vip.restored <= MaxClaims
       THEN LET b == GrantVip(mem, day)
            IN  /\ Do(<<b, VipGift(b, day)>>)
                /\ vip' = [vip EXCEPT !.asked = FALSE, !.restored = @ + 1]
       ELSE /\ vip' = [vip EXCEPT !.asked = FALSE]
            /\ UNCHANGED <<mem, disk, damaged, refused>>
    /\ UNCHANGED <<day, code, cups, menu>>

-----------------------------------------------------------------------------
(* Flights, the nest, and the piggy bank.                                  *)

CompleteMission(s) == [s EXCEPT !.missions = s.missions + 1, !.nestLevel = s.missions + 1 + s.nestBought]

\* finishRun: missions, then a quest, then the challenge flown, then the run itself
BankRun ==
    /\ Plays("quest")
    /\ \E m, q \in BOOLEAN, c \in {"daily", "gauntlet", "none"} :
         /\ m => mem.missions < MissionDefs
         /\ LET New(x) == x # "none" /\ mem.marks[x] # Stamp(x, day)
                Noted(s, x) == IF New(x) THEN Mark(s, x, Stamp(x, day)) ELSE s
                Paid(s, x) == IF New(x) THEN Pay(s, x, Stamp(x, day)) ELSE s
                quest == IF q THEN "quest" ELSE "none"
                a  == IF m THEN CompleteMission(mem) ELSE mem
                qn == Noted(a, quest)
                qp == Paid(qn, quest)
                cn == Noted(qp, c)
                cp == Paid(cn, c)
                r  == [cp EXCEPT !.piggy = 1]
            IN  Do(<<a, qn, qp, cn, cp, r>>)
    /\ Calm

\* checkPrizeSkins: a collection that is complete pays once
CollectionBonus == /\ {"skin", "gold"} \subseteq mem.owned
                   /\ PayAtOnce("collection")

SmashPiggyBank == /\ Plays("quest") /\ mem.piggy > 0
                  /\ Do(<<[mem EXCEPT !.piggy = 0]>>) /\ Calm

BuyNestUpgrade ==
    /\ Plays("nest") /\ mem.nestBought < NestCap
    /\ Do(<<mem, [mem EXCEPT !.nestBought = @ + 1, !.nestLevel = mem.missions + mem.nestBought + 1]>>)
    /\ Calm

\* performPrestige: the bought levels go
PerformPrestige ==
    /\ Plays("nest")
    /\ mem.nestBought >= PrestigeNeed \/ mem.nestLevel >= PrestigeNeed
    /\ mem.prestige < 1    \* bound
    /\ Do(<<[mem EXCEPT !.nestBought = 0, !.nestLevel = mem.missions, !.prestige = @ + 1]>>)
    /\ Calm

-----------------------------------------------------------------------------
(* Days, reloads, damage and save codes.                                   *)

\* dayTick: midnight with the page open
NewDay ==
    /\ day < MaxDay /\ day' = day + 1
    /\ LET a == Streak(mem, day + 1)
           b == VipGift(a, day + 1)
       IN  Do(<<a, b, RankSeason(b, day + 1)>>)
    /\ UNCHANGED <<code, cups, vip, menu>>

\* the page is closed and opened again, the same day or the next: load, then the boot
Reload ==
    \E d \in {day, day + 1} :
      /\ d <= MaxDay /\ day' = d
      /\ LET boot == Booted(Loaded, d)
         IN  Do(boot)
      /\ cups' = [own |-> TRUE, mark |-> 0, week |-> Week(d)]
      /\ vip' = [vip EXCEPT !.asked = FALSE]
      /\ UNCHANGED <<code, menu>>

\* the stored text is damaged: its checksum will tell
Damage == Plays("damage") /\ ~damaged /\ damaged' = TRUE
          /\ UNCHANGED <<day, mem, disk, code, cups, vip, refused, menu>>

ExportCode == /\ Plays("codes") /\ code = {} /\ code' = {mem}
              /\ UNCHANGED <<day, mem, disk, damaged, cups, vip, refused, menu>>

\* the Tournaments object keeps the record of the save it was made with
Detached == cups' = IF cups.own THEN [cups EXCEPT !.own = FALSE, !.mark = mem.marks["cup"]] ELSE cups

ImportCode == /\ Plays("codes")
              /\ \E s \in code : mem' = s /\ disk' = s
              /\ damaged' = FALSE /\ Detached /\ UNCHANGED <<day, code, vip, refused, menu>>

ResetProgress == /\ Plays("reset") /\ Do(<<Mark(Fresh, "season", Week(day))>>)
                 /\ Detached /\ UNCHANGED <<day, code, vip, menu>>

Next ==
    \/ ClaimCalendar \/ ClaimRankPrize \/ ClaimCampaign \/ RedeemReferral \/ ClaimSquadQuest
    \/ ClaimPass \/ ClaimStipend \/ Redeem \/ BuyBundle \/ BuyVault \/ SpinWheel \/ ClaimCup
    \/ BuySkin \/ BuyBoost \/ BuyTrail \/ BuyCoinGold \/ BuyStarter \/ BuyPortalVip
    \/ ServerSells \/ Restore \/ Restored
    \/ BankRun \/ CollectionBonus \/ SmashPiggyBank \/ BuyNestUpgrade \/ PerformPrestige
    \/ NewDay \/ Reload \/ Damage \/ ExportCode \/ ImportCode \/ ResetProgress

Spec == Init /\ [][Next]_vars

-----------------------------------------------------------------------------
(* Properties.                                                             *)

\* Every reward once, the stipend and the cups apart (see below): whatever was reloaded, refused, damaged or imported in between, no
\* save holds the coins of one claim twice.  A claim that loses a write is lost, not paid
\* again, because the stamp is saved before the coins or with them.
PaidOnce == \A s \in {mem, disk} : s.twice \subseteq {"stipend", "cup"}

\* Unless storage refused a write, nothing is lost: what is stamped as claimed was paid (or
\* was the boot's own first season), and what was bought is owned.
NothingIsLost ==
    refused = 0 =>
      \A s \in {mem, disk} :
        /\ \A c \in Claims \ {"season", "promo", "cup"} :
             s.marks[c] # 0 => <<c, s.marks[c]>> \in s.paid
        /\ s.bought \subseteq s.owned

\* Unless storage refused a write, a reload at any moment finds the save the player had;
\* only the stipend's stamp is not there.
DiskKeepsUp == refused = 0 /\ ~damaged =>
                 mem = [disk EXCEPT !.marks["stipend"] = mem.marks["stipend"]]

\* The stipend once a day: "the daily stipend could be re-claimed after each page load" is
\* the bug load() says it ended.
StipendOnce == "stipend" \notin mem.twice

\* Cups pay their tier once, also after an import or a reset.
CupsOnce == "cup" \notin mem.twice

\* A month of VIP that was sold once is granted once.
MonthsAreSold == vip.restored <= vip.sold

\* A rebirth costs nest levels.
PrestigeCosts == [][mem'.prestige > mem.prestige => mem'.nestLevel < mem.nestLevel]_vars

\* What was paid for is owned although storage refuses writes.
PaidForIsOwned == \A s \in {mem, disk} : s.bought \subseteq s.owned
=============================================================================
