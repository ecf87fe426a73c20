----------------------------- MODULE PurseProofs -----------------------------
(***************************************************************************)
(* Proofs about the player's save: no claim but the stipend and the cups   *)
(* is paid twice into a save, for any number of days, reloads, refused     *)
(* writes and save codes; and nothing is lost unless a write was refused.  *)
(***************************************************************************)
EXTENDS Purse, TLAPS

\* The claims whose stamp is written into the save that is paid.
Tracked == Claims \ {"stipend", "cup"}

\* No save is stamped for a day to come, and what it was paid is stamped.
PaidRight(s, d) ==
    /\ s \in Saves
    /\ \A c \in Tracked : s.marks[c] <= Stamp(c, d)
    /\ \A c \in Tracked, p \in Nat : <<c, p>> \in s.paid => p <= s.marks[c]
    /\ s.twice \subseteq {"stipend", "cup"}
    /\ \A p \in Nat : <<"starter", p>> \in s.paid => "starter" \in s.owned

\* What a save is stamped with was paid into it, and what it bought is owned.
Kept(s) ==
    /\ \A c \in Claims \ {"season", "promo", "cup"} :
         s.marks[c] # 0 => <<c, s.marks[c]>> \in s.paid
    /\ s.bought \subseteq s.owned

CupsObjects == [own : BOOLEAN, mark : Nat, week : Nat]

\* Every save there is, in memory, in storage or in a save code, is right, and as long as
\* no write was refused it keeps what it was stamped with.
PurseInv ==
    /\ day \in Nat \ {0} /\ refused \in Nat /\ cups \in CupsObjects
    /\ \A s \in {mem, disk} \cup code : PaidRight(s, day) /\ (refused = 0 => Kept(s))

-----------------------------------------------------------------------------
(* Days and stamps                                                         *)

\* Weeks begin at 1 and follow the days.
LEMMA Weeks ==
  ASSUME NEW d \in Nat \ {0}, NEW e \in Nat, d <= e
  PROVE  Week(d) \in Nat \ {0} /\ Week(d) <= Week(e)
<1>. DEFINE W == WeekDays
            a == d - 1
            b == e - 1
            q == a \div W
            r == b \div W
<1>1. W \in Nat \ {0} /\ a \in Nat /\ b \in Nat /\ a <= b
  BY PurseAssumption
<1>2. Week(d) = 1 + q /\ Week(e) = 1 + r
  BY DEF Week
<1>. HIDE DEF W, a, b
<1>3. q \in Int /\ r \in Int
  BY <1>1
<1>4. q >= 0 /\ W * q <= a /\ b < W * r + W
  BY <1>1
<1>. HIDE DEF q, r
<1>5. q <= r
  <2>. SUFFICES ASSUME q > r PROVE FALSE
    BY <1>3
  <2>1. r + 1 <= q
    BY <1>3
  <2>2. W * (r + 1) <= W * q
    BY <1>1, <1>3, <2>1
  <2>3. W * (r + 1) = W * r + W
    BY <1>1, <1>3
  <2>. QED  BY <1>1, <1>3, <1>4, <2>2, <2>3
<1>. QED  BY <1>2, <1>3, <1>4, <1>5

\* A stamp is no earlier than the last one.
LEMMA Stamps ==
  ASSUME NEW d \in Nat \ {0}, NEW e \in Nat, d <= e, NEW c \in Claims
  PROVE  Stamp(c, d) \in Nat \ {0} /\ Stamp(c, d) <= Stamp(c, e)
  BY Weeks DEF Stamp

\* A save that is right stays right as the days go by.
LEMMA DaysPass ==
  ASSUME NEW d \in Nat \ {0}, NEW e \in Nat, d <= e, NEW s, PaidRight(s, d)
  PROVE  PaidRight(s, e)
<1>1. ASSUME NEW c \in Tracked PROVE s.marks[c] <= Stamp(c, e)
  <2>1. c \in Claims /\ s.marks[c] \in Nat /\ s.marks[c] <= Stamp(c, d)
    BY DEF PaidRight, Tracked, Saves
  <2>2. Stamp(c, d) \in Nat /\ Stamp(c, e) \in Nat /\ Stamp(c, d) <= Stamp(c, e)
    BY <2>1, Stamps
  <2>. QED  BY <2>1, <2>2
<1>. QED  BY <1>1 DEF PaidRight
-----------------------------------------------------------------------------
(* What handlers do to a save                                              *)

\* Mark writes one stamp.
LEMMA MarkSave ==
  ASSUME NEW s \in Saves, NEW c \in Claims, NEW p \in Nat
  PROVE  /\ Mark(s, c, p) \in Saves
         /\ Mark(s, c, p).marks = [s.marks EXCEPT ![c] = p]
         /\ Mark(s, c, p).paid = s.paid /\ Mark(s, c, p).twice = s.twice
         /\ Mark(s, c, p).owned = s.owned /\ Mark(s, c, p).bought = s.bought
<1>. DEFINE m == [s.marks EXCEPT ![c] = p]
            y == [s EXCEPT !.marks = m]
<1>1. m \in [Claims -> Nat]
  BY DEF Saves
<1>2. Mark(s, c, p) = y
  BY DEF Mark
<1>. HIDE DEF m
<1>3. y \in Saves
  BY <1>1 DEF Saves
<1>4. /\ y.marks = m /\ y.paid = s.paid /\ y.twice = s.twice
      /\ y.owned = s.owned /\ y.bought = s.bought
  BY DEF Saves
<1>. QED  BY <1>2, <1>3, <1>4 DEF m

\* Pay notes one payment, and whether it was there.
LEMMA PaySave ==
  ASSUME NEW s \in Saves, NEW c \in Claims, NEW p \in Nat
  PROVE  /\ Pay(s, c, p) \in Saves
         /\ Pay(s, c, p).paid = s.paid \cup {<<c, p>>}
         /\ Pay(s, c, p).twice = IF <<c, p>> \in s.paid THEN s.twice \cup {c} ELSE s.twice
         /\ Pay(s, c, p).marks = s.marks
         /\ Pay(s, c, p).owned = s.owned /\ Pay(s, c, p).bought = s.bought
<1>. DEFINE q == s.paid \cup {<<c, p>>}
            t == IF <<c, p>> \in s.paid THEN s.twice \cup {c} ELSE s.twice
            y == [s EXCEPT !.paid = q, !.twice = t]
<1>1. q \in SUBSET (Claims \X Nat)
  <2>1. s.paid \in SUBSET (Claims \X Nat)
    BY DEF Saves
  <2>. QED  BY <2>1
<1>2. t \in SUBSET Claims
  <2>1. s.twice \in SUBSET Claims
    BY DEF Saves
  <2>. QED  BY <2>1
<1>3. Pay(s, c, p) = y
  BY DEF Pay
<1>. HIDE DEF q, t
<1>4. y \in Saves
  BY <1>1, <1>2 DEF Saves
<1>5. /\ y.paid = q /\ y.twice = t /\ y.marks = s.marks
      /\ y.owned = s.owned /\ y.bought = s.bought
  BY DEF Saves
<1>. QED  BY <1>3, <1>4, <1>5 DEF q, t

\* Nothing but what is owned, bought or flown differs.
Beside(y, s) == y \in Saves /\ y.marks = s.marks /\ y.paid = s.paid /\ y.twice = s.twice
                /\ s.owned \subseteq y.owned

\* Own, Spend, GrantVip and CompleteMission leave stamps and payments alone.
LEMMA BesideSave ==
  ASSUME NEW s \in Saves, NEW i \in Goods
  PROVE  /\ Beside(Own(s, i), s)
         /\ Own(s, i).owned = s.owned \cup {i} /\ Own(s, i).bought = s.bought
         /\ Beside(Spend(s, i), s)
         /\ Spend(s, i).owned = s.owned /\ Spend(s, i).bought = s.bought \cup {i}
<1>. DEFINE o == s.owned \cup {i}
            b == s.bought \cup {i}
            y == [s EXCEPT !.owned = o]
            z == [s EXCEPT !.bought = b]
<1>1. o \in SUBSET Goods /\ b \in SUBSET Goods /\ s.owned \subseteq o
  <2>1. s.owned \in SUBSET Goods /\ s.bought \in SUBSET Goods
    BY DEF Saves
  <2>. QED  BY <2>1
<1>2. Own(s, i) = y /\ Spend(s, i) = z
  BY DEF Own, Spend
<1>. HIDE DEF o, b
<1>3. y \in Saves
  BY <1>1 DEF Saves
<1>4. z \in Saves
  BY <1>1 DEF Saves
<1>5. /\ y.marks = s.marks /\ y.paid = s.paid /\ y.twice = s.twice
      /\ y.owned = o /\ y.bought = s.bought
  BY DEF Saves
<1>6. /\ z.marks = s.marks /\ z.paid = s.paid /\ z.twice = s.twice
      /\ z.owned = s.owned /\ z.bought = b
  BY DEF Saves
<1>. HIDE DEF y, z
<1>. QED  BY <1>1, <1>2, <1>3, <1>4, <1>5, <1>6 DEF o, b, Beside

\* grantVip
LEMMA GrantVipSave ==
  ASSUME NEW s \in Saves, NEW d \in Nat
  PROVE  /\ Beside(GrantVip(s, d), s)
         /\ GrantVip(s, d).owned = s.owned /\ GrantVip(s, d).bought = s.bought
<1>. DEFINE v == (IF VipActive(s, d) THEN s.vipUntil ELSE d) + VipDays
            y == [s EXCEPT !.vipUntil = v]
<1>1. v \in Nat
  <2>1. s.vipUntil \in Nat /\ VipDays \in Nat
    BY PurseAssumption DEF Saves
  <2>. QED  BY <2>1
<1>2. GrantVip(s, d) = y
  BY DEF GrantVip
<1>. HIDE DEF v
<1>3. y \in Saves
  BY <1>1 DEF Saves
<1>4. /\ y.marks = s.marks /\ y.paid = s.paid /\ y.twice = s.twice
      /\ y.owned = s.owned /\ y.bought = s.bought
  BY DEF Saves
<1>. QED  BY <1>2, <1>3, <1>4 DEF Beside

\* What is beside a save that is right is right.
LEMMA BesideRight ==
  ASSUME NEW s, NEW d, PaidRight(s, d), NEW y, Beside(y, s)
  PROVE  PaidRight(y, d)
  BY DEF PaidRight, Beside

\* What is beside a save that kept everything keeps everything, if it owns what it bought.
LEMMA BesideKept ==
  ASSUME NEW s, Kept(s), NEW y, Beside(y, s), y.bought \subseteq y.owned
  PROVE  Kept(y)
  BY DEF Kept, Beside

\* A later stamp, not of a day to come, is right.
LEMMA MarkRight ==
  ASSUME NEW s, NEW d, PaidRight(s, d), NEW c \in Claims, NEW p \in Nat,
         c \in Tracked => s.marks[c] <= p /\ p <= Stamp(c, d)
  PROVE  PaidRight(Mark(s, c, p), d)
<1>. DEFINE y == Mark(s, c, p)
<1>1. /\ s \in Saves /\ s.marks \in [Claims -> Nat]
      /\ y \in Saves /\ y.marks = [s.marks EXCEPT ![c] = p]
      /\ y.paid = s.paid /\ y.twice = s.twice /\ y.owned = s.owned
  BY MarkSave DEF PaidRight, Saves
<1>. HIDE DEF y
<1>2. ASSUME NEW b \in Tracked
      PROVE  y.marks[b] <= Stamp(b, d) /\ \A q \in Nat : <<b, q>> \in y.paid => q <= y.marks[b]
  <2>0. b \in Claims /\ s.marks[b] \in Nat
    BY <1>1 DEF Tracked
  <2>1. CASE b = c
    <3>1. y.marks[b] = p /\ s.marks[b] <= p /\ p <= Stamp(b, d)
      BY <1>1, <2>0, <2>1
    <3>2. ASSUME NEW q \in Nat, <<b, q>> \in y.paid PROVE q <= y.marks[b]
      <4>1. q <= s.marks[b]
        BY <1>1, <3>2 DEF PaidRight
      <4>. QED  BY <2>0, <3>1, <4>1
    <3>. QED  BY <3>1, <3>2
  <2>2. CASE b # c
    <3>1. y.marks[b] = s.marks[b]
      BY <1>1, <2>0, <2>2
    <3>. QED  BY <1>1, <3>1 DEF PaidRight
  <2>. QED  BY <2>1, <2>2
<1>3. y.twice \subseteq {"stipend", "cup"} /\ \A q \in Nat : <<"starter", q>> \in y.paid => "starter" \in y.owned
  BY <1>1 DEF PaidRight
<1>4. PaidRight(y, d)
  BY <1>1, <1>2, <1>3 DEF PaidRight
<1>. QED  BY <1>4 DEF y

\* A payment that is stamped and was not made yet is right.
LEMMA PayRight ==
  ASSUME NEW s, NEW d, PaidRight(s, d), NEW c \in Claims, NEW p \in Nat,
         c \in Tracked => p <= s.marks[c] /\ <<c, p>> \notin s.paid,
         c = "starter" => "starter" \in s.owned
  PROVE  PaidRight(Pay(s, c, p), d)
<1>. DEFINE y == Pay(s, c, p)
<1>1. /\ s \in Saves /\ y \in Saves /\ y.marks = s.marks /\ y.owned = s.owned
      /\ y.paid = s.paid \cup {<<c, p>>}
      /\ y.twice = IF <<c, p>> \in s.paid THEN s.twice \cup {c} ELSE s.twice
  BY PaySave DEF PaidRight
<1>. HIDE DEF y
<1>2. ASSUME NEW b \in Tracked, NEW q \in Nat, <<b, q>> \in y.paid PROVE q <= y.marks[b]
  <2>1. CASE <<b, q>> = <<c, p>>
    BY <1>1, <2>1
  <2>2. CASE <<b, q>> # <<c, p>>
    BY <1>1, <1>2, <2>2 DEF PaidRight
  <2>. QED  BY <2>1, <2>2
<1>3. y.twice \subseteq {"stipend", "cup"}
  <2>1. s.twice \subseteq {"stipend", "cup"}
    BY DEF PaidRight
  <2>2. CASE c \in Tracked
    BY <1>1, <2>1, <2>2
  <2>3. CASE c \notin Tracked
    BY <1>1, <2>1, <2>3 DEF Tracked
  <2>. QED  BY <2>2, <2>3
<1>4. ASSUME NEW q \in Nat, <<"starter", q>> \in y.paid PROVE "starter" \in y.owned
  <2>1. CASE <<"starter", q>> = <<c, p>>
    BY <1>1, <2>1
  <2>2. CASE <<"starter", q>> # <<c, p>>
    BY <1>1, <1>4, <2>2 DEF PaidRight
  <2>. QED  BY <2>1, <2>2
<1>5. PaidRight(y, d)
  BY <1>1, <1>2, <1>3, <1>4 DEF PaidRight
<1>. QED  BY <1>5 DEF y

\* What is stamped and paid is kept.
LEMMA ClaimKept ==
  ASSUME NEW s \in Saves, Kept(s), NEW c \in Claims, NEW p \in Nat
  PROVE  Kept(Pay(Mark(s, c, p), c, p))
<1>. DEFINE m == Mark(s, c, p)
            y == Pay(m, c, p)
<1>1. /\ s.marks \in [Claims -> Nat]
      /\ m \in Saves /\ m.marks = [s.marks EXCEPT ![c] = p] /\ m.paid = s.paid
      /\ m.owned = s.owned /\ m.bought = s.bought
  BY MarkSave DEF Saves
<1>1a. m \in Saves
  BY <1>1
<1>. HIDE DEF m
<1>2. /\ y.marks = m.marks /\ y.paid = m.paid \cup {<<c, p>>}
      /\ y.owned = m.owned /\ y.bought = m.bought
  BY ZenonT(40), <1>1a, PaySave
<1>. HIDE DEF y
<1>3. ASSUME NEW b \in Claims \ {"season", "promo", "cup"}, y.marks[b] # 0
      PROVE  <<b, y.marks[b]>> \in y.paid
  <2>1. CASE b = c
    BY <1>1, <1>2, <2>1
  <2>2. CASE b # c
    BY <1>1, <1>2, <1>3, <2>2 DEF Kept
  <2>. QED  BY <2>1, <2>2
<1>4. Kept(y)
  BY <1>1, <1>2, <1>3 DEF Kept
<1>. QED  BY <1>4 DEF y, m

\* The claim of a day that is not stamped yet: stamped it is right, and paid too.
LEMMA ClaimRight ==
  ASSUME NEW d \in Nat \ {0}, NEW s, PaidRight(s, d), NEW c \in Tracked \ {"starter"},
         s.marks[c] # Stamp(c, d)
  PROVE  /\ PaidRight(Mark(s, c, Stamp(c, d)), d)
         /\ PaidRight(Pay(Mark(s, c, Stamp(c, d)), c, Stamp(c, d)), d)
         /\ Kept(s) => Kept(Pay(Mark(s, c, Stamp(c, d)), c, Stamp(c, d)))
<1>. DEFINE p == Stamp(c, d)
            m == Mark(s, c, p)
<1>1. /\ c \in Claims /\ p \in Nat /\ s \in Saves /\ s.marks[c] \in Nat
      /\ s.marks[c] <= p
  BY Stamps DEF Tracked, PaidRight, Saves
<1>2. s.marks[c] # p
  OBVIOUS
<1>. HIDE DEF p
<1>3. PaidRight(m, d)
  BY <1>1, MarkRight DEF p
<1>4. m.marks[c] = p /\ m.paid = s.paid
  <2>1. m.marks = [s.marks EXCEPT ![c] = p] /\ m.paid = s.paid
    BY <1>1, MarkSave
  <2>2. s.marks \in [Claims -> Nat]
    BY <1>1 DEF Saves
  <2>. QED  BY <1>1, <2>1, <2>2
<1>5. <<c, p>> \notin s.paid
  BY <1>1, <1>2 DEF PaidRight
<1>. HIDE DEF m
<1>6. PaidRight(Pay(m, c, p), d)
  BY <1>1, <1>3, <1>4, <1>5, PayRight
<1>7. Kept(s) => Kept(Pay(m, c, p))
  BY <1>1, ClaimKept DEF m
<1>. QED  BY <1>3, <1>6, <1>7 DEF p, m

-----------------------------------------------------------------------------
(* What is written                                                         *)

\* A handler that leaves right saves in memory and storage, the last of them kept.
LEMMA WriteKeeps ==
  ASSUME PurseInv, NEW saves \in Seq(Saves), saves # <<>>, Persist(saves),
         day' \in Nat, day <= day', UNCHANGED code, cups' \in CupsObjects,
         \A i \in 1..Len(saves) : PaidRight(saves[i], day'),
         refused = 0 => Kept(saves[Len(saves)]),
         PaidRight(mem', day'), refused = 0 => Kept(mem')
  PROVE  PurseInv'
<1>1. day \in Nat \ {0} /\ day' \in Nat \ {0} /\ Len(saves) \in Nat \ {0}
  BY DEF PurseInv
<1>2. refused' \in Nat /\ (refused' = 0 => refused = 0)
  BY DEF PurseInv, Persist
<1>3. PaidRight(disk', day') /\ (refused' = 0 => Kept(disk'))
  <2>1. CASE disk' = saves[Len(saves)] /\ UNCHANGED refused
    BY <1>1, <2>1
  <2>2. CASE refused' = refused + 1 /\ UNCHANGED disk
    <3>1. PaidRight(disk, day) /\ refused' # 0
      BY <2>2 DEF PurseInv
    <3>. QED  BY <1>1, <2>2, <3>1, DaysPass
  <2>3. CASE refused' = refused + 1 /\ \E i \in 1..(Len(saves) - 1) : disk' = saves[i]
    <3>1. refused' # 0
      BY <2>3 DEF PurseInv
    <3>. QED  BY <1>1, <2>3, <3>1
  <2>. QED  BY <2>1, <2>2, <2>3 DEF Persist
<1>4. ASSUME NEW s \in code PROVE PaidRight(s, day') /\ (refused' = 0 => Kept(s))
  <2>1. PaidRight(s, day) /\ (refused = 0 => Kept(s))
    BY DEF PurseInv
  <2>. QED  BY <1>1, <1>2, <2>1, DaysPass
<1>. QED  BY <1>1, <1>2, <1>3, <1>4 DEF PurseInv

\* A handler that persists once.
LEMMA Do1Keeps ==
  ASSUME PurseInv, NEW a, Do(<<a>>), day' \in Nat, day <= day', UNCHANGED code,
         cups' \in CupsObjects,
         PaidRight(a, day'), refused = 0 => Kept(a)
  PROVE  PurseInv'
<1>. DEFINE saves == <<a>>
<1>1. /\ saves \in Seq(Saves) /\ saves # <<>> /\ Len(saves) = 1 /\ saves[Len(saves)] = a
      /\ \A i \in 1..Len(saves) : PaidRight(saves[i], day')
  BY DEF PaidRight
<1>2. Persist(saves) /\ mem' = saves[Len(saves)]
  BY DEF Do
<1>. HIDE DEF saves
<1>. QED  BY <1>1, <1>2, WriteKeeps

\* A handler that persists twice.
LEMMA Do2Keeps ==
  ASSUME PurseInv, NEW a, NEW b, Do(<<a, b>>), day' \in Nat, day <= day', UNCHANGED code,
         cups' \in CupsObjects,
         PaidRight(a, day'), PaidRight(b, day'), refused = 0 => Kept(b)
  PROVE  PurseInv'
<1>. DEFINE saves == <<a, b>>
<1>1. /\ saves \in Seq(Saves) /\ saves # <<>> /\ Len(saves) = 2 /\ saves[Len(saves)] = b
      /\ \A i \in 1..Len(saves) : PaidRight(saves[i], day')
  BY DEF PaidRight
<1>2. Persist(saves) /\ mem' = saves[Len(saves)]
  BY DEF Do
<1>. HIDE DEF saves
<1>. QED  BY <1>1, <1>2, WriteKeeps

\* A handler that persists three times.
LEMMA Do3Keeps ==
  ASSUME PurseInv, NEW a, NEW b, NEW c, Do(<<a, b, c>>), day' \in Nat, day <= day', UNCHANGED code,
         cups' \in CupsObjects,
         PaidRight(a, day'), PaidRight(b, day'), PaidRight(c, day'), refused = 0 => Kept(c)
  PROVE  PurseInv'
<1>. DEFINE saves == <<a, b, c>>
<1>1. /\ saves \in Seq(Saves) /\ saves # <<>> /\ Len(saves) = 3 /\ saves[Len(saves)] = c
      /\ \A i \in 1..Len(saves) : PaidRight(saves[i], day')
  BY DEF PaidRight
<1>2. Persist(saves) /\ mem' = saves[Len(saves)]
  BY DEF Do
<1>. HIDE DEF saves
<1>. QED  BY <1>1, <1>2, WriteKeeps

-----------------------------------------------------------------------------
(* Saves that stay right                                                   *)

\* A stamp of a claim that nothing is kept of changes nothing that is kept.
LEMMA MarkKept ==
  ASSUME NEW s \in Saves, Kept(s), NEW c \in {"season", "promo", "cup"}, NEW p \in Nat
  PROVE  Kept(Mark(s, c, p))
<1>. DEFINE y == Mark(s, c, p)
<1>1. /\ y.marks = [s.marks EXCEPT ![c] = p]
      /\ y.paid = s.paid /\ y.owned = s.owned /\ y.bought = s.bought
  <2>1. c \in Claims
    BY DEF Claims, Weekly, Once
  <2>. QED  BY <2>1, MarkSave
<1>. HIDE DEF y
<1>2. ASSUME NEW b \in Claims \ {"season", "promo", "cup"} PROVE y.marks[b] = s.marks[b]
  <2>1. s.marks \in [Claims -> Nat]
    BY DEF Saves
  <2>. QED  BY <1>1, <2>1
<1>3. Kept(y)
  BY <1>1, <1>2 DEF Kept
<1>. QED  BY <1>3 DEF y

\* A payment takes nothing away.
LEMMA PayKept ==
  ASSUME NEW s \in Saves, Kept(s), NEW c \in Claims, NEW p \in Nat
  PROVE  Kept(Pay(s, c, p))
<1>. DEFINE y == Pay(s, c, p)
<1>1. /\ y.marks = s.marks /\ y.paid = s.paid \cup {<<c, p>>}
      /\ y.owned = s.owned /\ y.bought = s.bought
  BY PaySave
<1>. HIDE DEF y
<1>2. Kept(y)
  BY <1>1 DEF Kept
<1>. QED  BY <1>2 DEF y

\* What is owned or paid for beside the claims.
LEMMA OwnRight ==
  ASSUME NEW s, NEW d, PaidRight(s, d), NEW i \in Goods
  PROVE  /\ PaidRight(Own(s, i), d) /\ PaidRight(Spend(s, i), d)
         /\ PaidRight(Own(Spend(s, i), i), d)
         /\ Kept(s) => Kept(Own(s, i)) /\ Kept(Own(Spend(s, i), i))
<1>. DEFINE y == Own(s, i)
            z == Spend(s, i)
            w == Own(z, i)
<1>1. s \in Saves
  BY DEF PaidRight
<1>2. /\ Beside(y, s) /\ y.owned = s.owned \cup {i} /\ y.bought = s.bought
      /\ Beside(z, s) /\ z.owned = s.owned /\ z.bought = s.bought \cup {i}
  BY <1>1, BesideSave
<1>. HIDE DEF y, z
<1>3. Beside(w, z) /\ w.owned = z.owned \cup {i} /\ w.bought = z.bought
  BY <1>2, BesideSave DEF Beside
<1>. HIDE DEF w
<1>4. Beside(w, s)
  BY <1>2, <1>3 DEF Beside
<1>5. PaidRight(y, d) /\ PaidRight(z, d) /\ PaidRight(w, d)
  BY <1>2, <1>4, BesideRight
<1>6. ASSUME Kept(s) PROVE Kept(y) /\ Kept(w)
  <2>1. s.bought \subseteq s.owned
    BY <1>6 DEF Kept
  <2>2. y.bought \subseteq y.owned /\ w.bought \subseteq w.owned
    BY <2>1, <1>2, <1>3
  <2>. QED  BY <1>2, <1>4, <1>6, <2>2, BesideKept
<1>. QED  BY <1>5, <1>6 DEF y, z, w

\* A month of VIP.
LEMMA GrantVipRight ==
  ASSUME NEW s, NEW d \in Nat, PaidRight(s, d)
  PROVE  PaidRight(GrantVip(s, d), d) /\ (Kept(s) => Kept(GrantVip(s, d)))
<1>. DEFINE y == GrantVip(s, d)
<1>1. Beside(y, s) /\ y.owned = s.owned /\ y.bought = s.bought
  BY GrantVipSave DEF PaidRight
<1>. HIDE DEF y
<1>2. PaidRight(y, d)
  BY <1>1, BesideRight
<1>3. ASSUME Kept(s) PROVE Kept(y)
  <2>1. y.bought \subseteq y.owned
    BY <1>1, <1>3 DEF Kept
  <2>. QED  BY <1>1, <1>3, <2>1, BesideKept
<1>. QED  BY <1>2, <1>3 DEF y

\* The gift of the day, the streak's reward and the reward of the season that is over.
LEMMA DailyRight ==
  ASSUME NEW d \in Nat \ {0}, NEW s, PaidRight(s, d)
  PROVE  /\ PaidRight(VipGift(s, d), d) /\ (Kept(s) => Kept(VipGift(s, d)))
         /\ PaidRight(Streak(s, d), d) /\ (Kept(s) => Kept(Streak(s, d)))
         /\ PaidRight(RankSeason(s, d), d) /\ (Kept(s) => Kept(RankSeason(s, d)))
<1>1. /\ {"vipgift", "streak", "season"} \subseteq Tracked \ {"starter"}
      /\ Stamp("vipgift", d) = d /\ Stamp("streak", d) = d /\ Stamp("season", d) = Week(d)
  BY DEF Tracked, Claims, Daily, Weekly, Once, Stamp
<1>2. PaidRight(VipGift(s, d), d) /\ (Kept(s) => Kept(VipGift(s, d)))
  <2>1. CASE VipActive(s, d) /\ s.marks["vipgift"] # d
    <3>1. VipGift(s, d) = Pay(Mark(s, "vipgift", Stamp("vipgift", d)), "vipgift", Stamp("vipgift", d))
      BY <1>1, <2>1 DEF VipGift
    <3>. QED  BY <1>1, <2>1, <3>1, ClaimRight
  <2>2. CASE ~(VipActive(s, d) /\ s.marks["vipgift"] # d)
    BY <2>2 DEF VipGift
  <2>. QED  BY <2>1, <2>2
<1>3. PaidRight(Streak(s, d), d) /\ (Kept(s) => Kept(Streak(s, d)))
  <2>1. CASE s.marks["streak"] # d
    <3>1. Streak(s, d) = Pay(Mark(s, "streak", Stamp("streak", d)), "streak", Stamp("streak", d))
      BY <1>1, <2>1 DEF Streak
    <3>. QED  BY <1>1, <2>1, <3>1, ClaimRight
  <2>2. CASE s.marks["streak"] = d
    BY <2>2 DEF Streak
  <2>. QED  BY <2>1, <2>2
<1>4. PaidRight(RankSeason(s, d), d) /\ (Kept(s) => Kept(RankSeason(s, d)))
  <2>1. CASE s.marks["season"] # Week(d)
    <3>1. RankSeason(s, d) = Pay(Mark(s, "season", Stamp("season", d)), "season", Stamp("season", d))
      BY <1>1, <2>1 DEF RankSeason
    <3>. QED  BY <1>1, <2>1, <3>1, ClaimRight
  <2>2. CASE s.marks["season"] = Week(d)
    BY <2>2 DEF RankSeason
  <2>. QED  BY <2>1, <2>2
<1>. QED  BY <1>2, <1>3, <1>4

\* A fresh save is right on every day.
LEMMA FreshRight ==
  ASSUME NEW d \in Nat \ {0}
  PROVE  /\ Fresh \in Saves /\ Fresh.marks = [c \in Claims |-> 0] /\ Fresh.owned = {}
         /\ PaidRight(Fresh, d) /\ Kept(Fresh)
<1>. DEFINE m == [c \in Claims |-> 0]
<1>1. m \in [Claims -> Nat] /\ {} \in SUBSET (Claims \X Nat) /\ 0 \in 0..1 /\ 0 \in 0..NestCap
      /\ 0 \in 0..MissionDefs
  BY PurseAssumption
<1>2. \A c \in Claims : m[c] = 0
  OBVIOUS
<1>3. Fresh.marks = m /\ Fresh.owned = {} /\ Fresh.bought = {} /\ Fresh.paid = {} /\ Fresh.twice = {}
  BY DEF Fresh
<1>. HIDE DEF m
<1>4. Fresh \in Saves
  BY <1>1, <1>3 DEF Fresh, Saves
<1>5. \A c \in Tracked : Stamp(c, d) \in Nat
  BY Stamps DEF Tracked
<1>6. PaidRight(Fresh, d)
  <2>1. \A c \in Tracked : Fresh.marks[c] = 0
    BY <1>2, <1>3 DEF Tracked
  <2>. QED  BY <1>3, <1>4, <1>5, <2>1 DEF PaidRight
<1>7. Kept(Fresh)
  BY <1>2, <1>3 DEF Kept
<1>. QED  BY <1>3, <1>4, <1>6, <1>7 DEF m

\* What the boot makes of a save, step by step.
LEMMA BootRight ==
  ASSUME NEW d \in Nat \ {0}, NEW s, PaidRight(s, d)
  PROVE  \A i \in 1..3 : PaidRight(Booted(s, d)[i], d) /\ (Kept(s) => Kept(Booted(s, d)[i]))
<1>. DEFINE a == IF s.marks["cup"] = Week(d) THEN s ELSE Mark(s, "cup", 0)
            b == BootSeason(s, d)
            e == Streak(b, d)
            v == VipGift(e, d)
<1>1. /\ "cup" \in Claims \ Tracked /\ "season" \in Tracked
      /\ Stamp("season", d) = Week(d) /\ Week(d) \in Nat \ {0} /\ s \in Saves
  BY Weeks DEF Tracked, Claims, Daily, Weekly, Once, Stamp, PaidRight
<1>2. PaidRight(a, d) /\ (Kept(s) => Kept(a))
  <2>1. CASE s.marks["cup"] = Week(d)
    BY <2>1
  <2>2. CASE s.marks["cup"] # Week(d)
    <3>1. a = Mark(s, "cup", 0)
      BY <2>2
    <3>2. PaidRight(Mark(s, "cup", 0), d)
      BY <1>1, MarkRight
    <3>3. Kept(s) => Kept(Mark(s, "cup", 0))
      BY <1>1, MarkKept
    <3>. QED  BY <3>1, <3>2, <3>3
  <2>. QED  BY <2>1, <2>2
<1>3. ASSUME s = Fresh PROVE a.marks["season"] = 0
  <2>1. s.marks = [c \in Claims |-> 0]
    BY <1>3, FreshRight
  <2>2. CASE s.marks["cup"] = Week(d)
    BY <1>1, <2>1, <2>2 DEF Tracked
  <2>3. CASE s.marks["cup"] # Week(d)
    <3>1. a = Mark(s, "cup", 0)
      BY <2>3
    <3>2. Mark(s, "cup", 0).marks = [s.marks EXCEPT !["cup"] = 0]
      BY <1>1, MarkSave
    <3>. QED  BY <1>1, <2>1, <3>1, <3>2 DEF Tracked
  <2>. QED  BY <2>2, <2>3
<1>4. b = IF s = Fresh THEN Mark(a, "season", Week(d)) ELSE RankSeason(a, d)
  BY DEF BootSeason
<1>. HIDE DEF a, b
<1>5. PaidRight(b, d) /\ (Kept(s) => Kept(b))
  <2>1. CASE s = Fresh
    <3>1. PaidRight(Mark(a, "season", Week(d)), d)
      BY <1>1, <1>2, <1>3, <2>1, MarkRight DEF Tracked
    <3>2. Kept(s) => Kept(Mark(a, "season", Week(d)))
      BY <1>1, <1>2, MarkKept DEF PaidRight
    <3>. QED  BY <1>4, <2>1, <3>1, <3>2
  <2>2. CASE s # Fresh
    BY <1>2, <1>4, <2>2, DailyRight
  <2>. QED  BY <2>1, <2>2
<1>6. PaidRight(e, d) /\ (Kept(s) => Kept(e))
  BY <1>5, DailyRight
<1>7. Booted(s, d) = <<b, e, v>>
  BY DEF Booted, b
<1>. HIDE DEF e
<1>8. PaidRight(v, d) /\ (Kept(s) => Kept(v))
  BY <1>6, DailyRight
<1>. HIDE DEF v
<1>9. Booted(s, d)[1] = b /\ Booted(s, d)[2] = e /\ Booted(s, d)[3] = v
  BY <1>7
<1>. QED  BY <1>5, <1>6, <1>8, <1>9

-----------------------------------------------------------------------------
(* What every handler keeps                                                *)

\* What a handler finds.
LEMMA MemRight ==
  ASSUME PurseInv
  PROVE  /\ day \in Nat \ {0} /\ mem \in Saves /\ cups \in CupsObjects
         /\ PaidRight(mem, day) /\ (refused = 0 => Kept(mem))
         /\ PaidRight(disk, day) /\ (refused = 0 => Kept(disk))
  BY DEF PurseInv, PaidRight

\* What a handler of today leaves of the rest.
LEMMA CalmToday ==
  ASSUME PurseInv, Calm
  PROVE  day' \in Nat /\ day <= day' /\ day' = day /\ UNCHANGED code /\ cups' \in CupsObjects
  BY DEF PurseInv, Calm

\* The claims that are stamped and paid, once and for all today.
LEMMA ClaimKeeps ==
  ASSUME PurseInv, NEW c \in Tracked \ {"starter"}, MarkThenPay(c) \/ PayAtOnce(c)
  PROVE  PurseInv'
<1>. DEFINE p == Stamp(c, day)
            a == Mark(mem, c, p)
            b == Pay(a, c, p)
<1>1. Calm /\ mem.marks[c] # p /\ (Do(<<a, b>>) \/ Do(<<b>>))
  BY DEF MarkThenPay, PayAtOnce
<1>2. PaidRight(a, day) /\ PaidRight(b, day) /\ (refused = 0 => Kept(b))
  BY <1>1, MemRight, ClaimRight
<1>. HIDE DEF a, b
<1>3. /\ day' \in Nat /\ day <= day' /\ UNCHANGED code /\ cups' \in CupsObjects
      /\ PaidRight(a, day') /\ PaidRight(b, day')
  BY <1>1, <1>2, CalmToday
<1>. QED  BY <1>1, <1>2, <1>3, Do1Keeps, Do2Keeps

\* ClaimStipend
LEMMA StipendKeeps ==
  ASSUME PurseInv, ClaimStipend
  PROVE  PurseInv'
<1>. DEFINE a == Pay(mem, "stipend", day)
            b == Mark(a, "stipend", day)
            saves == <<a>>
<1>1. "stipend" \in Claims \ Tracked
  BY DEF Tracked, Claims, Daily, Weekly, Once
<1>2. mem' = b /\ Persist(saves) /\ Calm
  BY DEF ClaimStipend
<1>3. PaidRight(a, day) /\ (refused = 0 => Kept(a))
  BY <1>1, MemRight, PayRight, PayKept DEF Tracked, Claims
<1>4. a \in Saves /\ a.paid = mem.paid \cup {<<"stipend", day>>} /\ a.marks = mem.marks
      /\ a.owned = mem.owned /\ a.bought = mem.bought
  BY ZenonT(40), <1>1, MemRight, PaySave
<1>. HIDE DEF a
<1>5. PaidRight(b, day)
  BY <1>1, <1>3, MemRight, MarkRight
<1>6. ASSUME Kept(mem) PROVE Kept(b)
  <2>1. b.marks = [a.marks EXCEPT !["stipend"] = day] /\ b.paid = a.paid
        /\ b.owned = a.owned /\ b.bought = a.bought
    BY <1>1, <1>4, MemRight, MarkSave
  <2>2. mem.marks \in [Claims -> Nat]
    BY MemRight DEF Saves
  <2>. HIDE DEF b
  <2>3. ASSUME NEW x \in Claims \ {"season", "promo", "cup"}, b.marks[x] # 0
        PROVE  <<x, b.marks[x]>> \in b.paid
    <3>1. CASE x = "stipend"
      BY <1>4, <2>1, <2>2, <3>1
    <3>2. CASE x # "stipend"
      BY <1>4, <1>6, <2>1, <2>2, <2>3, <3>2 DEF Kept
    <3>. QED  BY <3>1, <3>2
  <2>. QED  BY <1>4, <1>6, <2>1, <2>3 DEF Kept
<1>. HIDE DEF b
<1>7. /\ day' \in Nat /\ day <= day' /\ UNCHANGED code /\ cups' \in CupsObjects
      /\ PaidRight(a, day') /\ PaidRight(mem', day') /\ (refused = 0 => Kept(mem'))
  BY <1>2, <1>3, <1>5, <1>6, CalmToday, MemRight
<1>8. /\ saves \in Seq(Saves) /\ saves # <<>> /\ Len(saves) = 1 /\ saves[Len(saves)] = a
      /\ \A i \in 1..Len(saves) : PaidRight(saves[i], day')
  BY <1>4, <1>7
<1>. HIDE DEF saves
<1>. QED  BY <1>2, <1>3, <1>7, <1>8, WriteKeeps

\* Redeem
LEMMA RedeemKeeps ==
  ASSUME PurseInv, Redeem
  PROVE  PurseInv'
<1>. DEFINE a == Mark(mem, "promo", 1)
            b == GrantVip(a, day)
            v == VipGift(b, day)
            o == Own(a, "gold")
            y == Pay(a, "promo", 1)
<1>1. /\ Calm /\ mem.marks["promo"] = 0
      /\ Do(<<a, y>>) \/ Do(<<a, o>>) \/ Do(<<a, b, v>>)
  BY DEF Redeem
<1>2. "promo" \in Tracked \ {"starter"} /\ Stamp("promo", day) = 1 /\ "gold" \in Goods
  BY DEF Tracked, Claims, Daily, Weekly, Once, Stamp, Goods
<1>3. PaidRight(a, day) /\ PaidRight(y, day) /\ (refused = 0 => Kept(y))
  BY <1>1, <1>2, MemRight, ClaimRight
<1>4. refused = 0 => Kept(a)
  BY MemRight, MarkKept
<1>. HIDE DEF a, y
<1>5. PaidRight(o, day) /\ (refused = 0 => Kept(o))
  BY <1>2, <1>3, <1>4, OwnRight
<1>6. PaidRight(b, day) /\ (refused = 0 => Kept(b))
  BY <1>3, <1>4, MemRight, GrantVipRight
<1>. HIDE DEF o, b
<1>7. PaidRight(v, day) /\ (refused = 0 => Kept(v))
  BY <1>6, MemRight, DailyRight
<1>. HIDE DEF v
<1>8. /\ day' \in Nat /\ day <= day' /\ day' = day /\ UNCHANGED code /\ cups' \in CupsObjects
  BY <1>1, CalmToday
<1>9. CASE Do(<<a, y>>)
  BY <1>3, <1>8, <1>9, Do2Keeps
<1>10. CASE Do(<<a, o>>)
  BY <1>3, <1>5, <1>8, <1>10, Do2Keeps
<1>11. CASE Do(<<a, b, v>>)
  BY <1>3, <1>6, <1>7, <1>8, <1>11, Do3Keeps
<1>. QED  BY <1>1, <1>9, <1>10, <1>11

\* What a vault holds is a save that is right.
LEMMA VaultRight ==
  ASSUME NEW s, NEW d, PaidRight(s, d), NEW v \in Vault(s)
  PROVE  PaidRight(v, d) /\ (Kept(s) => Kept(v))
<1>1. {"skin", "trail"} \subseteq Goods
  BY DEF Goods
<1>. QED  BY <1>1, OwnRight DEF Vault

\* BuyVault and SpinWheel
LEMMA VaultKeeps ==
  ASSUME PurseInv, BuyVault \/ SpinWheel
  PROVE  PurseInv'
<1>1. CASE BuyVault
  <2>1. PICK v \in Vault(mem) : Do(<<mem, v>>) /\ Calm
    BY <1>1 DEF BuyVault
  <2>2. PaidRight(v, day) /\ (refused = 0 => Kept(v))
    BY MemRight, VaultRight
  <2>3. /\ day' \in Nat /\ day <= day' /\ UNCHANGED code /\ cups' \in CupsObjects
        /\ PaidRight(mem, day') /\ PaidRight(v, day')
    BY <2>1, <2>2, CalmToday, MemRight
  <2>. QED  BY <2>1, <2>2, <2>3, Do2Keeps
<1>2. CASE SpinWheel
  <2>. DEFINE a == Mark(mem, "wheel", day)
              b == Pay(a, "wheel", day)
  <2>1. "wheel" \in Tracked \ {"starter"} /\ Stamp("wheel", day) = day
    BY DEF Tracked, Claims, Daily, Weekly, Once, Stamp
  <2>2. PICK v \in Vault(b) : Do(<<a, v>>) /\ Calm /\ mem.marks["wheel"] # day
    BY <1>2 DEF SpinWheel
  <2>3. PaidRight(a, day) /\ PaidRight(b, day) /\ (refused = 0 => Kept(b))
    BY <2>1, <2>2, MemRight, ClaimRight
  <2>. HIDE DEF a, b
  <2>4. PaidRight(v, day) /\ (refused = 0 => Kept(v))
    BY <2>3, VaultRight
  <2>5. /\ day' \in Nat /\ day <= day' /\ UNCHANGED code /\ cups' \in CupsObjects
        /\ PaidRight(a, day') /\ PaidRight(v, day')
    BY <2>2, <2>3, <2>4, CalmToday
  <2>. QED  BY <2>2, <2>4, <2>5, Do2Keeps
<1>. QED  BY <1>1, <1>2

\* ClaimCup: neither kind of the record it notes the claim in is tracked.
LEMMA CupKeeps ==
  ASSUME PurseInv, ClaimCup
  PROVE  PurseInv'
<1>. DEFINE w == cups.week
            a == IF cups.own THEN Mark(mem, "cup", w) ELSE mem
            b == Pay(a, "cup", w)
<1>1. Do(<<b>>) /\ UNCHANGED <<day, code>>
      /\ cups' = IF cups.own THEN cups ELSE [cups EXCEPT !.mark = cups.week]
  BY DEF ClaimCup
<1>2. "cup" \in Claims \ Tracked /\ "cup" # "starter" /\ cups.week \in Nat
  BY MemRight DEF Tracked, Claims, Daily, Weekly, Once, CupsObjects
<1>3. cups' \in CupsObjects
  BY <1>1, MemRight DEF CupsObjects
<1>. HIDE DEF w
<1>4. w \in Nat
  BY <1>2 DEF w
<1>5. PaidRight(Mark(mem, "cup", w), day) /\ (refused = 0 => Kept(Mark(mem, "cup", w)))
  BY <1>2, <1>4, MemRight, MarkRight, MarkKept
<1>6. PaidRight(a, day) /\ (refused = 0 => Kept(a))
  BY <1>5, MemRight
<1>. HIDE DEF a
<1>7. PaidRight(b, day) /\ (refused = 0 => Kept(b))
  BY <1>2, <1>4, <1>6, PayRight, PayKept DEF PaidRight
<1>. HIDE DEF b
<1>. QED  BY <1>1, <1>3, <1>7, MemRight, Do1Keeps

-----------------------------------------------------------------------------
(* The shop                                                                *)

\* Buy
LEMMA BuyKeeps ==
  ASSUME PurseInv, NEW k, NEW i \in Goods, Buy(k, i)
  PROVE  PurseInv'
<1>. DEFINE a == Spend(mem, i)
            b == Own(a, i)
<1>1. Do(<<a, b>>) /\ Calm
  BY DEF Buy
<1>2. PaidRight(a, day) /\ PaidRight(b, day) /\ (refused = 0 => Kept(b))
  BY MemRight, OwnRight
<1>. HIDE DEF a, b
<1>3. /\ day' \in Nat /\ day <= day' /\ UNCHANGED code /\ cups' \in CupsObjects
      /\ PaidRight(a, day') /\ PaidRight(b, day')
  BY <1>1, <1>2, CalmToday
<1>. QED  BY <1>1, <1>2, <1>3, Do2Keeps

\* BuyStarter: a starter that is not owned was not paid.
LEMMA StarterKeeps ==
  ASSUME PurseInv, BuyStarter
  PROVE  PurseInv'
<1>. DEFINE a == Spend(mem, "starter")
            o == Own(a, "starter")
            m == Mark(o, "starter", 1)
            b == Pay(m, "starter", 1)
            e == Own(b, "trail")
<1>1. Do(<<a, b, e>>) /\ Calm /\ "starter" \notin mem.owned
  BY DEF BuyStarter
<1>2. /\ "starter" \in Tracked /\ "starter" \in Claims /\ "starter" # "cup"
      /\ Stamp("starter", day) = 1 /\ {"starter", "trail"} \subseteq Goods
  BY DEF Tracked, Claims, Daily, Weekly, Once, Stamp, Goods
<1>3. /\ PaidRight(a, day) /\ PaidRight(o, day) /\ (refused = 0 => Kept(o))
  BY <1>2, MemRight, OwnRight
<1>4. a \in Saves /\ a.paid = mem.paid /\ a.owned = mem.owned
  BY <1>2, MemRight, BesideSave DEF Beside
<1>. HIDE DEF a
<1>5. o \in Saves /\ o.paid = a.paid /\ o.owned = a.owned \cup {"starter"}
  BY <1>2, <1>4, BesideSave DEF Beside
<1>6. <<"starter", 1>> \notin o.paid
  BY <1>1, <1>4, <1>5, MemRight DEF PaidRight
<1>7. o.marks["starter"] \in Nat /\ o.marks["starter"] <= 1
  <2>1. o.marks["starter"] \in Nat
    BY <1>2, <1>5 DEF Saves
  <2>2. o.marks["starter"] <= Stamp("starter", day)
    BY <1>2, <1>3 DEF PaidRight
  <2>. QED  BY <1>2, <2>1, <2>2
<1>. HIDE DEF o
<1>8. PaidRight(m, day)
  BY <1>2, <1>3, <1>7, MarkRight
<1>9. m.marks["starter"] = 1 /\ m.paid = o.paid /\ m.owned = o.owned
  <2>1. o.marks \in [Claims -> Nat]
    BY <1>5 DEF Saves
  <2>2. m.marks = [o.marks EXCEPT !["starter"] = 1] /\ m.paid = o.paid /\ m.owned = o.owned
    BY <1>2, <1>5, MarkSave
  <2>. QED  BY <1>2, <2>1, <2>2
<1>10. refused = 0 => Kept(b)
  BY <1>2, <1>3, <1>5, ClaimKept
<1>. HIDE DEF m
<1>11. PaidRight(b, day)
  BY <1>2, <1>5, <1>6, <1>8, <1>9, PayRight
<1>. HIDE DEF b
<1>12. PaidRight(e, day) /\ (refused = 0 => Kept(e))
  BY <1>2, <1>10, <1>11, OwnRight
<1>. HIDE DEF e
<1>13. /\ day' \in Nat /\ day <= day' /\ day' = day /\ UNCHANGED code /\ cups' \in CupsObjects
  BY <1>1, CalmToday
<1>. QED  BY <1>1, <1>3, <1>11, <1>12, <1>13, Do3Keeps

\* BuyBundle: the crate is paid for and noted before it is opened.
LEMMA BundleKeeps ==
  ASSUME PurseInv, BuyBundle
  PROVE  PurseInv'
<1>. DEFINE a == Spend(mem, "crate")
            b == Mark(a, "bundle", 1)
            t == Own(b, "trail")
            e == Own(t, "crate")
            f == Pay(e, "bundle", 1)
            saves == <<a, b, e, f>>
<1>1. mem' = f /\ Persist(saves) /\ Calm /\ mem.marks["bundle"] = 0
  BY DEF BuyBundle, Do
<1>2. /\ "bundle" \in Tracked /\ "bundle" \in Claims /\ "bundle" \notin {"cup", "starter"}
      /\ Stamp("bundle", day) = 1 /\ {"crate", "trail"} \subseteq Goods
  BY DEF Tracked, Claims, Daily, Weekly, Once, Stamp, Goods
<1>3. PaidRight(a, day)
  BY <1>2, MemRight, OwnRight
<1>4. /\ a \in Saves /\ a.marks = mem.marks /\ a.paid = mem.paid
      /\ a.owned = mem.owned /\ a.bought = mem.bought \cup {"crate"}
  BY <1>2, MemRight, BesideSave DEF Beside
<1>. HIDE DEF a
<1>5. PaidRight(b, day)
  BY <1>1, <1>2, <1>3, <1>4, MarkRight
<1>6. /\ b \in Saves /\ b.marks = [mem.marks EXCEPT !["bundle"] = 1] /\ b.paid = mem.paid
      /\ b.owned = mem.owned /\ b.bought = mem.bought \cup {"crate"}
  BY <1>2, <1>4, MarkSave
<1>. HIDE DEF b
<1>7. PaidRight(t, day) /\ t \in Saves /\ t.marks = b.marks /\ t.paid = b.paid
      /\ t.owned = b.owned \cup {"trail"} /\ t.bought = b.bought
  BY ZenonT(40), <1>2, <1>5, <1>6, OwnRight, BesideSave DEF Beside
<1>. HIDE DEF t
<1>8. PaidRight(e, day) /\ e \in Saves /\ e.marks = t.marks /\ e.paid = t.paid
      /\ e.owned = t.owned \cup {"crate"} /\ e.bought = t.bought
  BY <1>2, <1>7, OwnRight, BesideSave DEF Beside
<1>. HIDE DEF e
<1>9. mem.marks \in [Claims -> Nat]
  BY MemRight DEF Saves
<1>10. e.marks["bundle"] = 1 /\ <<"bundle", 1>> \notin e.paid
  <2>1. e.marks["bundle"] = 1
    BY <1>2, <1>6, <1>7, <1>8, <1>9
  <2>2. <<"bundle", 1>> \notin mem.paid
    BY <1>1, <1>2, MemRight DEF PaidRight
  <2>. QED  BY <1>6, <1>7, <1>8, <2>1, <2>2
<1>11. PaidRight(f, day)
  BY <1>2, <1>8, <1>10, PayRight
<1>12. f.marks = e.marks /\ f.paid = e.paid \cup {<<"bundle", 1>>}
       /\ f.owned = e.owned /\ f.bought = e.bought
  <2>1. e \in Saves
    BY <1>8
  <2>. HIDE DEF saves
  <2>. QED  BY ZenonT(40), <1>2, <2>1, PaySave
<1>. HIDE DEF f
<1>13. ASSUME Kept(mem) PROVE Kept(f)
  <2>1. ASSUME NEW x \in Claims \ {"season", "promo", "cup"}, f.marks[x] # 0
        PROVE  <<x, f.marks[x]>> \in f.paid
    <3>1. CASE x = "bundle"
      BY <1>8, <1>10, <1>12, <3>1
    <3>2. CASE x # "bundle"
      <4>1. f.marks[x] = mem.marks[x]
        BY <1>6, <1>7, <1>8, <1>9, <1>12, <3>2
      <4>. QED  BY <1>6, <1>7, <1>8, <1>12, <1>13, <2>1, <4>1 DEF Kept
    <3>. QED  BY <3>1, <3>2
  <2>2. f.bought \subseteq f.owned
    BY <1>6, <1>7, <1>8, <1>12, <1>13 DEF Kept
  <2>. QED  BY <2>1, <2>2 DEF Kept
<1>14. /\ day' \in Nat /\ day <= day' /\ day' = day /\ UNCHANGED code /\ cups' \in CupsObjects
  BY <1>1, CalmToday
<1>15. f \in Saves /\ PaidRight(mem', day') /\ (refused = 0 => Kept(mem'))
  BY <1>1, <1>11, <1>13, <1>14, MemRight DEF PaidRight
<1>16. /\ saves \in Seq(Saves) /\ saves # <<>> /\ Len(saves) = 4 /\ saves[Len(saves)] = f
       /\ saves[1] = a /\ saves[2] = b /\ saves[3] = e /\ saves[4] = f
  BY <1>4, <1>6, <1>8, <1>15
<1>. HIDE DEF saves
<1>17. \A i \in 1..Len(saves) : PaidRight(saves[i], day')
  BY <1>3, <1>5, <1>8, <1>11, <1>14, <1>16
<1>18. refused = 0 => Kept(saves[Len(saves)])
  BY <1>1, <1>15, <1>16
<1>. QED  BY <1>1, <1>14, <1>15, <1>16, <1>17, <1>18, WriteKeeps

\* BuyPortalVip, and the answer of restore
LEMMA VipKeeps ==
  ASSUME PurseInv, BuyPortalVip \/ Restored
  PROVE  PurseInv'
<1>. DEFINE b == GrantVip(mem, day)
            v == VipGift(b, day)
<1>1. PaidRight(b, day) /\ (refused = 0 => Kept(b))
  BY MemRight, GrantVipRight
<1>2. PaidRight(v, day) /\ (refused = 0 => Kept(v))
  BY <1>1, MemRight, DailyRight
<1>3. CASE BuyPortalVip
  <2>1. Do(<<mem, b, v>>) /\ Calm
    BY <1>3 DEF BuyPortalVip
  <2>. HIDE DEF b, v
  <2>2. /\ day' \in Nat /\ day <= day' /\ day' = day /\ UNCHANGED code /\ cups' \in CupsObjects
    BY <2>1, CalmToday
  <2>. QED  BY <1>1, <1>2, <2>1, <2>2, MemRight, Do3Keeps
<1>4. CASE Restored
  <2>1. UNCHANGED <<day, code, cups>> /\ (Do(<<b, v>>) \/ UNCHANGED <<mem, disk, refused>>)
    BY <1>4 DEF Restored
  <2>. HIDE DEF b, v
  <2>2. CASE Do(<<b, v>>)
    BY <1>1, <1>2, <2>1, <2>2, MemRight, Do2Keeps
  <2>3. CASE UNCHANGED <<mem, disk, refused>>
    BY <2>1, <2>3 DEF PurseInv
  <2>. QED  BY <2>1, <2>2, <2>3
<1>. QED  BY <1>3, <1>4

-----------------------------------------------------------------------------
(* Flights and the nest                                                    *)

\* What is beside a save, and owns and bought the same, is as right.
LEMMA SameRight ==
  ASSUME NEW s, NEW d, PaidRight(s, d), NEW y, Beside(y, s),
         y.owned = s.owned, y.bought = s.bought
  PROVE  PaidRight(y, d) /\ (Kept(s) => Kept(y))
<1>1. Kept(s) => y.bought \subseteq y.owned
  BY DEF Kept
<1>. QED  BY <1>1, BesideRight, BesideKept

\* completeMission
LEMMA MissionRight ==
  ASSUME NEW s, NEW d, PaidRight(s, d), s.missions < MissionDefs
  PROVE  /\ PaidRight(CompleteMission(s), d) /\ (Kept(s) => Kept(CompleteMission(s)))
         /\ CompleteMission(s).marks = s.marks
<1>. DEFINE n == s.missions + 1
            l == s.missions + 1 + s.nestBought
            y == [s EXCEPT !.missions = n, !.nestLevel = l]
<1>1. s \in Saves /\ s.missions \in 0..MissionDefs /\ s.nestBought \in 0..NestCap
  BY DEF PaidRight, Saves
<1>2. n \in 0..MissionDefs /\ l \in Nat
  BY <1>1, PurseAssumption
<1>3. CompleteMission(s) = y
  BY DEF CompleteMission
<1>. HIDE DEF n, l
<1>4. y \in Saves
  BY <1>1, <1>2 DEF Saves
<1>5. /\ y.marks = s.marks /\ y.paid = s.paid /\ y.twice = s.twice
      /\ y.owned = s.owned /\ y.bought = s.bought
  BY <1>1 DEF Saves
<1>. HIDE DEF y
<1>6. PaidRight(y, d) /\ (Kept(s) => Kept(y))
  BY <1>4, <1>5, SameRight DEF Beside
<1>. QED  BY <1>3, <1>5, <1>6

\* The piggy bank filled or smashed.
LEMMA PiggyRight ==
  ASSUME NEW s, NEW d, PaidRight(s, d), NEW n \in 0..1
  PROVE  PaidRight([s EXCEPT !.piggy = n], d) /\ (Kept(s) => Kept([s EXCEPT !.piggy = n]))
<1>. DEFINE y == [s EXCEPT !.piggy = n]
<1>1. s \in Saves
  BY DEF PaidRight
<1>2. y \in Saves
  BY <1>1 DEF Saves
<1>3. /\ y.marks = s.marks /\ y.paid = s.paid /\ y.twice = s.twice
      /\ y.owned = s.owned /\ y.bought = s.bought
  BY <1>1 DEF Saves
<1>. HIDE DEF y
<1>4. PaidRight(y, d) /\ (Kept(s) => Kept(y))
  BY <1>2, <1>3, SameRight DEF Beside
<1>. QED  BY <1>4 DEF y

\* A nest level bought.
LEMMA NestRight ==
  ASSUME NEW s, NEW d, PaidRight(s, d), NEW n \in 0..NestCap, NEW l \in Nat
  PROVE  LET y == [s EXCEPT !.nestBought = n, !.nestLevel = l]
         IN  PaidRight(y, d) /\ (Kept(s) => Kept(y))
<1>. DEFINE y == [s EXCEPT !.nestBought = n, !.nestLevel = l]
<1>1. s \in Saves
  BY DEF PaidRight
<1>2. y \in Saves
  BY <1>1 DEF Saves
<1>3. /\ y.marks = s.marks /\ y.paid = s.paid /\ y.twice = s.twice
      /\ y.owned = s.owned /\ y.bought = s.bought
  BY <1>1 DEF Saves
<1>. HIDE DEF y
<1>4. PaidRight(y, d) /\ (Kept(s) => Kept(y))
  BY <1>2, <1>3, SameRight DEF Beside
<1>. QED  BY <1>4 DEF y

\* A rebirth.
LEMMA RebirthRight ==
  ASSUME NEW s, NEW d, PaidRight(s, d), NEW n \in 0..NestCap, NEW l \in Nat, NEW r \in Nat
  PROVE  LET y == [s EXCEPT !.nestBought = n, !.nestLevel = l, !.prestige = r]
         IN  PaidRight(y, d) /\ (Kept(s) => Kept(y))
<1>. DEFINE y == [s EXCEPT !.nestBought = n, !.nestLevel = l, !.prestige = r]
<1>1. s \in Saves
  BY DEF PaidRight
<1>2. y \in Saves
  BY <1>1 DEF Saves
<1>3. /\ y.marks = s.marks /\ y.paid = s.paid /\ y.twice = s.twice
      /\ y.owned = s.owned /\ y.bought = s.bought
  BY <1>1 DEF Saves
<1>. HIDE DEF y
<1>4. PaidRight(y, d) /\ (Kept(s) => Kept(y))
  BY <1>2, <1>3, SameRight DEF Beside
<1>. QED  BY <1>4 DEF y

\* The piggy bank and the nest.
LEMMA NestKeeps ==
  ASSUME PurseInv, SmashPiggyBank \/ BuyNestUpgrade \/ PerformPrestige
  PROVE  PurseInv'
<1>1. mem \in Saves /\ mem.nestBought \in Nat /\ mem.missions \in Nat /\ mem.prestige \in Nat
      /\ 0 \in 0..NestCap
  BY MemRight, PurseAssumption DEF Saves
<1>2. CASE SmashPiggyBank
  <2>. DEFINE y == [mem EXCEPT !.piggy = 0]
  <2>1. Do(<<y>>) /\ Calm
    BY <1>2 DEF SmashPiggyBank
  <2>2. 0 \in 0..1 /\ PaidRight(mem, day)
    BY MemRight
  <2>3. PaidRight(y, day) /\ (Kept(mem) => Kept(y))
    BY <2>2, PiggyRight
  <2>. HIDE DEF y
  <2>4. /\ day' \in Nat /\ day <= day' /\ day' = day /\ UNCHANGED code /\ cups' \in CupsObjects
    BY <2>1, CalmToday
  <2>. QED  BY <2>1, <2>3, <2>4, MemRight, Do1Keeps
<1>3. CASE BuyNestUpgrade
  <2>. DEFINE n == mem.nestBought + 1
              l == mem.missions + mem.nestBought + 1
              y == [mem EXCEPT !.nestBought = n, !.nestLevel = l]
  <2>1. Do(<<mem, y>>) /\ Calm /\ mem.nestBought < NestCap
    BY <1>3 DEF BuyNestUpgrade
  <2>2. n \in 0..NestCap /\ l \in Nat
    BY <1>1, <2>1, PurseAssumption
  <2>. HIDE DEF n, l
  <2>4. PaidRight(y, day) /\ (Kept(mem) => Kept(y))
    BY <1>1, <2>2, MemRight, NestRight
  <2>. HIDE DEF y
  <2>5. /\ day' \in Nat /\ day <= day' /\ day' = day /\ UNCHANGED code /\ cups' \in CupsObjects
    BY <2>1, CalmToday
  <2>. QED  BY <2>1, <2>4, <2>5, MemRight, Do2Keeps
<1>4. CASE PerformPrestige
  <2>. DEFINE l == mem.missions
              r == mem.prestige + 1
              y == [mem EXCEPT !.nestBought = 0, !.nestLevel = l, !.prestige = r]
  <2>1. Do(<<y>>) /\ Calm
    BY <1>4 DEF PerformPrestige
  <2>2. l \in Nat /\ r \in Nat
    BY <1>1
  <2>. HIDE DEF l, r
  <2>4. PaidRight(y, day) /\ (Kept(mem) => Kept(y))
    BY <1>1, <2>2, MemRight, RebirthRight
  <2>. HIDE DEF y
  <2>5. /\ day' \in Nat /\ day <= day' /\ day' = day /\ UNCHANGED code /\ cups' \in CupsObjects
    BY <2>1, CalmToday
  <2>. QED  BY <2>1, <2>4, <2>5, MemRight, Do1Keeps
<1>. QED  BY <1>2, <1>3, <1>4

\* A flight that is noted and paid, if its claim of the day is new.
LEMMA FlightRight ==
  ASSUME NEW d \in Nat \ {0}, NEW s, PaidRight(s, d), NEW c \in {"quest", "daily", "gauntlet"},
         s.marks[c] # Stamp(c, d)
  PROVE  LET n == Mark(s, c, Stamp(c, d))
             y == Pay(n, c, Stamp(c, d))
         IN  /\ PaidRight(n, d) /\ PaidRight(y, d) /\ (Kept(s) => Kept(y))
             /\ \A x \in {"quest", "daily", "gauntlet"} \ {c} : y.marks[x] = s.marks[x]
<1>. DEFINE p == Stamp(c, d)
            n == Mark(s, c, p)
            y == Pay(n, c, p)
<1>1. {"quest", "daily", "gauntlet"} \subseteq Tracked \ {"starter"}
  BY DEF Tracked, Claims, Daily, Weekly, Once
<1>2. c \in Claims /\ p \in Nat /\ s \in Saves
  BY <1>1, Stamps DEF Tracked, PaidRight
<1>3. PaidRight(n, d) /\ PaidRight(y, d) /\ (Kept(s) => Kept(y))
  BY <1>1, ClaimRight
<1>. HIDE DEF p
<1>4. n \in Saves /\ n.marks = [s.marks EXCEPT ![c] = p]
  BY <1>2, MarkSave
<1>. HIDE DEF n
<1>5. y.marks = n.marks
  BY <1>2, <1>4, PaySave
<1>. HIDE DEF y
<1>6. s.marks \in [Claims -> Nat]
  BY <1>2 DEF Saves
<1>7. \A x \in {"quest", "daily", "gauntlet"} \ {c} : y.marks[x] = s.marks[x]
  BY <1>1, <1>4, <1>5, <1>6 DEF Tracked
<1>. QED  BY <1>3, <1>7 DEF p, n, y

\* BankRun: six saves, one after the other.
LEMMA RunKeeps ==
  ASSUME PurseInv, BankRun
  PROVE  PurseInv'
<1>1. PICK m \in BOOLEAN, q \in BOOLEAN, c \in {"daily", "gauntlet", "none"} :
        /\ m => mem.missions < MissionDefs
        /\ LET New(x) == x # "none" /\ mem.marks[x] # Stamp(x, day)
               Noted(s, x) == IF New(x) THEN Mark(s, x, Stamp(x, day)) ELSE s
               Paid(s, x) == IF New(x) THEN Pay(s, x, Stamp(x, day)) ELSE s
               quest == IF q THEN "quest" ELSE "none"
               a  == IF m THEN CompleteMission(mem) ELSE mem
               qn == Noted(a, quest)
               qp == Paid(qn, quest)
               cn == Noted(qp, c)
               cp == Paid(cn, c)
               r  == [cp EXCEPT !.piggy = 1]
           IN  Do(<<a, qn, qp, cn, cp, r>>)
  BY DEF BankRun
<1>. DEFINE New(x) == x # "none" /\ mem.marks[x] # Stamp(x, day)
            Noted(s, x) == IF New(x) THEN Mark(s, x, Stamp(x, day)) ELSE s
            Paid(s, x) == IF New(x) THEN Pay(s, x, Stamp(x, day)) ELSE s
            quest == IF q THEN "quest" ELSE "none"
            a  == IF m THEN CompleteMission(mem) ELSE mem
            qn == Noted(a, quest)
            qp == Paid(qn, quest)
            cn == Noted(qp, c)
            cp == Paid(cn, c)
            r  == [cp EXCEPT !.piggy = 1]
            saves == <<a, qn, qp, cn, cp, r>>
<1>2. Do(saves) /\ Calm
  BY <1>1 DEF BankRun
<1>3. PaidRight(a, day) /\ (Kept(mem) => Kept(a)) /\ a.marks = mem.marks
  <2>1. CASE m
    <3>1. a = CompleteMission(mem)
      BY <2>1
    <3>. QED  BY <1>1, <2>1, <3>1, MemRight, MissionRight
  <2>2. CASE ~m
    BY <2>2, MemRight
  <2>. QED  BY <2>1, <2>2
<1>. HIDE DEF a
<1>4. /\ PaidRight(qn, day) /\ PaidRight(qp, day) /\ (Kept(a) => Kept(qp))
      /\ \A x \in {"daily", "gauntlet"} : qp.marks[x] = mem.marks[x]
  <2>1. CASE quest = "quest" /\ mem.marks["quest"] # Stamp("quest", day)
    <3>1. /\ qn = Mark(a, "quest", Stamp("quest", day))
          /\ qp = Pay(Mark(a, "quest", Stamp("quest", day)), "quest", Stamp("quest", day))
      BY <2>1
    <3>2. a.marks["quest"] # Stamp("quest", day) /\ day \in Nat \ {0}
      BY <1>3, <2>1, MemRight
    <3>. HIDE DEF qn, qp
    <3>. QED  BY <1>3, <3>1, <3>2, FlightRight
  <2>2. CASE ~(quest = "quest" /\ mem.marks["quest"] # Stamp("quest", day))
    <3>1. qn = a /\ qp = a
      BY <2>2
    <3>. HIDE DEF qn, qp
    <3>. QED  BY <1>3, <3>1
  <2>. QED  BY <2>1, <2>2
<1>. HIDE DEF qn, qp
<1>5. PaidRight(cn, day) /\ PaidRight(cp, day) /\ (Kept(qp) => Kept(cp))
  <2>1. CASE New(c)
    <3>1. /\ cn = Mark(qp, c, Stamp(c, day))
          /\ cp = Pay(Mark(qp, c, Stamp(c, day)), c, Stamp(c, day))
      BY <2>1
    <3>2. c \in {"quest", "daily", "gauntlet"} /\ qp.marks[c] # Stamp(c, day) /\ day \in Nat \ {0}
      BY <1>4, <2>1, MemRight
    <3>. HIDE DEF cn, cp
    <3>. QED  BY <1>4, <3>1, <3>2, FlightRight
  <2>2. CASE ~New(c)
    <3>1. cn = qp /\ cp = qp
      BY <2>2
    <3>. HIDE DEF cn, cp
    <3>. QED  BY <1>4, <3>1
  <2>. QED  BY <2>1, <2>2
<1>. HIDE DEF cn, cp
<1>6. PaidRight(r, day) /\ (Kept(cp) => Kept(r))
  <2>1. 1 \in 0..1
    OBVIOUS
  <2>. QED  BY <1>5, <2>1, PiggyRight
<1>. HIDE DEF r
<1>7. refused = 0 => Kept(r)
  BY <1>3, <1>4, <1>5, <1>6, MemRight
<1>8. a \in Saves /\ qn \in Saves /\ qp \in Saves /\ cn \in Saves /\ cp \in Saves /\ r \in Saves
  BY <1>3, <1>4, <1>5, <1>6 DEF PaidRight
<1>9. /\ saves \in Seq(Saves) /\ saves # <<>> /\ Len(saves) = 6 /\ saves[Len(saves)] = r
      /\ saves[1] = a /\ saves[2] = qn /\ saves[3] = qp /\ saves[4] = cn /\ saves[5] = cp
      /\ saves[6] = r
  BY <1>8
<1>. HIDE DEF saves
<1>10. /\ day' \in Nat /\ day <= day' /\ day' = day /\ UNCHANGED code /\ cups' \in CupsObjects
  BY <1>2, CalmToday
<1>11. \A i \in 1..Len(saves) : PaidRight(saves[i], day')
  <2>1. \A i \in 1..Len(saves) : i \in {1, 2, 3, 4, 5, 6}
    BY <1>9
  <2>. QED  BY <1>3, <1>4, <1>5, <1>6, <1>9, <1>10, <2>1
<1>12. Persist(saves) /\ mem' = r
  BY <1>2, <1>9 DEF Do
<1>13. PaidRight(mem', day') /\ (refused = 0 => Kept(mem')) /\ (refused = 0 => Kept(saves[Len(saves)]))
  BY <1>6, <1>7, <1>9, <1>10, <1>12
<1>. QED  BY <1>9, <1>10, <1>11, <1>12, <1>13, WriteKeeps

-----------------------------------------------------------------------------
(* Days, reloads, damage and save codes                                    *)

\* NewDay
LEMMA DayKeeps ==
  ASSUME PurseInv, NewDay
  PROVE  PurseInv'
<1>. DEFINE d == day + 1
            a == Streak(mem, d)
            b == VipGift(a, d)
            e == RankSeason(b, d)
<1>1. day' = d /\ Do(<<a, b, e>>) /\ UNCHANGED <<code, cups>>
  BY DEF NewDay
<1>2. d \in Nat \ {0} /\ day <= d
  BY MemRight
<1>. HIDE DEF d
<1>3. PaidRight(mem, d)
  BY <1>2, MemRight, DaysPass
<1>4. PaidRight(a, d) /\ (Kept(mem) => Kept(a))
  BY <1>2, <1>3, DailyRight
<1>. HIDE DEF a
<1>5. PaidRight(b, d) /\ (Kept(a) => Kept(b))
  BY <1>2, <1>4, DailyRight
<1>. HIDE DEF b
<1>6. PaidRight(e, d) /\ (Kept(b) => Kept(e))
  BY <1>2, <1>5, DailyRight
<1>. HIDE DEF e
<1>. QED  BY <1>1, <1>2, <1>4, <1>5, <1>6, MemRight, Do3Keeps

\* Reload: the boot of what storage holds, or of a fresh save.
LEMMA ReloadKeeps ==
  ASSUME PurseInv, Reload
  PROVE  PurseInv'
<1>1. PICK d \in {day, day + 1} :
        /\ day' = d /\ Do(Booted(Loaded, d)) /\ UNCHANGED code
        /\ cups' = [own |-> TRUE, mark |-> 0, week |-> Week(d)]
  BY DEF Reload
<1>2. d \in Nat \ {0} /\ day <= d
  BY MemRight
<1>3. PaidRight(Loaded, d) /\ (refused = 0 => Kept(Loaded))
  BY <1>2, MemRight, DaysPass, FreshRight DEF Loaded
<1>. DEFINE boot == Booted(Loaded, d)
            a == boot[1]
            b == boot[2]
            e == boot[3]
<1>4. \A i \in 1..3 : PaidRight(boot[i], d) /\ (Kept(Loaded) => Kept(boot[i]))
  BY <1>2, <1>3, BootRight
<1>5. boot = <<a, b, e>>
  BY DEF Booted
<1>6. Do(boot)
  BY <1>1
<1>. HIDE DEF boot
<1>7. /\ PaidRight(a, d) /\ PaidRight(b, d) /\ PaidRight(e, d)
      /\ (refused = 0 => Kept(e))
  BY <1>3, <1>4
<1>. HIDE DEF a, b, e
<1>8. cups' \in CupsObjects
  <2>1. Week(d) \in Nat
    BY <1>2, Weeks
  <2>. QED  BY <1>1, <2>1 DEF CupsObjects
<1>9. Do(<<a, b, e>>)
  BY <1>5, <1>6
<1>. QED  BY <1>1, <1>2, <1>7, <1>8, <1>9, Do3Keeps

\* The Tournaments object is told apart from the save.
LEMMA DetachedKeeps ==
  ASSUME PurseInv, Detached
  PROVE  cups' \in CupsObjects
<1>1. mem.marks["cup"] \in Nat
  BY MemRight DEF Saves, Claims, Weekly
<1>. QED  BY <1>1, MemRight DEF Detached, CupsObjects

\* ExportCode, ImportCode and Damage
LEMMA CodeKeeps ==
  ASSUME PurseInv, ExportCode \/ ImportCode \/ Damage
  PROVE  PurseInv'
<1>1. CASE ExportCode
  BY <1>1 DEF ExportCode, PurseInv
<1>2. CASE ImportCode
  <2>1. PICK s \in code : mem' = s /\ disk' = s /\ UNCHANGED <<day, code, refused>> /\ Detached
    BY <1>2 DEF ImportCode
  <2>2. cups' \in CupsObjects
    BY <2>1, DetachedKeeps
  <2>. QED  BY <2>1, <2>2 DEF PurseInv
<1>3. CASE Damage
  BY <1>3 DEF Damage, PurseInv
<1>. QED  BY <1>1, <1>2, <1>3

\* ResetProgress
LEMMA ResetKeeps ==
  ASSUME PurseInv, ResetProgress
  PROVE  PurseInv'
<1>. DEFINE y == Mark(Fresh, "season", Week(day))
<1>1. Do(<<y>>) /\ Detached /\ UNCHANGED <<day, code>>
  BY DEF ResetProgress
<1>2. "season" \in Tracked /\ "season" \in Claims /\ Stamp("season", day) = Week(day)
      /\ Week(day) \in Nat /\ day \in Nat \ {0}
  BY MemRight, Weeks DEF Tracked, Claims, Daily, Weekly, Once, Stamp
<1>3. PaidRight(Fresh, day) /\ Kept(Fresh) /\ Fresh \in Saves /\ Fresh.marks["season"] = 0
  BY <1>2, FreshRight
<1>4. PaidRight(y, day)
  BY <1>2, <1>3, MarkRight
<1>5. Kept(y)
  BY <1>2, <1>3, MarkKept
<1>. HIDE DEF y
<1>6. cups' \in CupsObjects
  BY <1>1, DetachedKeeps
<1>. QED  BY <1>1, <1>2, <1>4, <1>5, <1>6, Do1Keeps

-----------------------------------------------------------------------------
(* The theorems                                                            *)

\* The first boot of a fresh save is right.
LEMMA InitRight == Init => PurseInv
<1>. SUFFICES ASSUME Init PROVE PurseInv
  OBVIOUS
<1>1. day = 1 /\ code = {} /\ refused = 0 /\ mem = Booted(Fresh, 1)[3] /\ disk = mem
      /\ cups = [own |-> TRUE, mark |-> 0, week |-> 1]
  BY DEF Init
<1>2. PaidRight(mem, 1) /\ Kept(mem)
  <2>1. PaidRight(Fresh, 1) /\ Kept(Fresh) /\ 3 \in 1..3 /\ 1 \in Nat \ {0}
    BY FreshRight
  <2>. QED  BY <1>1, <2>1, BootRight
<1>3. cups \in CupsObjects
  BY <1>1 DEF CupsObjects
<1>. QED  BY <1>1, <1>2, <1>3 DEF PurseInv

\* Every handler keeps every save right.
LEMMA NextKeeps == PurseInv /\ [Next]_vars => PurseInv'
<1>. SUFFICES ASSUME PurseInv, [Next]_vars PROVE PurseInv'
  OBVIOUS
<1>1. {"calendar", "rank", "campaign", "referral", "squad", "pass", "collection"}
        \subseteq Tracked \ {"starter"}
  BY DEF Tracked, Claims, Daily, Weekly, Once
<1>2. CASE ClaimCalendar \/ ClaimRankPrize \/ ClaimCampaign \/ RedeemReferral
  BY <1>1, <1>2, ClaimKeeps DEF ClaimCalendar, ClaimRankPrize, ClaimCampaign, RedeemReferral
<1>3. CASE ClaimSquadQuest \/ ClaimPass \/ CollectionBonus
  BY <1>1, <1>3, ClaimKeeps DEF ClaimSquadQuest, ClaimPass, CollectionBonus
<1>4. CASE ClaimStipend
  BY <1>4, StipendKeeps
<1>5. CASE Redeem
  BY <1>5, RedeemKeeps
<1>6. CASE BuyBundle
  BY <1>6, BundleKeeps
<1>7. CASE BuyVault \/ SpinWheel
  BY <1>7, VaultKeeps
<1>8. CASE ClaimCup
  BY <1>8, CupKeeps
<1>9. CASE BuySkin \/ BuyBoost \/ BuyTrail \/ BuyCoinGold
  <2>1. {"skin", "upgrade", "trail", "gold"} \subseteq Goods
    BY DEF Goods
  <2>. QED  BY <1>9, <2>1, BuyKeeps DEF BuySkin, BuyBoost, BuyTrail, BuyCoinGold
<1>10. CASE BuyStarter
  BY <1>10, StarterKeeps
<1>11. CASE BuyPortalVip \/ Restored
  BY <1>11, VipKeeps
<1>12. CASE ServerSells \/ Restore \/ UNCHANGED vars
  BY <1>12 DEF ServerSells, Restore, vars, PurseInv
<1>13. CASE BankRun
  BY <1>13, RunKeeps
<1>14. CASE SmashPiggyBank \/ BuyNestUpgrade \/ PerformPrestige
  BY <1>14, NestKeeps
<1>15. CASE NewDay
  BY <1>15, DayKeeps
<1>16. CASE Reload
  BY <1>16, ReloadKeeps
<1>17. CASE Damage \/ ExportCode \/ ImportCode
  BY <1>17, CodeKeeps
<1>18. CASE ResetProgress
  BY <1>18, ResetKeeps
<1>. QED
  BY <1>2, <1>3, <1>4, <1>5, <1>6, <1>7, <1>8, <1>9, <1>10, <1>11, <1>12, <1>13, <1>14, <1>15,
     <1>16, <1>17, <1>18 DEF Next

\* At every moment, every save there is (in memory, in storage, in a save code) has paid
\* only what it is stamped for, and keeps what it was stamped with unless a write was refused.
THEOREM Inductive == Spec => []PurseInv
  BY InitRight, NextKeeps, PTL DEF Spec

\* PaidOnce of Purse: no save is paid one claim twice, stipend and cups apart, for any
\* number of days, reloads, refused writes, damage and save codes.
THEOREM PaidCorrect == Spec => []PaidOnce
<1>1. PurseInv => PaidOnce
  BY DEF PurseInv, PaidOnce, PaidRight
<1>. QED  BY <1>1, Inductive, PTL

\* NothingIsLost of Purse: while storage takes every write, what is stamped was paid and
\* what was bought is owned, in memory and in storage.
THEOREM LossesCorrect == Spec => []NothingIsLost
<1>1. PurseInv => NothingIsLost
  BY DEF PurseInv, NothingIsLost, Kept
<1>. QED  BY <1>1, Inductive, PTL

\* What the types say beside the saves.
Frame ==
    /\ day \in 1..MaxDay /\ damaged \in BOOLEAN
    /\ vip \in [sold : 0..1, asked : BOOLEAN, restored : Nat]
    /\ refused \in 0..MaxRefusals /\ menu \subseteq Kinds

\* A write is taken or refused.
LEMMA PersistFrame ==
  ASSUME Frame, NEW saves, Persist(saves)
  PROVE  damaged' \in BOOLEAN /\ refused' \in 0..MaxRefusals
<1>1. damaged \in BOOLEAN /\ refused \in Nat /\ refused <= MaxRefusals /\ MaxRefusals \in Nat
  BY PurseAssumption DEF Frame
<1>2. \/ damaged' = FALSE /\ UNCHANGED refused
      \/ /\ refused < MaxRefusals /\ refused' = refused + 1
         /\ UNCHANGED damaged \/ damaged' = FALSE
  BY DEF Persist
<1>3. damaged' \in BOOLEAN
  BY <1>1, <1>2
<1>4. refused' \in 0..MaxRefusals
  BY <1>1, <1>2
<1>. QED  BY <1>3, <1>4

\* A handler of today that writes.
LEMMA DoFrame ==
  ASSUME Frame, NEW saves, Persist(saves) \/ Do(saves), UNCHANGED <<day, vip, menu>>
  PROVE  Frame'
  BY PersistFrame DEF Frame, Do

\* Claims and stipend.
LEMMA ClaimFrame ==
  ASSUME Frame, (\E c \in Claims : MarkThenPay(c) \/ PayAtOnce(c)) \/ ClaimStipend
  PROVE  Frame'
<1>1. CASE \E c \in Claims : MarkThenPay(c) \/ PayAtOnce(c)
  <2>1. PICK c \in Claims : MarkThenPay(c) \/ PayAtOnce(c)
    BY <1>1
  <2>2. CASE MarkThenPay(c)
    BY <2>2, DoFrame DEF MarkThenPay, Calm
  <2>3. CASE PayAtOnce(c)
    BY <2>3, DoFrame DEF PayAtOnce, Calm
  <2>. QED  BY <2>1, <2>2, <2>3
<1>2. CASE ClaimStipend
  BY <1>2, DoFrame DEF ClaimStipend, Calm
<1>. QED  BY <1>1, <1>2

\* Every step keeps them.
LEMMA FrameKeeps == Frame /\ [Next]_vars => Frame'
<1>. SUFFICES ASSUME Frame, [Next]_vars PROVE Frame'
  OBVIOUS
<1>1. {"calendar", "rank", "campaign", "referral", "squad", "pass", "collection"} \subseteq Claims
  BY DEF Claims, Daily, Weekly, Once
<1>2. CASE ClaimCalendar \/ ClaimRankPrize \/ ClaimCampaign \/ RedeemReferral \/ ClaimStipend
  BY <1>1, <1>2, ClaimFrame DEF ClaimCalendar, ClaimRankPrize, ClaimCampaign, RedeemReferral
<1>3. CASE ClaimSquadQuest \/ ClaimPass \/ CollectionBonus
  BY <1>1, <1>3, ClaimFrame DEF ClaimSquadQuest, ClaimPass, CollectionBonus
<1>4. CASE Redeem
  BY <1>4, DoFrame DEF Redeem, Calm
<1>5. CASE BuyBundle
  BY <1>5, DoFrame DEF BuyBundle, Calm
<1>6. CASE BuyVault
  BY <1>6, DoFrame DEF BuyVault, Calm
<1>7. CASE SpinWheel
  BY <1>7, DoFrame DEF SpinWheel, Calm
<1>8. CASE ClaimCup
  BY <1>8, DoFrame DEF ClaimCup
<1>9. ASSUME NEW k, NEW i, Buy(k, i) PROVE Frame'
  BY <1>9, DoFrame DEF Buy, Calm
<1>10. CASE BuySkin \/ BuyBoost \/ BuyTrail \/ BuyCoinGold
  BY <1>9, <1>10 DEF BuySkin, BuyBoost, BuyTrail, BuyCoinGold
<1>11. CASE BuyStarter
  BY <1>11, DoFrame DEF BuyStarter, Calm
<1>12. CASE BuyPortalVip
  BY <1>12, DoFrame DEF BuyPortalVip, Calm
<1>13. CASE ServerSells \/ Restore
  <2>1. \/ vip' = [vip EXCEPT !.sold = 1]
        \/ vip' = [vip EXCEPT !.asked = TRUE]
    BY <1>13 DEF ServerSells, Restore
  <2>2. vip' \in [sold : 0..1, asked : BOOLEAN, restored : Nat]
    <3>1. vip \in [sold : 0..1, asked : BOOLEAN, restored : Nat] /\ 1 \in 0..1
      BY DEF Frame
    <3>2. CASE vip' = [vip EXCEPT !.sold = 1]
      BY <3>1, <3>2
    <3>3. CASE vip' = [vip EXCEPT !.asked = TRUE]
      BY <3>1, <3>3
    <3>. QED  BY <2>1, <3>2, <3>3
  <2>3. UNCHANGED <<day, damaged, refused, menu>>
    BY <1>13 DEF ServerSells, Restore
  <2>. QED  BY <2>2, <2>3 DEF Frame
<1>14. CASE Restored
  <2>1. UNCHANGED <<day, menu>>
    BY <1>14 DEF Restored
  <2>2. vip.sold \in 0..1 /\ vip.restored \in Nat
    BY DEF Frame
  <2>3. vip' \in [sold : 0..1, asked : BOOLEAN, restored : Nat]
    <3>1. \/ vip' = [vip EXCEPT !.asked = FALSE, !.restored = vip.restored + 1]
          \/ vip' = [vip EXCEPT !.asked = FALSE]
      BY <1>14 DEF Restored
    <3>2. vip.restored + 1 \in Nat
      BY <2>2
    <3>. QED  BY <3>1, <3>2 DEF Frame
  <2>4. damaged' \in BOOLEAN /\ refused' \in 0..MaxRefusals
    <3>1. (\E saves : Do(saves)) \/ UNCHANGED <<damaged, refused>>
      BY <1>14 DEF Restored
    <3>. QED  BY <3>1, PersistFrame DEF Do, Frame
  <2>. QED  BY <2>1, <2>3, <2>4 DEF Frame
<1>15. CASE BankRun
  <2>1. (\E saves : Do(saves)) /\ Calm
    BY <1>15 DEF BankRun
  <2>. QED  BY <2>1, DoFrame DEF Calm
<1>16. CASE SmashPiggyBank
  BY <1>16, DoFrame DEF SmashPiggyBank, Calm
<1>17. CASE BuyNestUpgrade
  BY <1>17, DoFrame DEF BuyNestUpgrade, Calm
<1>18. CASE PerformPrestige
  BY <1>18, DoFrame DEF PerformPrestige, Calm
<1>19. CASE NewDay
  <2>1. (\E saves : Do(saves)) /\ day < MaxDay /\ day' = day + 1 /\ UNCHANGED <<vip, menu>>
    BY <1>19 DEF NewDay
  <2>2. damaged' \in BOOLEAN /\ refused' \in 0..MaxRefusals
    BY <2>1, PersistFrame DEF Do
  <2>. QED  BY <2>1, <2>2, PurseAssumption DEF Frame
<1>20. CASE Reload
  <2>1. PICK d \in {day, day + 1} : d <= MaxDay /\ day' = d /\ Do(Booted(Loaded, d))
    BY <1>20 DEF Reload
  <2>2. vip' = [vip EXCEPT !.asked = FALSE] /\ UNCHANGED menu
    BY <1>20 DEF Reload
  <2>3. damaged' \in BOOLEAN /\ refused' \in 0..MaxRefusals
    BY <2>1, PersistFrame DEF Do
  <2>4. day' \in 1..MaxDay
    BY <2>1, PurseAssumption DEF Frame
  <2>. QED  BY <2>2, <2>3, <2>4 DEF Frame
<1>21. CASE Damage \/ ExportCode \/ ImportCode \/ UNCHANGED vars
  BY <1>21 DEF Damage, ExportCode, ImportCode, vars, Frame
<1>22. CASE ResetProgress
  BY <1>22, DoFrame DEF ResetProgress
<1>. QED
  BY <1>2, <1>3, <1>4, <1>5, <1>6, <1>7, <1>8, <1>10, <1>11, <1>12, <1>13, <1>14, <1>15, <1>16,
     <1>17, <1>18, <1>19, <1>20, <1>21, <1>22 DEF Next

\* TypeOK of Purse holds in every behaviour: handlers leave saves of the shape that storage
\* and the boot expect.
THEOREM TypeCorrect == Spec => []TypeOK
<1>1. ASSUME Init PROVE Frame
  <2>1. menu \in SUBSET Kinds
    BY <1>1 DEF Init, kSubset
  <2>2. vip \in [sold : 0..1, asked : BOOLEAN, restored : Nat]
    BY <1>1 DEF Init
  <2>3. day \in 1..MaxDay /\ refused \in 0..MaxRefusals
    <3>1. day = 1 /\ refused = 0
      BY <1>1 DEF Init
    <3>. QED  BY <3>1, PurseAssumption
  <2>4. damaged \in BOOLEAN
    BY <1>1 DEF Init
  <2>. QED  BY <2>1, <2>2, <2>3, <2>4 DEF Frame
<1>2. Spec => []Frame
  BY <1>1, FrameKeeps, PTL DEF Spec
<1>3. Frame /\ PurseInv => TypeOK
  <2>. SUFFICES ASSUME Frame, PurseInv PROVE TypeOK
    OBVIOUS
  <2>1. mem \in Saves /\ disk \in Saves /\ code \subseteq Saves
    BY DEF PurseInv, PaidRight
  <2>2. cups \in [own : BOOLEAN, mark : Nat, week : Nat]
    BY DEF PurseInv, CupsObjects
  <2>. QED  BY <2>1, <2>2 DEF Frame, TypeOK
<1>. QED  BY <1>2, <1>3, Inductive, PTL

\* Where a step leaves the save: a handler writes what it leaves in memory, but for the
\* stipend, whose stamp comes after the write; or nothing is written.
LEMMA StepWrites ==
  ASSUME [Next]_vars
  PROVE  \/ \E saves : Do(saves)
         \/ ClaimStipend
         \/ mem' = disk'
         \/ damaged'
         \/ UNCHANGED <<mem, disk, damaged, refused>>
<1>1. CASE ClaimCalendar \/ ClaimRankPrize \/ ClaimCampaign \/ RedeemReferral
  <2>1. \E c : MarkThenPay(c)
    BY <1>1 DEF ClaimCalendar, ClaimRankPrize, ClaimCampaign, RedeemReferral
  <2>. QED  BY <2>1 DEF MarkThenPay
<1>2. CASE ClaimSquadQuest \/ ClaimPass \/ CollectionBonus
  <2>1. \E c : PayAtOnce(c)
    BY <1>2 DEF ClaimSquadQuest, ClaimPass, CollectionBonus
  <2>. QED  BY <2>1 DEF PayAtOnce
<1>3. CASE Redeem
  BY <1>3 DEF Redeem
<1>4. CASE BuyBundle \/ BuyVault \/ SpinWheel
  BY <1>4 DEF BuyBundle, BuyVault, SpinWheel
<1>5. CASE BuySkin \/ BuyBoost \/ BuyTrail \/ BuyCoinGold
  <2>1. \E k, i : Buy(k, i)
    BY <1>5 DEF BuySkin, BuyBoost, BuyTrail, BuyCoinGold
  <2>. QED  BY <2>1 DEF Buy
<1>6. CASE ClaimCup \/ BuyStarter \/ BuyPortalVip
  BY <1>6 DEF ClaimCup, BuyStarter, BuyPortalVip
<1>7. CASE ServerSells \/ Restore \/ ExportCode \/ UNCHANGED vars
  BY <1>7 DEF ServerSells, Restore, ExportCode, vars
<1>8. CASE Restored
  BY <1>8 DEF Restored
<1>9. CASE BankRun
  BY <1>9 DEF BankRun
<1>10. CASE SmashPiggyBank \/ BuyNestUpgrade \/ PerformPrestige
  BY <1>10 DEF SmashPiggyBank, BuyNestUpgrade, PerformPrestige
<1>11. CASE NewDay \/ Reload
  BY <1>11 DEF NewDay, Reload
<1>12. CASE ImportCode \/ Damage
  BY <1>12 DEF ImportCode, Damage
<1>13. CASE ResetProgress
  BY <1>13 DEF ResetProgress
<1>. QED
  BY <1>1, <1>2, <1>3, <1>4, <1>5, <1>6, <1>7, <1>8, <1>9, <1>10, <1>11, <1>12, <1>13 DEF Next

\* The stipend's stamp is all that a save lacks beside itself.
LEMMA StipendApart ==
  ASSUME NEW s \in Saves
  PROVE  /\ s = [s EXCEPT !.marks["stipend"] = s.marks["stipend"]]
         /\ \A d \in Nat : LET m == Mark(s, "stipend", d)
                           IN  m = [s EXCEPT !.marks["stipend"] = m.marks["stipend"]]
<1>. DEFINE c == "stipend"
<1>1. s.marks \in [Claims -> Nat] /\ c \in Claims
  BY DEF Saves, Claims, Daily
<1>2. s = [s EXCEPT !.marks[c] = s.marks[c]]
  <2>1. [s.marks EXCEPT ![c] = s.marks[c]] = s.marks
    BY <1>1
  <2>2. [s EXCEPT !.marks = s.marks] = s
    BY DEF Saves
  <2>. QED  BY <2>1, <2>2
<1>3. ASSUME NEW d \in Nat
      PROVE  Mark(s, c, d).marks[c] = d
  <2>1. Mark(s, c, d).marks = [s.marks EXCEPT ![c] = d]
    BY <1>1, MarkSave
  <2>. QED  BY <1>1, <2>1
<1>4. ASSUME NEW d \in Nat
      PROVE  LET m == Mark(s, c, d)
             IN  m = [s EXCEPT !.marks[c] = m.marks[c]]
  BY <1>3 DEF Mark
<1>. QED  BY <1>2, <1>4

\* DiskKeepsUp of Purse: while storage takes every write and keeps it, a reload at any
\* moment, between any two handlers, finds the save the player had; only the stipend's
\* stamp is not there.
THEOREM DiskCorrect == Spec => []DiskKeepsUp
<1>1. Init => DiskKeepsUp
  <2>. SUFFICES ASSUME Init PROVE DiskKeepsUp
    OBVIOUS
  <2>1. mem = disk /\ mem \in Saves
    BY InitRight DEF Init, PurseInv, PaidRight
  <2>. QED  BY <2>1, StipendApart DEF DiskKeepsUp
<1>2. DiskKeepsUp /\ PurseInv /\ PurseInv' /\ [Next]_vars => DiskKeepsUp'
  <2>. SUFFICES ASSUME DiskKeepsUp, PurseInv, PurseInv', [Next]_vars, refused' = 0, ~damaged'
                PROVE  mem' = [disk' EXCEPT !.marks["stipend"] = mem'.marks["stipend"]]
    BY DEF DiskKeepsUp
  <2>1. /\ mem \in Saves /\ mem' \in Saves /\ day \in Nat /\ refused \in Nat
    BY DEF PurseInv, PaidRight
  <2>2. ASSUME NEW saves, Persist(saves)
        PROVE  disk' = saves[Len(saves)]
    BY <2>1, <2>2 DEF Persist
  <2>3. CASE \E saves : Do(saves)
    <3>1. mem' = disk'
      BY <2>2, <2>3 DEF Do
    <3>. QED  BY <2>1, <3>1, StipendApart
  <2>4. CASE ClaimStipend
    <3>. DEFINE a == Pay(mem, "stipend", day)
                saves == <<a>>
    <3>1. mem' = Mark(a, "stipend", day) /\ Persist(saves)
      BY <2>4 DEF ClaimStipend
    <3>2. saves[Len(saves)] = a
      OBVIOUS
    <3>3. a \in Saves
      BY <2>1, PaySave DEF Claims, Daily
    <3>. HIDE DEF a, saves
    <3>4. disk' = a
      BY <2>2, <3>1, <3>2
    <3>. QED  BY <2>1, <3>1, <3>3, <3>4, StipendApart
  <2>5. CASE mem' = disk'
    BY <2>1, <2>5, StipendApart
  <2>6. CASE UNCHANGED <<mem, disk, damaged, refused>>
    BY <2>6 DEF DiskKeepsUp
  <2>. QED  BY <2>3, <2>4, <2>5, <2>6, StepWrites
<1>. QED  BY <1>1, <1>2, Inductive, PTL DEF Spec
=============================================================================
