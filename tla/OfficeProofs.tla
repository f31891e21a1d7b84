---------------------------- MODULE OfficeProofs ----------------------------
(***************************************************************************)
(* The office's promises for every number of quotes, days, browsers,       *)
(* sessions, invoices, attempts and supervisors: the map of sessions stays *)
(* bounded, an agreement has one booking, visits follow their schedule, an *)
(* invoice has one draft, and a month that is over keeps its allowances.   *)
(***************************************************************************)
EXTENDS Quotes, RecurringSchedules, SignInSessions, InvoiceSync, Allowances, FoldFacts

-----------------------------------------------------------------------------
(* Sign-in sessions *)

SigningIn == {b \in Browsers : browser[b].at = "signing in"}

SignInTypeOK ==
  /\ sessions \subseteq Ids /\ membership \in DOMAIN Permissions
  /\ browser \in [Browsers -> [at : {"away", "signing in", "identifying", "identified", "acting"},
                               id : Ids \cup {NoId}, op : Operations \cup {NoOperation},
                               role : DOMAIN Permissions]]

\* A login that is under way has its room taken already: at most as many
\* logins as there are browsers saw the last free place.
RoomTaken ==
  Cardinality(sessions) + Cardinality(SigningIn) < SessionLimit + Cardinality(Browsers)

SignInInv == SignInTypeOK /\ RoomTaken

LEMMA Finite ==
  ASSUME SignInTypeOK
  PROVE  /\ IsFiniteSet(sessions) /\ Cardinality(sessions) \in Nat
         /\ IsFiniteSet(SigningIn) /\ Cardinality(SigningIn) \in Nat
         /\ Cardinality(SigningIn) <= Cardinality(Browsers)
         /\ Cardinality(Browsers) \in Nat
<1>1. IsFiniteSet(sessions)
  BY SignInAssumption, FS_Subset DEF SignInTypeOK
<1>2. SigningIn \subseteq Browsers
  BY DEF SigningIn
<1>3. IsFiniteSet(SigningIn) /\ Cardinality(SigningIn) <= Cardinality(Browsers)
  BY <1>2, SignInAssumption, FS_Subset
<1> QED
  BY <1>1, <1>3, SignInAssumption, FS_CardinalityType

LEMMA SignInStarts == SignInInit => SignInInv
<1> SUFFICES ASSUME SignInInit PROVE SignInInv
  OBVIOUS
<1>1. SignInTypeOK
  BY DEF SignInInit, SignInTypeOK, Away, Permissions
<1>2. sessions = {} /\ SigningIn = {}
  BY DEF SignInInit, SigningIn, Away
<1>3. Cardinality({}) = 0
  BY FS_EmptySet
<1>4. RoomTaken
  BY <1>1, <1>2, <1>3, Finite, SignInAssumption DEF RoomTaken
<1> QED
  BY <1>1, <1>4 DEF SignInInv

\* A step that adds no session and starts no login keeps the room.
LEMMA NoneAdded ==
  ASSUME SignInInv, SignInTypeOK', sessions' \subseteq sessions, SigningIn' \subseteq SigningIn
  PROVE  RoomTaken'
<1>1. IsFiniteSet(sessions) /\ IsFiniteSet(SigningIn)
  BY Finite DEF SignInInv
<1>2. Cardinality(sessions') <= Cardinality(sessions) /\ Cardinality(SigningIn') <= Cardinality(SigningIn)
  BY <1>1, FS_Subset
<1>3. /\ Cardinality(sessions) \in Nat /\ Cardinality(SigningIn) \in Nat /\ Cardinality(Browsers) \in Nat
      /\ Cardinality(sessions') \in Nat /\ Cardinality(SigningIn') \in Nat
  BY <1>1, FS_Subset, FS_CardinalityType, Finite DEF SignInInv
<1> QED
  BY <1>2, <1>3, SignInAssumption DEF SignInInv, RoomTaken

LEMMA SignInStep == SignInInv /\ [SignInNext]_signInVars => SignInInv'
<1> SUFFICES ASSUME SignInInv, [SignInNext]_signInVars PROVE SignInInv'
  OBVIOUS
<1> USE DEF SignInInv
<1>1. ASSUME NEW b \in Browsers, BeginLogin(b) PROVE SignInInv'
  <2>1. SignInTypeOK'
    BY <1>1 DEF BeginLogin, SignInTypeOK, Pruned
  <2>2. Cardinality(sessions') < SessionLimit
    BY <1>1 DEF BeginLogin, HasRoom
  <2>3. SigningIn' \subseteq Browsers
    BY DEF SigningIn
  <2>4. /\ Cardinality(SigningIn') <= Cardinality(Browsers) /\ Cardinality(SigningIn') \in Nat
        /\ Cardinality(Browsers) \in Nat
    BY <2>3, FS_Subset, FS_CardinalityType, SignInAssumption
  <2>5. IsFiniteSet(sessions') /\ Cardinality(sessions') \in Nat
    BY <2>1, FS_Subset, FS_CardinalityType, SignInAssumption DEF SignInTypeOK
  <2>6. RoomTaken'
    BY <2>2, <2>4, <2>5, SignInAssumption DEF RoomTaken
  <2> QED
    BY <2>1, <2>6
<1>2. ASSUME NEW b \in Browsers, NEW i \in Ids, FinishLogin(b, i) PROVE SignInInv'
  <2>1. SignInTypeOK'
    BY <1>2 DEF FinishLogin, SignInTypeOK, Away, Permissions
  <2>2. SigningIn' = SigningIn \ {b} /\ b \in SigningIn
    BY <1>2 DEF FinishLogin, SignInTypeOK, SigningIn, Away
  <2>3. IsFiniteSet(sessions) /\ IsFiniteSet(SigningIn)
    BY Finite
  <2>4. Cardinality(SigningIn') = Cardinality(SigningIn) - 1
    BY <2>2, <2>3, FS_RemoveElement
  <2>5. Cardinality(sessions') <= Cardinality(sessions) + 1 /\ Cardinality(sessions') \in Nat
    <3>1. sessions' = sessions \cup {i}
      BY <1>2 DEF FinishLogin
    <3>2. /\ IsFiniteSet(sessions \cup {i})
          /\ Cardinality(sessions \cup {i}) = IF i \in sessions THEN Cardinality(sessions) ELSE Cardinality(sessions) + 1
      BY <2>3, FS_AddElement
    <3>3. Cardinality(sessions) \in Nat /\ Cardinality(sessions \cup {i}) \in Nat
      BY <2>3, <3>2, FS_CardinalityType
    <3> QED
      BY <3>1, <3>2, <3>3
  <2>6. RoomTaken'
    BY <2>4, <2>5, Finite, SignInAssumption DEF RoomTaken
  <2> QED
    BY <2>1, <2>6
<1>3. ASSUME NEW b \in Browsers, LoginFails(b) \/ Identify(b) \/ IdentityFails(b) \/ Act(b) \/ Deny(b) \/ Done(b)
      PROVE  SignInInv'
  <2>1. SignInTypeOK' /\ sessions' \subseteq sessions /\ SigningIn' \subseteq SigningIn
    <3>1. CASE LoginFails(b)
      BY <3>1 DEF LoginFails, SignInTypeOK, SigningIn, Away, Permissions
    <3>2. CASE Identify(b)
      BY <3>2 DEF Identify, SignInTypeOK, SigningIn
    <3>3. CASE IdentityFails(b)
      BY <3>3 DEF IdentityFails, SignInTypeOK, SigningIn, Away, Permissions
    <3>4. CASE Act(b)
      BY <3>4 DEF Act, SignInTypeOK, SigningIn
    <3>5. CASE Deny(b)
      BY <3>5 DEF Deny, SignInTypeOK, SigningIn, Away, Permissions
    <3>6. CASE Done(b)
      BY <3>6 DEF Done, SignInTypeOK, SigningIn, Away, Permissions
    <3> QED
      BY <1>3, <3>1, <3>2, <3>3, <3>4, <3>5, <3>6
  <2> QED
    BY <2>1, NoneAdded
<1>4. ASSUME NEW b \in Browsers, NEW i \in Ids, NEW op \in Operations, BeginRequest(b, i, op) PROVE SignInInv'
  <2>1. SignInTypeOK' /\ sessions' \subseteq sessions
    BY <1>4 DEF BeginRequest, SignInTypeOK, Pruned, Permissions
  <2>2. SigningIn' \subseteq SigningIn
    BY <1>4 DEF BeginRequest, SignInTypeOK, SigningIn
  <2> QED
    BY <2>1, <2>2, NoneAdded
<1>5. ASSUME NEW b \in Browsers, NEW i \in Ids, Logout(b, i) PROVE SignInInv'
  <2>1. SignInTypeOK' /\ sessions' \subseteq sessions /\ SigningIn' \subseteq SigningIn
    BY <1>5 DEF Logout, SignInTypeOK, SigningIn
  <2> QED
    BY <2>1, NoneAdded
<1>6. ASSUME NEW i \in Ids, Expire(i) PROVE SignInInv'
  <2>1. SignInTypeOK' /\ sessions' \subseteq sessions /\ SigningIn' \subseteq SigningIn
    BY <1>6 DEF Expire, SignInTypeOK, SigningIn
  <2> QED
    BY <2>1, NoneAdded
<1>7. ASSUME NEW r \in DOMAIN Permissions, ChangeRole(r) PROVE SignInInv'
  <2>1. SignInTypeOK' /\ sessions' \subseteq sessions /\ SigningIn' \subseteq SigningIn
    BY <1>7 DEF ChangeRole, SignInTypeOK, SigningIn
  <2> QED
    BY <2>1, NoneAdded
<1>8. CASE UNCHANGED signInVars
  <2>1. SignInTypeOK' /\ sessions' \subseteq sessions /\ SigningIn' \subseteq SigningIn
    BY <1>8 DEF signInVars, SignInTypeOK, SigningIn
  <2> QED
    BY <2>1, NoneAdded
<1> QED
  BY <1>1, <1>2, <1>3, <1>4, <1>5, <1>6, <1>7, <1>8 DEF SignInNext

\* However many logins are under way together, the map of sessions never
\* outgrows its limit by more than those beyond the first (login).
THEOREM SessionsStayBounded == SignInSpec => []SessionsBounded
<1>1. SignInInv => SessionsBounded
  <2> SUFFICES ASSUME SignInInv PROVE SessionsBounded
    OBVIOUS
  <2> QED
    BY Finite, SignInAssumption DEF SignInInv, RoomTaken, SessionsBounded
<1> QED
  BY <1>1, SignInStarts, SignInStep, PTL DEF SignInSpec

-----------------------------------------------------------------------------
(* Quotes *)

BookingRow ==
  [quote : Quotes, made : Details, start : Starts, status : {"draft", "cancelled"},
   price : Nat, selection : Selections, tax : Nat]

QuotesTypeOK ==
  /\ quote \in [Quotes -> QuoteRow \cup {NoQuote}]
  /\ booking \in Seq(BookingRow)
  /\ rate \in Nat /\ policy \in Nat
  /\ receipts \subseteq [quote : Quotes, asked : Details, booking : Nat]

\* A booking is the one its quote names, and as its quote was accepted.
BookingsNamed ==
  \A b \in DOMAIN booking :
    LET q == booking[b].quote
    IN  /\ Made(q) /\ Row(q).status = "converted"
        /\ Row(q).booking = b /\ Row(q).conversion = booking[b].made
        /\ Row(q).price = booking[b].price
        /\ Row(q).selection = booking[b].selection
        /\ Row(q).tax = booking[b].tax

ConvertedBooked ==
  \A q \in Quotes :
    Made(q) /\ Row(q).status = "converted" =>
      Row(q).booking \in DOMAIN booking /\ booking[Row(q).booking].quote = q

HandedOff == handoff = {<<booking[b].quote, b>> : b \in DOMAIN booking}

ReceiptsTrue ==
  \A r \in receipts :
    /\ r.booking \in DOMAIN booking
    /\ booking[r.booking].quote = r.quote /\ booking[r.booking].made = r.asked

QuotesInv == QuotesTypeOK /\ BookingsNamed /\ ConvertedBooked /\ HandedOff /\ ReceiptsTrue

LEMMA BookingsTyped ==
  ASSUME QuotesTypeOK
  PROVE  \A b \in DOMAIN booking : b \in Nat /\ booking[b] \in BookingRow /\ booking[b].quote \in Quotes
<1>1. \A b \in DOMAIN booking : b \in Nat /\ booking[b] \in BookingRow
  BY DEF QuotesTypeOK
<1> QED
  BY <1>1 DEF BookingRow

\* What a change and a conversion make of a row.
LEMMA ChangedRow ==
  ASSUME NEW r \in QuoteRow, NEW t \in {"issued", "accepted", "declined", "cancelled"}, NEW new,
         new = [r EXCEPT !.status = t, !.version = @ + 1]
  PROVE  new \in QuoteRow /\ new.status # "converted"
<1>1. new = [status |-> t, version |-> r.version + 1, selection |-> r.selection, price |-> r.price,
             tax |-> r.tax, booking |-> r.booking, conversion |-> r.conversion]
  BY DEF QuoteRow
<1>2. r.version + 1 \in Nat \ {0}
  BY DEF QuoteRow
<1> QED
  BY <1>1, <1>2 DEF QuoteRow

Converted(r, n, asked) ==
  [r EXCEPT !.status = "converted", !.version = @ + 1, !.booking = n, !.conversion = asked]

LEMMA ConvertedRow ==
  ASSUME NEW r \in QuoteRow, NEW n \in Nat, NEW asked \in Details
  PROVE  /\ Converted(r, n, asked) \in QuoteRow
         /\ Converted(r, n, asked).status = "converted" /\ Converted(r, n, asked).booking = n
         /\ Converted(r, n, asked).conversion = asked /\ Converted(r, n, asked).price = r.price
         /\ Converted(r, n, asked).selection = r.selection /\ Converted(r, n, asked).tax = r.tax
<1>1. PICK new : new = [r EXCEPT !.status = "converted", !.version = @ + 1, !.booking = n, !.conversion = asked]
  OBVIOUS
<1>2. new = [status |-> "converted", version |-> r.version + 1, selection |-> r.selection, price |-> r.price,
             tax |-> r.tax, booking |-> n, conversion |-> asked]
  BY <1>1 DEF QuoteRow
<1>3. r.version + 1 \in Nat \ {0}
  BY DEF QuoteRow
<1>4. /\ new \in QuoteRow
      /\ new.status = "converted" /\ new.booking = n /\ new.conversion = asked
      /\ new.price = r.price /\ new.selection = r.selection /\ new.tax = r.tax
  BY <1>2, <1>3 DEF QuoteRow
<1>5. Converted(r, n, asked) = new
  BY <1>1 DEF Converted
<1> QED
  BY <1>4, <1>5

LEMMA QuotesStarts == QuotesInit => QuotesInv
BY DEF QuotesInit, QuotesInv, QuotesTypeOK, BookingsNamed, ConvertedBooked, HandedOff, ReceiptsTrue, Made, Row

\* A quote that is not converted has no booking, whatever becomes of it short
\* of a conversion.
LEMMA Unconverted ==
  ASSUME QuotesInv, NEW q \in Quotes, NEW row \in QuoteRow,
         ~Made(q) \/ Row(q).status # "converted", row.status # "converted",
         quote' = [quote EXCEPT ![q] = row],
         UNCHANGED <<booking, handoff, rate, policy, contact, receipts>>
  PROVE  QuotesInv'
<1>1. QuotesTypeOK'
  BY DEF QuotesInv, QuotesTypeOK
<1>2. \A b \in DOMAIN booking : booking[b].quote \in Quotes /\ booking[b].quote # q
  BY BookingsTyped DEF QuotesInv, BookingsNamed
<1>3. quote'[q] = row /\ \A p \in Quotes \ {q} : quote'[p] = quote[p]
  BY DEF QuotesInv, QuotesTypeOK
<1>4. BookingsNamed'
  BY <1>2, <1>3 DEF QuotesInv, BookingsNamed, Made, Row
<1>5. ConvertedBooked'
  BY <1>3 DEF QuotesInv, ConvertedBooked, Made, Row
<1>6. HandedOff' /\ ReceiptsTrue'
  BY DEF QuotesInv, HandedOff, ReceiptsTrue
<1> QED
  BY <1>1, <1>4, <1>5, <1>6 DEF QuotesInv

\* The triggers of an inserted booking keep what the rows say of each other.
LEMMA Inserted ==
  ASSUME QuotesInv, NEW q \in Quotes, NEW asked \in Details,
         Made(q), Bookable(q, asked), InsertBooking(q, asked),
         UNCHANGED <<rate, policy>>,
         receipts' \in {receipts, receipts \cup {Receipt(q, asked, Len(booking) + 1)}}
  PROVE  QuotesInv'
<1> DEFINE n == Len(booking) + 1
           new == [quote |-> q, made |-> asked, start |-> asked.start, status |-> "draft",
                   price |-> Row(q).price, selection |-> Row(q).selection, tax |-> Row(q).tax]
           row == Converted(Row(q), n, asked)
<1>1. booking \in Seq(BookingRow) /\ quote \in [Quotes -> QuoteRow \cup {NoQuote}] /\ Row(q) \in QuoteRow
  BY DEF QuotesInv, QuotesTypeOK, Made, Row
<1>2. /\ new \in BookingRow /\ n \in Nat
      /\ new.quote = q /\ new.made = asked /\ new.price = Row(q).price
      /\ new.selection = Row(q).selection /\ new.tax = Row(q).tax
  BY <1>1 DEF BookingRow, QuoteRow, Details
<1>3. /\ row \in QuoteRow /\ row # NoQuote
      /\ row.status = "converted" /\ row.booking = n /\ row.conversion = asked
      /\ row.price = new.price /\ row.selection = new.selection /\ row.tax = new.tax
  <2>1. /\ row \in QuoteRow
        /\ row.status = "converted" /\ row.booking = n /\ row.conversion = asked
        /\ row.price = Row(q).price /\ row.selection = Row(q).selection /\ row.tax = Row(q).tax
    <3> HIDE DEF n
    <3> QED
      BY <1>1, <1>2, ConvertedRow
  <2> QED
    BY <2>1, QuotesAssumption
<1>4. /\ booking' = Append(booking, new) /\ DOMAIN booking' = DOMAIN booking \cup {n}
      /\ booking'[n] = new /\ \A b \in DOMAIN booking : booking'[b] = booking[b] /\ b # n
  BY <1>1, <1>2 DEF InsertBooking
<1>5. quote' = [quote EXCEPT ![q] = row]
  BY <1>1 DEF InsertBooking, Row, Converted
<1> HIDE DEF n, new, row
<1>6. quote'[q] = row /\ \A p \in Quotes \ {q} : quote'[p] = quote[p]
  BY <1>1, <1>5
<1>7. \A b \in DOMAIN booking : booking[b].quote \in Quotes \ {q}
  BY BookingsTyped DEF Bookable, QuotesInv
<1>8. QuotesTypeOK'
  <2>1. receipts' \subseteq [quote : Quotes, asked : Details, booking : Nat]
    BY <1>2 DEF n, QuotesInv, QuotesTypeOK, Receipt
  <2> QED
    BY <1>1, <1>2, <1>3, <1>4, <1>5, <2>1 DEF QuotesInv, QuotesTypeOK
<1>9. BookingsNamed'
  <2> SUFFICES ASSUME NEW b \in DOMAIN booking'
               PROVE  LET p == booking'[b].quote
                      IN  /\ quote'[p] # NoQuote /\ quote'[p].status = "converted"
                          /\ quote'[p].booking = b /\ quote'[p].conversion = booking'[b].made
                          /\ quote'[p].price = booking'[b].price
                          /\ quote'[p].selection = booking'[b].selection
                          /\ quote'[p].tax = booking'[b].tax
    BY DEF BookingsNamed, Made, Row
  <2>1. CASE b = n
    BY <2>1, <1>2, <1>3, <1>4, <1>6
  <2>2. CASE b \in DOMAIN booking
    <3>1. booking'[b] = booking[b] /\ quote'[booking[b].quote] = quote[booking[b].quote]
      BY <2>2, <1>4, <1>6, <1>7
    <3> QED
      BY <3>1, <2>2 DEF QuotesInv, BookingsNamed, Made, Row
  <2> QED
    BY <2>1, <2>2, <1>4
<1>10. ConvertedBooked'
  <2> SUFFICES ASSUME NEW p \in Quotes, quote'[p] # NoQuote, quote'[p].status = "converted"
               PROVE  quote'[p].booking \in DOMAIN booking' /\ booking'[quote'[p].booking].quote = p
    BY DEF ConvertedBooked, Made, Row
  <2>1. CASE p = q
    BY <2>1, <1>2, <1>3, <1>4, <1>6
  <2>2. CASE p # q
    BY <2>2, <1>4, <1>6 DEF QuotesInv, ConvertedBooked, Made, Row
  <2> QED
    BY <2>1, <2>2
<1>11. HandedOff'
  <2>1. handoff' = handoff \cup {<<q, n>>}
    BY DEF InsertBooking, n
  <2> QED
    BY <2>1, <1>2, <1>4 DEF QuotesInv, HandedOff
<1>12. ReceiptsTrue'
  BY <1>2, <1>4 DEF QuotesInv, ReceiptsTrue, Receipt, n
<1> QED
  BY <1>8, <1>9, <1>10, <1>11, <1>12 DEF QuotesInv

\* What a booking does later is nothing the quote says anything about.
LEMMA BookingLives ==
  ASSUME QuotesInv, NEW b \in DOMAIN booking, NEW new \in BookingRow,
         new.quote = booking[b].quote, new.made = booking[b].made, new.price = booking[b].price,
         new.selection = booking[b].selection, new.tax = booking[b].tax,
         booking' = [booking EXCEPT ![b] = new],
         UNCHANGED <<quote, handoff, rate, policy, contact, receipts>>
  PROVE  QuotesInv'
<1>1. booking \in Seq(BookingRow)
  BY DEF QuotesInv, QuotesTypeOK
<1>2. /\ booking' \in Seq(BookingRow) /\ DOMAIN booking' = DOMAIN booking
      /\ \A c \in DOMAIN booking : booking'[c] = IF c = b THEN new ELSE booking[c]
  BY <1>1
<1>3. \A c \in DOMAIN booking :
        /\ booking'[c].quote = booking[c].quote /\ booking'[c].made = booking[c].made
        /\ booking'[c].price = booking[c].price /\ booking'[c].selection = booking[c].selection
        /\ booking'[c].tax = booking[c].tax
  BY <1>2
<1>4. QuotesTypeOK'
  BY <1>2 DEF QuotesInv, QuotesTypeOK
<1>5. BookingsNamed'
  BY <1>2, <1>3 DEF QuotesInv, BookingsNamed, Made, Row
<1>6. ConvertedBooked' /\ HandedOff' /\ ReceiptsTrue'
  BY <1>2, <1>3 DEF QuotesInv, ConvertedBooked, HandedOff, ReceiptsTrue, Made, Row
<1> QED
  BY <1>4, <1>5, <1>6 DEF QuotesInv

LEMMA QuotesStep == QuotesInv /\ [QuotesNext]_quoteVars => QuotesInv'
<1> SUFFICES ASSUME QuotesInv, [QuotesNext]_quoteVars PROVE QuotesInv'
  OBVIOUS
<1>1. ASSUME NEW q \in Quotes, NEW s \in Selections, CreateQuote(q, s) PROVE QuotesInv'
  <2> DEFINE row == [status |-> "draft", version |-> 1, selection |-> s, price |-> rate,
                     tax |-> policy, booking |-> NoBooking, conversion |-> NoBooking]
  <2>1. row \in QuoteRow /\ row.status # "converted"
    BY DEF QuotesInv, QuotesTypeOK, QuoteRow
  <2> HIDE DEF row
  <2>2. /\ quote' = [quote EXCEPT ![q] = row] /\ ~Made(q)
        /\ UNCHANGED <<booking, handoff, rate, policy, contact, receipts>>
    BY <1>1 DEF CreateQuote, row
  <2> QED
    BY <2>1, <2>2, Unconverted
<1>2. ASSUME NEW q \in Quotes, NEW v \in SeenVersions(q),
             NEW t \in {"issued", "accepted", "declined", "cancelled"}, ChangeQuote(q, v, t)
      PROVE  QuotesInv'
  <2> DEFINE row == [Row(q) EXCEPT !.status = t, !.version = @ + 1]
  <2>1. Row(q) \in QuoteRow
    BY <1>2 DEF ChangeQuote, QuotesInv, QuotesTypeOK, Made, Row
  <2>2. row \in QuoteRow /\ row.status # "converted"
    BY <2>1, ChangedRow
  <2>3. Row(q).status # "converted"
    BY <1>2 DEF ChangeQuote, Transitions
  <2>4. quote' = [quote EXCEPT ![q] = row]
    BY <1>2 DEF ChangeQuote, QuotesInv, QuotesTypeOK, Row
  <2>5. UNCHANGED <<booking, handoff, rate, policy, contact, receipts>>
    BY <1>2 DEF ChangeQuote
  <2> HIDE DEF row
  <2> QED
    BY <2>2, <2>3, <2>4, <2>5, Unconverted
<1>3. ASSUME NEW q \in Quotes, NEW v \in SeenVersions(q), NEW a \in Details, ConvertQuote(q, v, a)
      PROVE  QuotesInv'
  BY <1>3, Inserted DEF ConvertQuote
<1>4. ASSUME NEW q \in Quotes, NEW a \in Details, InsertDirectly(q, a) PROVE QuotesInv'
  BY <1>4, Inserted DEF InsertDirectly
<1>5. ASSUME NEW q \in Quotes, NEW a \in Details, ConvertAgain(q, a) PROVE QuotesInv'
  <2>1. /\ Row(q).booking \in DOMAIN booking /\ booking[Row(q).booking].quote = q
        /\ booking[Row(q).booking].made = a
    BY <1>5 DEF ConvertAgain, ReplayMatches, QuotesInv, ConvertedBooked, BookingsNamed
  <2>2. Row(q).booking \in Nat
    BY <2>1 DEF QuotesInv, QuotesTypeOK
  <2>3. receipts' = receipts \cup {Receipt(q, a, Row(q).booking)}
    BY <1>5 DEF ConvertAgain
  <2>4. UNCHANGED <<quote, booking, handoff, rate, policy, contact>>
    BY <1>5 DEF ConvertAgain
  <2>5. QuotesTypeOK' /\ ReceiptsTrue'
    BY <2>1, <2>2, <2>3, <2>4 DEF QuotesInv, QuotesTypeOK, ReceiptsTrue, Receipt
  <2>6. BookingsNamed' /\ ConvertedBooked' /\ HandedOff'
    BY <2>4 DEF QuotesInv, BookingsNamed, ConvertedBooked, HandedOff, Made, Row
  <2> QED
    BY <2>5, <2>6 DEF QuotesInv
<1>6. ASSUME NEW b \in DOMAIN booking, CancelBooking(b) \/ \E s \in Starts : MoveBooking(b, s)
      PROVE  QuotesInv'
  <2>1. booking[b] \in BookingRow
    BY DEF QuotesInv, QuotesTypeOK
  <2>2. CASE CancelBooking(b)
    <3> DEFINE new == [booking[b] EXCEPT !.status = "cancelled"]
    <3>1. /\ new \in BookingRow /\ new.quote = booking[b].quote /\ new.made = booking[b].made
          /\ new.price = booking[b].price /\ new.selection = booking[b].selection /\ new.tax = booking[b].tax
      BY <2>1 DEF BookingRow
    <3>2. booking' = [booking EXCEPT ![b] = new] /\ UNCHANGED <<quote, handoff, rate, policy, contact, receipts>>
      BY <2>2 DEF CancelBooking
    <3> HIDE DEF new
    <3> QED
      BY <3>1, <3>2, BookingLives
  <2>3. ASSUME NEW s \in Starts, MoveBooking(b, s) PROVE QuotesInv'
    <3> DEFINE new == [booking[b] EXCEPT !.start = s]
    <3>1. /\ new \in BookingRow /\ new.quote = booking[b].quote /\ new.made = booking[b].made
          /\ new.price = booking[b].price /\ new.selection = booking[b].selection /\ new.tax = booking[b].tax
      BY <2>1 DEF BookingRow
    <3>2. booking' = [booking EXCEPT ![b] = new] /\ UNCHANGED <<quote, handoff, rate, policy, contact, receipts>>
      BY <2>3 DEF MoveBooking
    <3> HIDE DEF new
    <3> QED
      BY <3>1, <3>2, BookingLives
  <2> QED
    BY <1>6, <2>2, <2>3
<1>7. ASSUME (\E v \in 0 .. policy : ConfigureVat(v)) \/ ChangeRate \/ ChangeContact \/ UNCHANGED quoteVars
      PROVE  QuotesInv'
  <2>1. UNCHANGED <<quote, booking, handoff, receipts>>
    BY <1>7 DEF ConfigureVat, ChangeRate, ChangeContact, quoteVars
  <2>2. rate' \in Nat /\ policy' \in Nat
    BY <1>7 DEF ConfigureVat, ChangeRate, ChangeContact, quoteVars, QuotesInv, QuotesTypeOK
  <2> QED
    BY <2>1, <2>2 DEF QuotesInv, QuotesTypeOK, BookingsNamed, ConvertedBooked, HandedOff, ReceiptsTrue, Made, Row
<1> QED
  BY <1>1, <1>2, <1>3, <1>4, <1>5, <1>6, <1>7 DEF QuotesNext

\* However conversions, retries, direct inserts and cancellations follow each
\* other, a converted quote has its one booking and handoff as accepted, no
\* other quote has any, and every answer named that booking (convert_quote,
\* prepare_quote_booking, finish_quote_booking).
THEOREM AgreementBookedOnce == QuotesSpec => []OneBookingPerAgreement
<1>1. QuotesInv => OneBookingPerAgreement
  <2> SUFFICES ASSUME QuotesInv PROVE OneBookingPerAgreement
    OBVIOUS
  <2>1. \A b \in DOMAIN booking : b \in Nat /\ booking[b].quote \in Quotes
    BY BookingsTyped DEF QuotesInv
  <2>2. ASSUME NEW q \in Quotes, Made(q), Row(q).status = "converted"
        PROVE  /\ BookingsOf(q) = {Row(q).booking}
               /\ handoff \cap ({q} \X Nat) = {<<q, Row(q).booking>>}
               /\ booking[Row(q).booking].price = Row(q).price
               /\ booking[Row(q).booking].selection = Row(q).selection
               /\ booking[Row(q).booking].tax = Row(q).tax
    <3>1. /\ Row(q).booking \in DOMAIN booking /\ booking[Row(q).booking].quote = q
          /\ \A b \in DOMAIN booking : booking[b].quote = q => b = Row(q).booking
      BY <2>2 DEF QuotesInv, ConvertedBooked, BookingsNamed
    <3>2. BookingsOf(q) = {Row(q).booking}
      BY <3>1 DEF BookingsOf
    <3>3. handoff \cap ({q} \X Nat) = {<<q, Row(q).booking>>}
      BY <2>1, <3>1 DEF QuotesInv, HandedOff
    <3> QED
      BY <3>1, <3>2, <3>3 DEF QuotesInv, BookingsNamed
  <2>3. ASSUME NEW q \in Quotes, ~(Made(q) /\ Row(q).status = "converted")
        PROVE  BookingsOf(q) = {} /\ handoff \cap ({q} \X Nat) = {}
    <3>1. \A b \in DOMAIN booking : booking[b].quote # q
      BY <2>3 DEF QuotesInv, BookingsNamed
    <3> QED
      BY <3>1 DEF BookingsOf, QuotesInv, HandedOff
  <2>4. \A r \in receipts :
          Made(r.quote) /\ Row(r.quote).booking = r.booking /\ booking[r.booking].made = r.asked
    BY DEF QuotesInv, ReceiptsTrue, BookingsNamed
  <2> QED
    BY <2>2, <2>3, <2>4 DEF OneBookingPerAgreement
<1> QED
  BY <1>1, QuotesStarts, QuotesStep, PTL DEF QuotesSpec

-----------------------------------------------------------------------------
(* Recurring schedules *)

Visit == [day : Nat, revision : Nat, status : {"draft", "cancelled"}]
Event == [row : ScheduleRow, on : Nat]

RecurringTypeOK ==
  /\ schedule \in ScheduleRow \cup {NoSchedule}
  /\ events \in Seq(Event)
  /\ visit \subseteq Visit
  /\ now \in Nat

\* The log ends with the row and holds one row of each version.
LogComplete ==
  IF Started
    THEN Len(events) = schedule.version /\ events[Len(events)].row = schedule
    ELSE events = <<>> /\ visit = {}

RevisionsKnown == \A v \in visit : v.revision \in DOMAIN events

RecurringInv == RecurringTypeOK /\ LogComplete /\ RevisionsKnown /\ VisitsFollowSchedule

\* What a change and a generation make of the row.
Revised(s, r, status) == [s EXCEPT !.rule = r, !.status = status, !.version = @ + 1]

LEMMA RevisedRow ==
  ASSUME NEW s \in ScheduleRow, NEW r \in Rules, NEW status \in {"active", "paused", "cancelled"}
  PROVE  /\ Revised(s, r, status) \in ScheduleRow /\ Revised(s, r, status).version = s.version + 1
         /\ Revised(s, r, status).through = s.through
<1>1. PICK new : new = [s EXCEPT !.rule = r, !.status = status, !.version = @ + 1]
  OBVIOUS
<1>2. new = [rule |-> r, status |-> status, through |-> s.through, version |-> s.version + 1]
  BY <1>1 DEF ScheduleRow
<1>3. s.version + 1 \in Nat \ {0}
  BY DEF ScheduleRow
<1>4. new \in ScheduleRow /\ new.version = s.version + 1 /\ new.through = s.through
  BY <1>2, <1>3 DEF ScheduleRow
<1>5. Revised(s, r, status) = new
  BY <1>1 DEF Revised
<1> QED
  BY <1>4, <1>5

Extended(s, through) == [s EXCEPT !.through = through, !.version = @ + 1]

LEMMA ExtendedRow ==
  ASSUME NEW s \in ScheduleRow, NEW through \in Nat
  PROVE  /\ Extended(s, through) \in ScheduleRow /\ Extended(s, through).version = s.version + 1
         /\ Extended(s, through).through = through
<1>1. PICK new : new = [s EXCEPT !.through = through, !.version = @ + 1]
  OBVIOUS
<1>2. new = [rule |-> s.rule, status |-> s.status, through |-> through, version |-> s.version + 1]
  BY <1>1 DEF ScheduleRow
<1>3. s.version + 1 \in Nat \ {0}
  BY DEF ScheduleRow
<1>4. new \in ScheduleRow /\ new.version = s.version + 1 /\ new.through = through
  BY <1>2, <1>3 DEF ScheduleRow
<1>5. Extended(s, through) = new
  BY <1>1 DEF Extended
<1> QED
  BY <1>4, <1>5

LEMMA RecurringStarts == RecurringInit => RecurringInv
<1> SUFFICES ASSUME RecurringInit PROVE RecurringInv
  OBVIOUS
<1>1. RecurringTypeOK /\ LogComplete /\ RevisionsKnown
  BY DEF RecurringInit, RecurringTypeOK, LogComplete, RevisionsKnown, Started
<1>2. Len(events) = 0 /\ visit = {}
  BY DEF RecurringInit
<1>3. VisitsFollowSchedule
  BY <1>2 DEF VisitsFollowSchedule, NothingSkipped, ChangesApplyAhead
<1> QED
  BY <1>1, <1>3 DEF RecurringInv

\* What a saved row does to the log.
LEMMA Logged ==
  ASSUME RecurringInv, NEW row \in ScheduleRow, Save(row), row.version = Len(events) + 1
  PROVE  /\ events' \in Seq(Event) /\ Len(events') = Len(events) + 1
         /\ \A k \in 1 .. Len(events) : events'[k] = events[k]
         /\ events'[Len(events) + 1].row = row /\ events'[Len(events) + 1].on = Today
         /\ schedule' = row /\ LogComplete'
<1>1. now \in Nat /\ events \in Seq(Event)
  BY DEF RecurringInv, RecurringTypeOK
<1>2. Today \in Nat
  BY <1>1 DEF Today
<1>3. [row |-> row, on |-> Today] \in Event
  BY <1>2 DEF Event
<1>4. /\ events' \in Seq(Event) /\ Len(events') = Len(events) + 1
      /\ \A k \in 1 .. Len(events) : events'[k] = events[k]
      /\ events'[Len(events) + 1] = [row |-> row, on |-> Today]
  BY <1>1, <1>3 DEF Save
<1>5. schedule' = row /\ row # NoSchedule
  BY SchedulesAssumption DEF Save
<1> QED
  BY <1>4, <1>5 DEF LogComplete, Started

\* Visits that are added for days beyond the boundary of the row there is, due
\* under its rule and not visited yet, keep to the schedule, whatever is saved.
LEMMA AddedAhead ==
  ASSUME RecurringInv, Started, events' \in Seq(Event), Len(events) <= Len(events'),
         \A k \in 1 .. Len(events) : events'[k] = events[k],
         NEW added,
         \A v \in added : /\ v = NewVisit(v.day) /\ v.day \in DueOn[schedule.rule]
                         /\ v.day > schedule.through /\ ~Exists(v.day),
         visit' = visit \cup added
  PROVE  /\ visit' \subseteq Visit /\ RevisionsKnown' /\ ChangesApplyAhead'
         /\ \A d : Exists(d) => Exists(d)'
<1>1. /\ schedule \in ScheduleRow /\ events \in Seq(Event) /\ visit \subseteq Visit
      /\ Len(events) = schedule.version /\ events[Len(events)].row = schedule
  BY DEF RecurringInv, RecurringTypeOK, LogComplete, Started
<1>2. schedule.rule \in Rules /\ schedule.version \in DOMAIN events /\ schedule.version \in Nat
  BY <1>1 DEF ScheduleRow
<1>3. \A v \in added : v.day \in Nat
  BY <1>2, SchedulesAssumption
<1>4. \A v \in added : v \in Visit /\ v.revision = schedule.version
  BY <1>2, <1>3 DEF NewVisit, Visit
<1>5. visit' \subseteq Visit
  BY <1>1, <1>4
<1>6. DOMAIN events \subseteq DOMAIN events' /\ \A k \in DOMAIN events : events'[k] = events[k]
  BY <1>1
<1>7. RevisionsKnown'
  BY <1>2, <1>4, <1>6 DEF RecurringInv, RevisionsKnown
<1>8. \A v \in visit' : v.day \in DueOn[RowOf(v.revision)'.rule] /\ v.day > RowOf(v.revision)'.through
  <2> SUFFICES ASSUME NEW v \in visit'
               PROVE  v.day \in DueOn[events'[v.revision].row.rule] /\ v.day > events'[v.revision].row.through
    BY DEF RowOf
  <2>1. CASE v \in visit
    BY <2>1, <1>6 DEF RecurringInv, RevisionsKnown, VisitsFollowSchedule, ChangesApplyAhead, RowOf
  <2>2. CASE v \in added
    <3>1. events'[v.revision].row = schedule
      BY <2>2, <1>1, <1>2, <1>4, <1>6
    <3> QED
      BY <3>1, <2>2, <1>4
  <2> QED
    BY <2>1, <2>2
<1>9. \A v, w \in visit' : v.day = w.day => v = w
  <2> SUFFICES ASSUME NEW v \in visit', NEW w \in visit', v.day = w.day PROVE v = w
    OBVIOUS
  <2>1. CASE v \in visit /\ w \in visit
    BY <2>1 DEF RecurringInv, VisitsFollowSchedule, ChangesApplyAhead
  <2>2. CASE v \in visit /\ w \notin visit
    BY <2>2, <1>4 DEF Exists
  <2>3. CASE v \notin visit /\ w \in visit
    BY <2>3, <1>4 DEF Exists
  <2>4. CASE v \notin visit /\ w \notin visit
    <3>1. v \in added /\ w \in added
      BY <2>4
    <3> QED
      BY <3>1
  <2> QED
    BY <2>1, <2>2, <2>3, <2>4
<1>10. ChangesApplyAhead'
  BY <1>8, <1>9 DEF ChangesApplyAhead
<1>11. \A d : Exists(d) => Exists(d)'
  BY DEF Exists
<1> QED
  BY <1>5, <1>7, <1>10, <1>11

\* A saved row skips nothing when the days it moves its boundary over, later
\* than today, are visited.
LEMMA NothingPassedOver ==
  ASSUME RecurringInv, Started, NEW row \in ScheduleRow,
         events' \in Seq(Event), Len(events') = Len(events) + 1,
         \A k \in 1 .. Len(events) : events'[k] = events[k],
         events'[Len(events) + 1].row = row, events'[Len(events) + 1].on = Today,
         \A d : Exists(d) => Exists(d)',
         \A d \in schedule.through + 1 .. row.through :
           d > Today /\ d \in DueOn[schedule.rule] => Exists(d)'
  PROVE  NothingSkipped'
<1>1. /\ schedule \in ScheduleRow /\ events \in Seq(Event)
      /\ Len(events) = schedule.version /\ events[Len(events)].row = schedule
  BY DEF RecurringInv, RecurringTypeOK, LogComplete, Started
<1> SUFFICES ASSUME NEW k \in 2 .. Len(events'),
                    NEW d \in events'[k - 1].row.through + 1 .. events'[k].row.through,
                    d > events'[k].on, d \in DueOn[events'[k - 1].row.rule]
             PROVE  Exists(d)'
  BY DEF NothingSkipped, RowOf
<1>2. CASE k <= Len(events)
  <2>0. Len(events) \in Nat /\ Len(events') \in Nat
    BY <1>1
  <2>1. k \in 1 .. Len(events) /\ k - 1 \in 1 .. Len(events) /\ k \in 2 .. Len(events)
    BY <1>2, <2>0
  <2>2. events'[k] = events[k] /\ events'[k - 1] = events[k - 1]
    BY <2>1
  <2> QED
    BY <2>1, <2>2 DEF RecurringInv, VisitsFollowSchedule, NothingSkipped, RowOf
<1>3. CASE k = Len(events) + 1
  <2>1. events'[k - 1].row = schedule /\ events'[k].row = row /\ events'[k].on = Today
    BY <1>1, <1>3
  <2> QED
    BY <2>1
<1> QED
  BY <1>1, <1>2, <1>3

LEMMA RecurringStep == RecurringInv /\ [RecurringNext]_recurringVars => RecurringInv'
<1> SUFFICES ASSUME RecurringInv, [RecurringNext]_recurringVars PROVE RecurringInv'
  OBVIOUS
<1>0. schedule \in ScheduleRow \cup {NoSchedule} /\ events \in Seq(Event) /\ visit \subseteq Visit /\ now \in Nat
  BY DEF RecurringInv, RecurringTypeOK
<1>1. ASSUME NEW r \in Rules, CreateRecurring(r) PROVE RecurringInv'
  <2> DEFINE row == [rule |-> r, status |-> "active", through |-> 0, version |-> 1]
  <2>1. row \in ScheduleRow /\ row.version = 1
    BY DEF ScheduleRow
  <2>2. Len(events) = 0 /\ visit' = {}
    BY <1>1 DEF CreateRecurring, RecurringInv, LogComplete
  <2>3. Save(row) /\ UNCHANGED now
    BY <1>1 DEF CreateRecurring
  <2> HIDE DEF row
  <2>4. events' \in Seq(Event) /\ Len(events') = 1 /\ schedule' = row /\ LogComplete'
    BY <2>1, <2>2, <2>3, Logged
  <2>5. RecurringTypeOK' /\ RevisionsKnown'
    BY <1>0, <2>1, <2>2, <2>3, <2>4 DEF RecurringTypeOK, RevisionsKnown
  <2>6. VisitsFollowSchedule'
    BY <2>2, <2>4 DEF VisitsFollowSchedule, NothingSkipped, ChangesApplyAhead
  <2> QED
    BY <2>4, <2>5, <2>6 DEF RecurringInv
<1>2. ASSUME NEW version \in SeenRevisions, NEW r \in Rules, NEW status \in {"active", "paused", "cancelled"},
             ChangeRecurring(version, r, status)
      PROVE  RecurringInv'
  <2> DEFINE row == Revised(schedule, r, status)
  <2>1. Started /\ schedule \in ScheduleRow /\ schedule.version = Len(events)
    BY <1>2, <1>0 DEF ChangeRecurring, Started, RecurringInv, LogComplete
  <2>2. row \in ScheduleRow /\ row.version = Len(events) + 1 /\ row.through = schedule.through
    BY <2>1, RevisedRow
  <2>3. Save(row) /\ UNCHANGED <<visit, now>>
    BY <1>2 DEF ChangeRecurring, Revised
  <2> HIDE DEF row
  <2>4. /\ events' \in Seq(Event) /\ Len(events') = Len(events) + 1
        /\ \A k \in 1 .. Len(events) : events'[k] = events[k]
        /\ events'[Len(events) + 1].row = row /\ events'[Len(events) + 1].on = Today
        /\ schedule' = row /\ LogComplete'
    BY <2>2, <2>3, Logged
  <2>5. /\ visit' \subseteq Visit /\ RevisionsKnown' /\ ChangesApplyAhead'
        /\ \A d : Exists(d) => Exists(d)'
    <3> DEFINE added == {}
    <3>1. /\ visit' = visit \cup added
          /\ \A v \in added : /\ v = NewVisit(v.day) /\ v.day \in DueOn[schedule.rule]
                              /\ v.day > schedule.through /\ ~Exists(v.day)
      BY <2>3
    <3>2. Len(events) <= Len(events')
      BY <1>0, <2>4
    <3> HIDE DEF added
    <3> QED
      BY <2>1, <2>4, <3>1, <3>2, AddedAhead
  <2>6. schedule.through + 1 .. row.through = {}
    BY <2>1, <2>2 DEF ScheduleRow
  <2>7. NothingSkipped'
    BY <2>1, <2>2, <2>4, <2>5, <2>6, NothingPassedOver
  <2>8. RecurringTypeOK'
    BY <1>0, <2>2, <2>3, <2>4, <2>5 DEF RecurringTypeOK
  <2> QED
    BY <2>4, <2>5, <2>7, <2>8 DEF RecurringInv, VisitsFollowSchedule
<1>3. ASSUME NEW version \in SeenRevisions, NEW through \in Days, GenerateRecurring(version, through)
      PROVE  RecurringInv'
  <2> DEFINE row == Extended(schedule, through)
  <2>1. Started /\ schedule \in ScheduleRow /\ schedule.version = Len(events) /\ through \in Nat
    BY <1>3, <1>0, SchedulesAssumption DEF GenerateRecurring, Started, RecurringInv, LogComplete
  <2>2. row \in ScheduleRow /\ row.version = Len(events) + 1 /\ row.through = through
    BY <2>1, ExtendedRow
  <2>3. Save(row) /\ UNCHANGED now /\ visit' = visit \cup {NewVisit(d) : d \in Missing(through)}
    BY <1>3 DEF GenerateRecurring, Extended
  <2> HIDE DEF row
  <2>4. /\ events' \in Seq(Event) /\ Len(events') = Len(events) + 1
        /\ \A k \in 1 .. Len(events) : events'[k] = events[k]
        /\ events'[Len(events) + 1].row = row /\ events'[Len(events) + 1].on = Today
        /\ schedule' = row /\ LogComplete'
    BY <2>2, <2>3, Logged
  <2>5. /\ Today \in Nat /\ schedule.through \in Nat /\ FirstDay \in Nat
        /\ FirstDay >= schedule.through + 1 /\ FirstDay >= Today
        /\ FirstDay = schedule.through + 1 \/ FirstDay = Today
    BY <1>0, <2>1 DEF Today, FirstDay, ScheduleRow
  <2> DEFINE added == {NewVisit(d) : d \in Missing(through)}
  <2>6. \A v \in added : /\ v = NewVisit(v.day) /\ v.day \in DueOn[schedule.rule]
                         /\ v.day > schedule.through /\ ~Exists(v.day)
    <3>1. \A d \in Missing(through) : d \in DueOn[schedule.rule] /\ d > schedule.through /\ ~Exists(d)
      BY <2>5 DEF Missing
    <3>2. \A d : NewVisit(d).day = d
      BY DEF NewVisit
    <3> QED
      BY <3>1, <3>2
  <2>11. \A d \in Missing(through) : Exists(d)'
    <3>1. \A d : NewVisit(d).day = d
      BY DEF NewVisit
    <3> QED
      BY <2>3, <3>1 DEF Exists
  <2>12. visit' = visit \cup added
    BY <2>3
  <2> HIDE DEF added
  <2>13. RecurringInv /\ Len(events) <= Len(events')
    BY <1>0, <2>1, <2>4 DEF ScheduleRow
  <2>7. /\ visit' \subseteq Visit /\ RevisionsKnown' /\ ChangesApplyAhead'
        /\ \A e : Exists(e) => Exists(e)'
    BY <2>1, <2>4, <2>6, <2>12, <2>13, AddedAhead
  <2>8. ASSUME NEW d \in schedule.through + 1 .. through, d > Today, d \in DueOn[schedule.rule]
        PROVE  Exists(d)'
    <3>1. d \in FirstDay .. through
      BY <2>1, <2>5, <2>8
    <3>2. HourOf[schedule.rule] \in {0, 1}
      BY <2>1, SchedulesAssumption DEF ScheduleRow
    <3>3. StartOn(d) > now
      BY <1>0, <2>8, <2>5, <3>2 DEF StartOn, Today
    <3>4. CASE Exists(d)
      BY <3>4, <2>7, <3>1
    <3>5. CASE ~Exists(d)
      <4>1. d \in Missing(through)
        BY <3>1, <3>3, <3>5, <2>8 DEF Missing
      <4> QED
        BY <4>1, <2>11
    <3> QED
      BY <3>4, <3>5
  <2>9. NothingSkipped'
    <3>1. \A d \in schedule.through + 1 .. row.through :
            d > Today /\ d \in DueOn[schedule.rule] => Exists(d)'
      BY <2>2, <2>8
    <3> QED
      BY <2>1, <2>2, <2>4, <2>7, <3>1, NothingPassedOver
  <2>10. RecurringTypeOK'
    BY <1>0, <2>2, <2>3, <2>4, <2>7 DEF RecurringTypeOK
  <2> QED
    BY <2>4, <2>7, <2>9, <2>10 DEF RecurringInv, VisitsFollowSchedule
<1>4. ASSUME NEW version \in SeenRevisions, NEW d \in Days, InsertVisit(version, d) PROVE RecurringInv'
  <2>1. Started /\ UNCHANGED <<schedule, events, now>>
    BY <1>4 DEF InsertVisit
  <2> DEFINE added == {NewVisit(d)}
  <2>2. \A v \in added : /\ v = NewVisit(v.day) /\ v.day \in DueOn[schedule.rule]
                                 /\ v.day > schedule.through /\ ~Exists(v.day)
    <3>1. NewVisit(d).day = d
      BY DEF NewVisit
    <3> QED
      BY <1>4, <3>1 DEF InsertVisit
  <2>3. visit' = visit \cup added
    BY <1>4 DEF InsertVisit
  <2> HIDE DEF added
  <2>4. events' \in Seq(Event) /\ Len(events) <= Len(events') /\ \A k \in 1 .. Len(events) : events'[k] = events[k]
    BY <1>0, <2>1
  <2>5. /\ visit' \subseteq Visit /\ RevisionsKnown' /\ ChangesApplyAhead'
        /\ \A e : Exists(e) => Exists(e)'
    BY <2>1, <2>2, <2>3, <2>4, AddedAhead
  <2>6. NothingSkipped'
    BY <2>1, <2>5 DEF RecurringInv, VisitsFollowSchedule, NothingSkipped, RowOf
  <2>7. RecurringTypeOK' /\ LogComplete'
    BY <1>0, <2>1, <2>5 DEF RecurringTypeOK, RecurringInv, LogComplete, Started
  <2> QED
    BY <2>5, <2>6, <2>7 DEF RecurringInv, VisitsFollowSchedule
<1>5. ASSUME NEW v \in visit, CancelVisit(v) PROVE RecurringInv'
  <2> DEFINE new == [v EXCEPT !.status = "cancelled"]
  <2>1. new \in Visit /\ new.day = v.day /\ new.revision = v.revision
    BY <1>0 DEF Visit
  <2>2. visit' = (visit \ {v}) \cup {new} /\ UNCHANGED <<schedule, events, now>>
    BY <1>5 DEF CancelVisit
  <2> HIDE DEF new
  <2>3. RecurringTypeOK' /\ LogComplete' /\ RevisionsKnown'
    BY <1>0, <2>1, <2>2 DEF RecurringTypeOK, RecurringInv, LogComplete, RevisionsKnown, Started
  <2>4. \A d : Exists(d) => Exists(d)'
    BY <2>1, <2>2 DEF Exists
  <2>5. NothingSkipped'
    BY <2>2, <2>4 DEF RecurringInv, VisitsFollowSchedule, NothingSkipped, RowOf
  <2>6. ChangesApplyAhead'
    BY <2>1, <2>2 DEF RecurringInv, VisitsFollowSchedule, ChangesApplyAhead, RowOf
  <2> QED
    BY <2>3, <2>5, <2>6 DEF RecurringInv, VisitsFollowSchedule
<1>6. ASSUME TimePasses \/ AcceptanceChanges \/ UNCHANGED recurringVars PROVE RecurringInv'
  <2>1. UNCHANGED <<schedule, events, visit>> /\ now' \in Nat
    BY <1>0, <1>6 DEF TimePasses, AcceptanceChanges, recurringVars
  <2>2. RecurringTypeOK' /\ LogComplete' /\ RevisionsKnown'
    BY <1>0, <2>1 DEF RecurringTypeOK, RecurringInv, LogComplete, RevisionsKnown, Started
  <2>3. VisitsFollowSchedule'
    BY <2>1 DEF RecurringInv, VisitsFollowSchedule, NothingSkipped, ChangesApplyAhead, RowOf, Exists
  <2> QED
    BY <2>2, <2>3 DEF RecurringInv
<1> QED
  BY <1>1, <1>2, <1>3, <1>4, <1>5, <1>6 DEF RecurringNext

\* Whatever is changed, generated, repeated, inserted and cancelled, and however
\* days pass between: nothing promised is skipped and nothing processed is
\* touched (generate_recurring, prepare_recurring_booking).
THEOREM VisitsAlwaysFollow == RecurringSpec => []VisitsFollowSchedule
<1>1. RecurringInv => VisitsFollowSchedule
  BY DEF RecurringInv
<1> QED
  BY <1>1, RecurringStarts, RecurringStep, PTL DEF RecurringSpec

-----------------------------------------------------------------------------
(* Checking invoices *)


\* Types of what the actions write.
LEMMA InitialTypes ==
  /\ Idle \in Worker /\ Idle.at = "idle"
  /\ NewInvoice \in Invoice /\ NewInvoice.organisation = Unbound
  /\ NewInvoice.status = "none" /\ ~NewInvoice.linked
BY DEF Idle, Worker, NewInvoice, Invoice, SyncStatuses, Outcomes, Modes

LEMMA InitIInv == Init => IInv
<1> SUFFICES ASSUME Init PROVE IInv
  OBVIOUS
<1>1. TypeOK
  BY InitialTypes, InvoiceSyncAssumption DEF Init, TypeOK, Connection
<1>2. \A w \in Workers : worker[w].at = "idle"
  BY InitialTypes DEF Init
<1>3. \A i \in Invoices : /\ invoice[i].status = "none" /\ ~invoice[i].linked
                          /\ invoice[i].organisation = Unbound /\ drafts[i] = 0
  BY InitialTypes DEF Init
<1>4. QED
  BY <1>1, <1>2, <1>3 DEF IInv, AtMostOneDraft, MatchedIsReal, AttemptsShareConnection,
     SoleCreator, AnswersAreTrue, UnclaimedInvoices, Creating, Running

-----------------------------------------------------------------------------
(* Steps of an attempt that leave the rows and the provider alone *)

\* An attempt goes on with its own invoice, and says only what is true, or ends.
LEMMA AttemptKeepsIInv ==
  ASSUME IInv, NEW w \in Workers, NEW x \in Worker,
         \/ x.at = "idle"
         \/ /\ Running(w)
            /\ x.invoice = worker[w].invoice /\ x.mode = worker[w].mode
            /\ x.linked = worker[w].linked
            /\ x.at # "answered" => worker[w].at # "answered"
            /\ x.at = "posting" => x.mode = "create"
            /\ x.at = "answered" /\ x.outcome = "matched" => drafts[x.invoice] = 1
            /\ x.at = "answered" /\ x.outcome = "failed" =>
                 x.mode = "create" /\ drafts[x.invoice] = 0,
         worker' = [worker EXCEPT ![w] = x], UNCHANGED <<cancelled, connection, invoice, drafts>>
  PROVE  IInv'
<1>1. worker'[w] = x /\ \A v \in Workers \ {w} : worker'[v] = worker[v]
  BY DEF IInv, TypeOK
<1>2. TypeOK'
  BY DEF IInv, TypeOK
<1>3. SoleCreator'
  BY <1>1 DEF IInv, SoleCreator, Creating, Running
<1>4. AnswersAreTrue'
  BY <1>1 DEF IInv, AnswersAreTrue, Creating, Running
<1>5. QED
  BY <1>2, <1>3, <1>4 DEF IInv, AtMostOneDraft, MatchedIsReal, AttemptsShareConnection,
     UnclaimedInvoices

\* Before it has posted, an attempt may answer "failed" only when it may create.
LEMMA AnswerKeepsIInv ==
  ASSUME IInv, NEW w \in Workers, worker[w].at \in {"claimed", "posting"},
         NEW outcome \in Outcomes,
         outcome = "matched" => drafts[worker[w].invoice] = 1,
         outcome = "failed" => worker[w].mode = "create",
         Answer(w, outcome), UNCHANGED <<cancelled, connection, invoice, drafts>>
  PROVE  IInv'
<1> DEFINE x == [worker[w] EXCEPT !.at = "answered", !.outcome = outcome]
<1>1. /\ x \in Worker /\ x.at = "answered" /\ x.outcome = outcome
      /\ x.invoice = worker[w].invoice /\ x.mode = worker[w].mode /\ x.linked = worker[w].linked
  BY DEF IInv, TypeOK, Worker
<1>2. worker' = [worker EXCEPT ![w] = x]
  BY DEF Answer, IInv, TypeOK
<1>3. worker[w].mode = "create" => drafts[worker[w].invoice] = 0
  BY DEF IInv, SoleCreator, Creating, Running
<1> HIDE DEF x
<1>4. QED
  BY <1>1, <1>2, <1>3, AttemptKeepsIInv DEF Running

LEMMA UnavailableKeepsIInv ==
  ASSUME IInv, NEW w \in Workers, Unavailable(w)
  PROVE  IInv'
<1> DEFINE o == OutcomeOf(worker[w].mode, FALSE, FALSE)
<1>1. o \in Outcomes /\ o # "matched" /\ (o = "failed" => worker[w].mode = "create")
  BY DEF OutcomeOf, Outcomes, IInv, TypeOK, Worker, Modes
<1>2. worker[w].at = "claimed" /\ Answer(w, o) /\ UNCHANGED <<cancelled, connection, invoice, drafts>>
  BY DEF Unavailable
<1> HIDE DEF o
<1>3. QED
  BY <1>1, <1>2, AnswerKeepsIInv

\* Reading back a draft that exists: a match is real, anything else is reviewed.
LEMMA VerifiedKeepsIInv ==
  ASSUME IInv, NEW w \in Workers, worker[w].at = "claimed", drafts[worker[w].invoice] = 1,
         Verified(w, FALSE), UNCHANGED <<cancelled, connection, invoice, drafts>>
  PROVE  IInv'
<1>1. CASE Answer(w, "matched")
  BY <1>1, AnswerKeepsIInv DEF Outcomes
<1>2. CASE Answer(w, "review_required")
  BY <1>2, AnswerKeepsIInv DEF Outcomes
<1>3. QED
  BY <1>1, <1>2 DEF Verified, OutcomeOf

LEMMA ReadLinkedKeepsIInv ==
  ASSUME IInv, NEW w \in Workers, ReadLinked(w)
  PROVE  IInv'
<1>1. drafts[worker[w].invoice] = 1
  BY DEF ReadLinked, IInv, AnswersAreTrue, Running
<1>2. QED
  BY <1>1, VerifiedKeepsIInv DEF ReadLinked

LEMMA SearchKeepsIInv ==
  ASSUME IInv, NEW w \in Workers, Search(w)
  PROVE  IInv'
<1> DEFINE i == worker[w].invoice
           x == [worker[w] EXCEPT !.at = "posting"]
<1>1. /\ worker[w].at = "claimed" /\ i \in Invoices /\ drafts[i] \in Nat /\ drafts[i] <= 1
      /\ UNCHANGED <<cancelled, connection, invoice, drafts>>
  BY DEF Search, IInv, AnswersAreTrue, Running, TypeOK, AtMostOneDraft
<1>2. CASE Answer(w, "matched") /\ drafts[i] = 1
  BY <1>1, <1>2, AnswerKeepsIInv DEF Outcomes
<1>3. CASE Answer(w, "review_required")
  BY <1>1, <1>3, AnswerKeepsIInv DEF Outcomes
<1>4. CASE worker[w].mode = "create" /\ worker' = [worker EXCEPT ![w].at = "posting"]
  <2>1. /\ x \in Worker /\ x.at = "posting"
        /\ x.invoice = i /\ x.mode = worker[w].mode /\ x.linked = worker[w].linked
    BY DEF IInv, TypeOK, Worker
  <2>2. worker' = [worker EXCEPT ![w] = x]
    BY <1>4 DEF IInv, TypeOK
  <2> HIDE DEF x
  <2>3. QED
    BY <1>1, <1>4, <2>1, <2>2, AttemptKeepsIInv DEF Running
<1>5. QED
  <2>1. PICK found \in {0, drafts[i]} :
          \/ Answer(w, "review_required")
          \/ found = 1 /\ Answer(w, "matched")
          \/ worker[w].mode = "create" /\ worker' = [worker EXCEPT ![w].at = "posting"]
    BY DEF Search, Verified, OutcomeOf
  <2>2. found = 1 => drafts[i] = 1
    OBVIOUS
  <2>3. QED
    BY <1>2, <1>3, <1>4, <2>1, <2>2

LEMMA AbandonKeepsIInv ==
  ASSUME IInv, NEW w \in Workers, Abandon(w)
  PROVE  IInv'
BY InitialTypes, AttemptKeepsIInv DEF Abandon

-----------------------------------------------------------------------------
(* Posting *)

\* The only attempt that may create records the first draft.
LEMMA RecordKeepsIInv ==
  ASSUME IInv, NEW w \in Workers, worker[w].at = "posting",
         NEW outcome \in {"matched", "review_required"}, Answer(w, outcome),
         drafts' = [drafts EXCEPT ![worker[w].invoice] = @ + 1],
         UNCHANGED <<cancelled, connection, invoice>>
  PROVE  IInv'
<1> DEFINE i == worker[w].invoice
           x == [worker[w] EXCEPT !.at = "answered", !.outcome = outcome]
<1>1. /\ Creating(w) /\ i \in Invoices /\ drafts[i] = 0
      /\ invoice[i].status \in {"syncing", "matched", "review_required"}
      /\ \A v \in Workers \ {w} : Creating(v) => worker[v].invoice # i
  BY DEF IInv, AnswersAreTrue, SoleCreator, Creating, Running
<1>2. drafts'[i] = 1 /\ \A j \in Invoices \ {i} : drafts'[j] = drafts[j]
  BY <1>1 DEF IInv, TypeOK
<1>3. /\ x \in Worker /\ x.at = "answered" /\ x.outcome = outcome
      /\ x.invoice = i /\ x.mode = worker[w].mode /\ x.linked = worker[w].linked
  BY DEF IInv, TypeOK, Worker, Outcomes
<1>4. worker'[w] = x /\ \A v \in Workers \ {w} : worker'[v] = worker[v]
  BY DEF Answer, IInv, TypeOK
<1>5. TypeOK'
  <2>1. worker' = [worker EXCEPT ![w] = x]
    BY DEF Answer, IInv, TypeOK
  <2>2. drafts' \in [Invoices -> Nat]
    BY <1>1 DEF IInv, TypeOK
  <2> HIDE DEF x
  <2>3. QED
    BY <1>3, <2>1, <2>2 DEF IInv, TypeOK
<1> HIDE DEF x
<1>6. AtMostOneDraft' /\ MatchedIsReal' /\ UnclaimedInvoices' /\ AttemptsShareConnection'
  BY <1>1, <1>2 DEF IInv, AtMostOneDraft, MatchedIsReal, UnclaimedInvoices, AttemptsShareConnection
<1>7. SoleCreator'
  BY <1>1, <1>2, <1>3, <1>4 DEF IInv, SoleCreator, Creating, Running
<1>8. AnswersAreTrue'
  BY <1>1, <1>2, <1>3, <1>4 DEF IInv, AnswersAreTrue, Creating, Running
<1>9. QED
  BY <1>5, <1>6, <1>7, <1>8 DEF IInv

LEMMA PostKeepsIInv ==
  ASSUME IInv, NEW w \in Workers, Post(w)
  PROVE  IInv'
<1>1. CASE Answer(w, "review_required") /\ UNCHANGED drafts
  BY <1>1, AnswerKeepsIInv DEF Post, Outcomes
<1>2. CASE /\ drafts' = [drafts EXCEPT ![worker[w].invoice] = @ + 1]
           /\ Answer(w, "matched") \/ Answer(w, "review_required")
  BY <1>2, RecordKeepsIInv DEF Post
<1>3. QED
  BY <1>1, <1>2 DEF Post, Verified, OutcomeOf

-----------------------------------------------------------------------------
(* Claiming and finishing *)

\* The one who claims to create finds an invoice without a draft, and no other
\* attempt that may still create one.
LEMMA ClaimKeepsIInv ==
  ASSUME IInv, NEW w \in Workers, NEW i \in Invoices, NEW c \in Customers, Claim(w, i, c)
  PROVE  IInv'
<1> DEFINE v == invoice[i]
           g == connection.organisation
           m == ModeOf(v)
           a == v.attempt + 1
<1>1. /\ v \in Invoice /\ v.linked \in BOOLEAN /\ a \in Nat /\ m \in Modes
      /\ g \in Organisations \cup {Unbound} /\ connection.version > 0
  BY DEF Claim, IInv, TypeOK, Connection, Invoice, ModeOf, Modes
<1> HIDE DEF v, g, m, a
<1> DEFINE r == [v EXCEPT !.status = "syncing", !.organisation = g, !.customer = c,
                          !.attempt = a, !.late = FALSE]
           x == [Idle EXCEPT !.at = "claimed", !.invoice = i, !.attempt = a, !.mode = m,
                             !.linked = v.linked]
<1>2. /\ invoice' = [invoice EXCEPT ![i] = r] /\ worker' = [worker EXCEPT ![w] = x]
      /\ UNCHANGED <<cancelled, connection, drafts>>
  BY DEF Claim, v, g, m, a
<1>3. /\ r \in Invoice /\ r.status = "syncing" /\ r.linked = v.linked /\ r.organisation = g
  BY <1>1 DEF Invoice, SyncStatuses
<1>4. x \in Worker /\ x.at = "claimed" /\ x.invoice = i /\ x.mode = m /\ x.linked = v.linked
  BY <1>1, InitialTypes DEF Worker
<1>5. m = "create" => v.status \in {"none", "not_synced", "failed"} /\ drafts[i] = 0
  BY <1>1 DEF v, m, ModeOf, IInv, UnclaimedInvoices, Invoice, SyncStatuses
<1>6. v.linked => drafts[i] = 1
  BY DEF v, IInv, MatchedIsReal
<1> HIDE DEF r, x
<1>7. /\ invoice'[i] = r /\ \A j \in Invoices \ {i} : invoice'[j] = invoice[j]
      /\ worker'[w] = x /\ \A u \in Workers \ {w} : worker'[u] = worker[u]
  BY <1>2 DEF IInv, TypeOK
<1>8. TypeOK'
  BY <1>2, <1>3, <1>4 DEF IInv, TypeOK
<1>9. AtMostOneDraft' /\ MatchedIsReal' /\ AttemptsShareConnection' /\ UnclaimedInvoices'
  BY <1>1, <1>2, <1>3, <1>6, <1>7 DEF g, v, IInv, AtMostOneDraft, MatchedIsReal, AttemptsShareConnection,
     UnclaimedInvoices
<1>10. SoleCreator'
  <2>1. m = "create" =>
          \A u \in Workers \ {w} : Creating(u) => worker[u].invoice # i
    BY <1>5 DEF IInv, SoleCreator, v
  <2>2. QED
    BY <1>2, <1>3, <1>4, <1>5, <1>7, <2>1 DEF IInv, SoleCreator, Creating, Running
<1>11. AnswersAreTrue'
  BY <1>2, <1>4, <1>6, <1>7 DEF IInv, AnswersAreTrue, Creating, Running
<1>12. QED
  BY <1>8, <1>9, <1>10, <1>11 DEF IInv

\* A verdict is true of the invoice: only "failed" opens it to another creation.
LEMMA FinishKeepsIInv ==
  ASSUME IInv, NEW w \in Workers, Finish(w)
  PROVE  IInv'
<1> DEFINE i == worker[w].invoice
           o == worker[w].outcome
           r == [invoice[i] EXCEPT !.status = o, !.linked = @ \/ o = "matched"]
<1>1. /\ i \in Invoices /\ o \in Outcomes /\ worker[w].at = "answered"
      /\ worker' = [worker EXCEPT ![w] = Idle] /\ UNCHANGED <<cancelled, connection, drafts>>
  BY DEF Finish, IInv, AnswersAreTrue, Running, TypeOK, Worker
<1>2. invoice' = [invoice EXCEPT ![i] = r]
  BY <1>1 DEF Finish, IInv, TypeOK
<1>3. invoice[i] \in Invoice
  BY <1>1 DEF IInv, TypeOK
<1>4. /\ r \in Invoice /\ r.status = o /\ r.organisation = invoice[i].organisation
      /\ r.linked <=> (invoice[i].linked \/ o = "matched")
  BY <1>1, <1>3 DEF Invoice, Outcomes, SyncStatuses
<1>5. /\ o = "matched" => drafts[i] = 1
      /\ o = "failed" => Creating(w) /\ drafts[i] = 0
      /\ invoice[i].linked => drafts[i] = 1
  BY <1>1 DEF IInv, AnswersAreTrue, MatchedIsReal
<1> HIDE DEF o, r
<1>6. /\ invoice'[i] = r /\ \A j \in Invoices \ {i} : invoice'[j] = invoice[j]
      /\ worker'[w].at = "idle" /\ \A u \in Workers \ {w} : worker'[u] = worker[u]
  BY <1>1, <1>2, InitialTypes DEF IInv, TypeOK
<1>7. TypeOK'
  BY <1>1, <1>2, <1>4, InitialTypes DEF IInv, TypeOK
<1>8. AtMostOneDraft' /\ MatchedIsReal' /\ AttemptsShareConnection'
  BY <1>1, <1>4, <1>5, <1>6 DEF IInv, AtMostOneDraft, MatchedIsReal, AttemptsShareConnection
<1>9. UnclaimedInvoices'
  BY <1>1, <1>4, <1>5, <1>6 DEF IInv, UnclaimedInvoices, Outcomes
<1>10. SoleCreator'
  BY <1>1, <1>4, <1>5, <1>6 DEF IInv, SoleCreator, Creating, Running, Outcomes
<1>11. AnswersAreTrue'
  BY <1>1, <1>6 DEF IInv, AnswersAreTrue, Creating, Running
<1>12. QED
  BY <1>7, <1>8, <1>9, <1>10, <1>11 DEF IInv

-----------------------------------------------------------------------------
(* The office *)

LEMMA ConfigureKeepsIInv ==
  ASSUME IInv, NEW n \in 0..MaxVersion, NEW o \in Organisations, NEW e \in BOOLEAN,
         ConfigureAccounting(n, o, e)
  PROVE  IInv'
<1>1. /\ connection' = [version |-> n + 1, organisation |-> o, enabled |-> e]
      /\ UNCHANGED <<cancelled, invoice, worker, drafts>>
  BY DEF ConfigureAccounting
<1>2. n \in Nat
  BY InvoiceSyncAssumption
<1>3. TypeOK'
  BY <1>1, <1>2 DEF IInv, TypeOK, Connection
<1>4. AttemptsShareConnection'
  BY <1>1 DEF ConfigureAccounting, Pinned, IInv, AttemptsShareConnection
<1>5. UnclaimedInvoices'
  BY <1>1, <1>2 DEF IInv, UnclaimedInvoices
<1>6. QED
  BY <1>1, <1>3, <1>4, <1>5 DEF IInv, AtMostOneDraft, MatchedIsReal, SoleCreator,
     AnswersAreTrue, Creating, Running

\* Preparing an invoice and the passing of time do not open it to a creation.
LEMMA OfficeKeepsIInv ==
  ASSUME IInv, NEW i \in Invoices, BookingCancelled(i) \/ PrepareInvoice(i) \/ TurnsLate(i)
  PROVE  IInv'
<1>1. CASE BookingCancelled(i)
  BY <1>1 DEF BookingCancelled, IInv, TypeOK, AtMostOneDraft, MatchedIsReal,
     AttemptsShareConnection, SoleCreator, AnswersAreTrue, UnclaimedInvoices, Creating, Running
<1>2. CASE PrepareInvoice(i)
  <2> DEFINE r == [invoice[i] EXCEPT !.status = "not_synced"]
  <2>1. /\ invoice' = [invoice EXCEPT ![i] = r] /\ invoice[i].status = "none"
        /\ UNCHANGED <<cancelled, connection, worker, drafts>>
    BY <1>2 DEF PrepareInvoice, IInv, TypeOK
  <2>2. /\ r \in Invoice /\ r.status = "not_synced" /\ r.linked = invoice[i].linked
        /\ r.organisation = invoice[i].organisation
    BY DEF IInv, TypeOK, Invoice, SyncStatuses
  <2> HIDE DEF r
  <2>3. invoice'[i] = r /\ \A j \in Invoices \ {i} : invoice'[j] = invoice[j]
    BY <2>1 DEF IInv, TypeOK
  <2>4. TypeOK'
    BY <2>1, <2>2 DEF IInv, TypeOK
  <2>5. QED
    BY <2>1, <2>2, <2>3, <2>4 DEF IInv, AtMostOneDraft, MatchedIsReal,
       AttemptsShareConnection, SoleCreator, AnswersAreTrue, UnclaimedInvoices, Creating, Running
<1>3. CASE TurnsLate(i)
  <2> DEFINE r == [invoice[i] EXCEPT !.late = TRUE]
  <2>1. /\ invoice' = [invoice EXCEPT ![i] = r]
        /\ UNCHANGED <<cancelled, connection, worker, drafts>>
    BY <1>3 DEF TurnsLate, IInv, TypeOK
  <2>2. /\ r \in Invoice /\ r.status = invoice[i].status /\ r.linked = invoice[i].linked
        /\ r.organisation = invoice[i].organisation
    BY DEF IInv, TypeOK, Invoice
  <2> HIDE DEF r
  <2>3. invoice'[i] = r /\ \A j \in Invoices \ {i} : invoice'[j] = invoice[j]
    BY <2>1 DEF IInv, TypeOK
  <2>4. TypeOK'
    BY <2>1, <2>2 DEF IInv, TypeOK
  <2>5. QED
    BY <2>1, <2>2, <2>3, <2>4 DEF IInv, AtMostOneDraft, MatchedIsReal,
       AttemptsShareConnection, SoleCreator, AnswersAreTrue, UnclaimedInvoices, Creating, Running
<1>4. QED
  BY <1>1, <1>2, <1>3

-----------------------------------------------------------------------------
(* The theorems *)

LEMMA NextIInv == IInv /\ [Next]_vars => IInv'
<1> SUFFICES ASSUME IInv, [Next]_vars PROVE IInv'
  OBVIOUS
<1>1. ASSUME NEW i \in Invoices, BookingCancelled(i) \/ PrepareInvoice(i) \/ TurnsLate(i)
      PROVE  IInv'
  BY <1>1, OfficeKeepsIInv
<1>2. ASSUME NEW i \in Invoices, NEW w \in Workers, NEW c \in Customers, Claim(w, i, c)
      PROVE  IInv'
  BY <1>2, ClaimKeepsIInv
<1>3. ASSUME NEW n \in 0..MaxVersion, NEW o \in Organisations, NEW e \in BOOLEAN,
             ConfigureAccounting(n, o, e)
      PROVE  IInv'
  BY <1>3, ConfigureKeepsIInv
<1>4. ASSUME NEW w \in Workers,
             Unavailable(w) \/ ReadLinked(w) \/ Search(w) \/ Post(w) \/ Abandon(w) \/ Finish(w)
      PROVE  IInv'
  BY <1>4, UnavailableKeepsIInv, ReadLinkedKeepsIInv, SearchKeepsIInv, PostKeepsIInv,
     AbandonKeepsIInv, FinishKeepsIInv
<1>5. CASE UNCHANGED vars
  BY <1>5 DEF vars, IInv, TypeOK, AtMostOneDraft, MatchedIsReal, AttemptsShareConnection,
     SoleCreator, AnswersAreTrue, UnclaimedInvoices, Creating, Running
<1>6. QED
  BY <1>1, <1>2, <1>3, <1>4, <1>5 DEF Next

\* At most one attempt may ever create an invoice's draft, and every answer and
\* verdict is true, for any number of invoices and attempts.
THEOREM OneCreator == Spec => []IInv
<1>1. QED
  BY InitIInv, NextIInv, PTL DEF Spec

\* However attempts hang, are taken over, crash or lose the answer of a POST,
\* the provider records at most one draft of an invoice.
THEOREM OneDraft == Spec => []AtMostOneDraft
<1>1. IInv => AtMostOneDraft
  BY DEF IInv
<1>2. QED
  BY <1>1, OneCreator, PTL

\* An invoice reads "matched" only when its draft was recorded.
THEOREM MatchReal == Spec => []MatchedIsReal
<1>1. IInv => MatchedIsReal
  BY DEF IInv
<1>2. QED
  BY <1>1, OneCreator, PTL

\* A recorded draft is never hidden behind a state that allows a creation.
THEOREM DraftVisible == Spec => []DraftStaysVisible
<1>1. IInv => DraftStaysVisible
  <2> SUFFICES ASSUME IInv, NEW i \in Invoices, drafts[i] > 0
               PROVE  invoice[i].status \in {"syncing", "matched", "review_required"}
    BY DEF DraftStaysVisible
  <2>1. invoice[i].status \notin {"none", "not_synced", "failed"}
    BY DEF IInv, UnclaimedInvoices
  <2>2. invoice[i].status \in SyncStatuses
    BY DEF IInv, TypeOK, Invoice
  <2>3. QED
    BY <2>1, <2>2 DEF SyncStatuses
<1>2. QED
  BY <1>1, OneCreator, PTL

\* No attempt is stranded in an organisation the business has left.
THEOREM SharedConnection == Spec => []AttemptsShareConnection
<1>1. IInv => AttemptsShareConnection
  BY DEF IInv
<1>2. QED
  BY <1>1, OneCreator, PTL

\* An attempt that was taken over never overwrites the verdict of its successor.
THEOREM LatestDecides == Spec => LatestAttemptDecides
<1> DEFINE Decides ==
      \A i \in Invoices :
        invoice[i].status = "syncing" /\ invoice'[i].status # "syncing" =>
          \E w \in Workers :
            /\ worker[w].at = "answered"
            /\ worker[w].invoice = i
            /\ worker[w].attempt = invoice[i].attempt
            /\ invoice'[i].status = worker[w].outcome
<1>1. IInv /\ [Next]_vars => [Decides]_vars
  <2> SUFFICES ASSUME IInv, Next, NEW i \in Invoices,
                      invoice[i].status = "syncing", invoice'[i].status # "syncing"
               PROVE  \E w \in Workers : /\ worker[w].at = "answered"
                                          /\ worker[w].invoice = i
                                          /\ worker[w].attempt = invoice[i].attempt
                                          /\ invoice'[i].status = worker[w].outcome
    OBVIOUS
  <2>1. invoice \in [Invoices -> Invoice]
    BY DEF IInv, TypeOK
  <2>2. ASSUME NEW j \in Invoices, BookingCancelled(j) \/ PrepareInvoice(j) \/ TurnsLate(j)
        PROVE  FALSE
    BY <2>1, <2>2 DEF BookingCancelled, PrepareInvoice, TurnsLate, Invoice
  <2>3. ASSUME NEW j \in Invoices, NEW w \in Workers, NEW c \in Customers, Claim(w, j, c)
        PROVE  FALSE
    BY <2>1, <2>3 DEF Claim, Invoice
  <2>4. PICK w \in Workers : Finish(w)
    BY <2>2, <2>3 DEF Next, ConfigureAccounting, Unavailable, ReadLinked, Search, Post, Abandon
  <2>5. /\ worker[w].at = "answered" /\ worker[w].attempt = invoice[worker[w].invoice].attempt
        /\ worker[w].invoice \in Invoices
        /\ invoice' = [invoice EXCEPT
             ![worker[w].invoice].status = worker[w].outcome,
             ![worker[w].invoice].linked = @ \/ worker[w].outcome = "matched"]
    BY <2>4 DEF Finish, FinishFence, IInv, AnswersAreTrue, Running
  <2>6. worker[w].invoice = i /\ invoice'[i].status = worker[w].outcome
    BY <2>1, <2>5 DEF Invoice
  <2>7. QED
    BY <2>5, <2>6
<1>2. QED
  BY <1>1, OneCreator, PTL DEF Spec, LatestAttemptDecides

-----------------------------------------------------------------------------
(* Allowances *)

\* A history is only appended to, and Johannesburg is the first to reach a month.
Histories ==
  /\ change \in [Supervisors -> Seq(Change)]
  /\ \A s \in Supervisors : Len(change[s]) <= MaxChanges

TimesKnown ==
  clock \in Nat /\ zone \in Zones /\ begun \in Nat /\ begun <= MonthIn("Johannesburg", clock)

\* The order of the rows in R, and the place of one of them.
InLine(R) == {p \in R \X R : Precedes(p[1], p[2])}
RowPlace(R, r) == Place(InLine(R), R, r)

\* An old row was received, or it is still ahead of the reading.
NothingLeftBehind ==
  reader.at # "idle" =>
    /\ reader.rows \subseteq AllRows
    /\ \A s \in Supervisors : reader.began[s] <= Len(change[s])
    /\ \A s \in Supervisors : \A v \in 1 .. reader.began[s] :
         \/ <<s, v>> \in reader.rows
         \/ reader.at = "reading" /\ RowPlace(AllRows, <<s, v>>) >= reader.start

AllowanceInv == Histories /\ TimesKnown /\ reader \in Reader /\ NothingLeftBehind

\* A set of naturals below a bound has a largest element.
LEMMA LatestOf ==
  ASSUME NEW m \in Nat, NEW T, T # {}, \A x \in T : x \in Nat /\ x <= m
  PROVE  \E x \in T : \A y \in T : y <= x
<1> DEFINE U == {m - x : x \in T}
<1>1. U \subseteq Nat /\ U # {}
  OBVIOUS
<1> HIDE DEF U
<1>2. PICK u \in U : \A w \in U : u <= w
  BY <1>1, LeastOf
<1> USE DEF U
<1>3. PICK x \in T : u = m - x
  BY <1>2
<1>4. ASSUME NEW y \in T PROVE y <= x
  <2>1. m - y \in U
    OBVIOUS
  <2>2. m - x <= m - y
    BY <1>2, <1>3, <2>1
  <2> QED
    BY <2>2
<1> QED
  BY <1>4

\* The zones are never more than a month apart.
LEMMA ZonesApart ==
  ASSUME NEW time \in Nat, NEW z \in Zones
  PROVE  /\ MonthIn(z, time) \in Nat
         /\ MonthIn(z, time) <= MonthIn("Johannesburg", time)
         /\ MonthIn("Johannesburg", time) <= MonthIn(z, time) + 1
BY DEF MonthIn, Zones

LEMMA TimeGoesOn ==
  ASSUME NEW t \in Nat, NEW u \in Nat, t <= u
  PROVE  MonthIn("Johannesburg", t) <= MonthIn("Johannesburg", u)
BY DEF MonthIn

\* A later month's change leaves what was in force alone.
LEMMA LaterChange ==
  ASSUME NEW h \in Seq(Change), NEW c \in Change, NEW m \in Nat, c.month > m
  PROVE  InForce(Append(h, c), DOMAIN Append(h, c), m) = InForce(h, DOMAIN h, m)
<1> DEFINE g == Append(h, c)
           n == Len(h)
           due == {v \in DOMAIN h : h[v].month <= m}
           latest == {v \in due : \A w \in due : h[w].month <= h[v].month}
           dueNow == {v \in DOMAIN g : g[v].month <= m}
           latestNow == {v \in dueNow : \A w \in dueNow : g[w].month <= g[v].month}
<1>1. /\ n \in Nat /\ DOMAIN h = 1 .. n /\ DOMAIN g = 1 .. n + 1
      /\ \A v \in 1 .. n : g[v] = h[v] /\ h[v] \in Change
      /\ g[n + 1] = c
  OBVIOUS
<1>2. \A v \in 1 .. n : h[v].month \in Nat
  BY <1>1, AllowancesAssumption DEF Change
<1>a. c.month \in Nat
  BY AllowancesAssumption DEF Change
<1> HIDE DEF g
<1>3. dueNow = due
  BY <1>1, <1>a
<1>4. \A v \in due : g[v] = h[v] /\ v \in 1 .. n
  BY <1>1
<1>5. latestNow = latest
  BY <1>3, <1>4
<1>6. due # {} => latest # {}
  <2> SUFFICES ASSUME due # {} PROVE latest # {}
    OBVIOUS
  <2> DEFINE T == {h[v].month : v \in due}
  <2>1. T # {} /\ \A x \in T : x \in Nat /\ x <= m
    BY <1>1, <1>2
  <2> HIDE DEF T
  <2>2. PICK x \in T : \A y \in T : y <= x
    BY <2>1, LatestOf
  <2> USE DEF T
  <2>3. PICK v \in due : x = h[v].month
    BY <2>2
  <2>4. \A w \in due : h[w].month <= h[v].month
    BY <2>2, <2>3
  <2> QED
    BY <2>3, <2>4
<1>7. due # {} => Max(latest) \in due
  <2> SUFFICES ASSUME due # {} PROVE Max(latest) \in due
    OBVIOUS
  <2>1. latest # {} /\ latest \in SUBSET (1 .. n)
    BY <1>1, <1>6
  <2> HIDE DEF latest, due
  <2>2. \E x \in latest : \A y \in latest : x >= y
    BY <1>1, <2>1, LargestOf
  <2>3. Max(latest) \in latest
    BY <2>2 DEF Max
  <2> QED
    BY <2>3 DEF latest
<1>8. InForce(h, DOMAIN h, m) = IF due = {} THEN 0 ELSE h[Max(latest)].amount
  BY DEF InForce
<1>9. InForce(g, DOMAIN g, m) = IF dueNow = {} THEN 0 ELSE g[Max(latestNow)].amount
  BY DEF InForce
<1> HIDE DEF due, latest, dueNow, latestNow
<1>10. InForce(g, DOMAIN g, m) = InForce(h, DOMAIN h, m)
  BY <1>3, <1>4, <1>5, <1>7, <1>8, <1>9
<1> QED
  BY <1>10 DEF g

\* Rows are in line, and every one has its place in the query's result.
LEMMA RowsInLine ==
  ASSUME NEW R \in SUBSET (Supervisors \X (1 .. MaxChanges))
  PROVE  /\ Ordered(InLine(R), R) /\ IsFiniteSet(R)
         /\ \A r \in R : RowPlace(R, r) = Cardinality({t \in R : Precedes(t, r)})
<1>1. \A r \in R : r[1] \in Nat /\ r[2] \in Nat /\ r = <<r[1], r[2]>>
  <2> SUFFICES ASSUME NEW r \in R PROVE r[1] \in Nat /\ r[2] \in Nat /\ r = <<r[1], r[2]>>
    OBVIOUS
  <2>1. r \in Supervisors \X (1 .. MaxChanges)
    OBVIOUS
  <2>2. r[1] \in Supervisors /\ r[2] \in 1 .. MaxChanges
    BY <2>1
  <2>3. \A s \in Supervisors : s \in Nat
    BY AllowancesAssumption
  <2>5. \A v \in 1 .. MaxChanges : v \in Nat
    BY AllowancesAssumption
  <2>4. r = <<r[1], r[2]>>
    BY <2>1
  <2> QED
    BY <2>2, <2>3, <2>4, <2>5, Zenon
<1>2. IsFiniteSet(R)
  <2>1. IsFiniteSet(1 .. MaxChanges) /\ IsFiniteSet(Supervisors)
    BY FS_Interval, AllowancesAssumption
  <2>2. IsFiniteSet(Supervisors \X (1 .. MaxChanges))
    BY <2>1, FS_Product
  <2> QED
    BY <2>2, FS_Subset
<1>3. \A r, t \in R : <<r, t>> \in InLine(R) <=> Precedes(r, t)
  BY DEF InLine
<1>4. /\ \A r \in R : ~Precedes(r, r)
      /\ \A r, t, u \in R : Precedes(r, t) /\ Precedes(t, u) => Precedes(r, u)
      /\ \A r, t \in R : r # t => Precedes(r, t) \/ Precedes(t, r)
  <2>1. \A r, t \in R : r # t => r[1] # t[1] \/ r[2] # t[2]
    BY <1>1
  <2> QED
    BY <1>1, <2>1 DEF Precedes
<1>5. Ordered(InLine(R), R)
  BY <1>2, <1>3, <1>4 DEF Ordered
<1>6. ASSUME NEW r \in R PROVE RowPlace(R, r) = Cardinality({t \in R : Precedes(t, r)})
  <2>1. {t \in R : Precedes(t, r)} = Before(InLine(R), R, r)
    BY <1>3 DEF Before
  <2> QED
    BY <2>1 DEF Place, RowPlace
<1> QED
  BY <1>2, <1>5, <1>6

\* Rows only move away from the beginning when others come between.
LEMMA RowsMoveOn ==
  ASSUME NEW T \in SUBSET (Supervisors \X (1 .. MaxChanges)), NEW R \in SUBSET T, NEW r \in R
  PROVE  RowPlace(R, r) \in Nat /\ RowPlace(T, r) \in Nat /\ RowPlace(R, r) <= RowPlace(T, r)
<1> DEFINE before == {t \in R : Precedes(t, r)}
           then == {t \in T : Precedes(t, r)}
<1>1. /\ RowPlace(R, r) = Cardinality(before) /\ IsFiniteSet(R)
      /\ RowPlace(T, r) = Cardinality(then) /\ IsFiniteSet(T)
  BY RowsInLine
<1>2. before \in SUBSET then /\ IsFiniteSet(then) /\ IsFiniteSet(before)
  BY <1>1, FS_Subset
<1> HIDE DEF before, then
<1> QED
  BY <1>1, <1>2, FS_Subset, FS_CardinalityType

LEMMA RowsAreRows == AllRows \in SUBSET (Supervisors \X (1 .. MaxChanges))
BY DEF AllRows

\* A row that is still ahead of the reading is on the page, or the page is full.
LEMMA PageIsFull ==
  ASSUME NEW start \in Nat, NEW r \in AllRows,
         RowPlace(AllRows, r) >= start, r \notin Page(start)
  PROVE  /\ RowPlace(AllRows, r) >= start + PageSize
         /\ Cardinality(Page(start)) = PageSize
<1> DEFINE place == RowPlace(AllRows, r)
           n == Cardinality(AllRows)
           P == InLine(AllRows)
<1>1. Ordered(P, AllRows) /\ n \in Nat
  BY RowsAreRows, RowsInLine, FS_CardinalityType
<1>2. place \in 0 .. n - 1
  <2> HIDE DEF P
  <2>1. \A t \in AllRows : Place(P, AllRows, t) \in 0 .. n - 1
    BY <1>1, PlacesGrow
  <2> QED
    BY <2>1 DEF RowPlace, P
<1>3. PageSize \in Nat \ {0}
  BY AllowancesAssumption
<1>4. Page(start) = {t \in AllRows : Place(P, AllRows, t) \in start .. start + PageSize - 1}
  <2>1. \A t \in AllRows : Place(P, AllRows, t) = Cardinality({u \in AllRows : Precedes(u, t)})
    BY RowsAreRows, RowsInLine DEF RowPlace
  <2> HIDE DEF P
  <2> QED
    BY <2>1 DEF Page
<1>5. place \notin start .. start + PageSize - 1
  BY <1>4 DEF RowPlace
<1>6. place >= start
  OBVIOUS
<1> HIDE DEF place, n, P
<1>7. place >= start + PageSize /\ start + PageSize <= n
  BY <1>1, <1>2, <1>3, <1>5, <1>6
<1>8. Cardinality(Page(start)) = PageSize
  <2>1. start + PageSize <= Cardinality(AllRows) /\ PageSize \in Nat
    BY <1>3, <1>7 DEF n
  <2> QED
    BY <1>1, <1>4, <2>1, PlacesBetween
<1> QED
  BY <1>7, <1>8 DEF place

LEMMA AllowancesStart == AllowanceInit => AllowanceInv
<1> SUFFICES ASSUME AllowanceInit PROVE AllowanceInv
  OBVIOUS
<1>1. Histories
  BY AllowancesAssumption DEF AllowanceInit, Histories
<1>2. TimesKnown
  BY DEF AllowanceInit, TimesKnown, Zones, MonthIn
<1>3. reader \in Reader /\ reader.at = "idle"
  BY AllowancesAssumption DEF AllowanceInit, NotReading, Reader
<1> QED
  BY <1>1, <1>2, <1>3 DEF AllowanceInv, NothingLeftBehind

LEMMA SavedChange ==
  ASSUME AllowanceInv, NEW s \in Supervisors, NEW v, NEW m \in Months, NEW a \in Amounts,
         SaveSupervisorAllowance(s, v, m, a)
  PROVE  AllowanceInv'
<1> DEFINE new == [month |-> m, amount |-> a]
<1>1. /\ change \in [Supervisors -> Seq(Change)] /\ Len(change[s]) < MaxChanges
      /\ \A r \in Supervisors : Len(change[r]) \in Nat /\ Len(change[r]) <= MaxChanges
      /\ MaxChanges \in Nat
  BY AllowancesAssumption DEF AllowanceInv, Histories, SaveSupervisorAllowance
<1>2. change' = [change EXCEPT ![s] = Append(@, new)] /\ new \in Change
  BY DEF SaveSupervisorAllowance, Change
<1> HIDE DEF new
<1>3. /\ change' \in [Supervisors -> Seq(Change)]
      /\ \A r \in Supervisors : /\ Len(change'[r]) <= MaxChanges /\ Len(change[r]) <= Len(change'[r])
                                /\ Len(change'[r]) \in Nat
      /\ \A r \in Supervisors : DOMAIN change[r] = 1 .. Len(change[r]) /\ DOMAIN change'[r] = 1 .. Len(change'[r])
  BY <1>1, <1>2
<1>4. Histories'
  BY <1>3 DEF Histories
<1>5. AllRows \subseteq AllRows' /\ AllRows' \subseteq Supervisors \X (1 .. MaxChanges)
  BY <1>3 DEF AllRows
<1>6. NothingLeftBehind'
  <2> SUFFICES ASSUME reader.at # "idle"
               PROVE  /\ reader.rows \subseteq AllRows'
                      /\ \A r \in Supervisors : reader.began[r] <= Len(change'[r])
                      /\ \A r \in Supervisors : \A w \in 1 .. reader.began[r] :
                           \/ <<r, w>> \in reader.rows
                           \/ reader.at = "reading" /\ RowPlace(AllRows', <<r, w>>) >= reader.start
    BY DEF NothingLeftBehind, SaveSupervisorAllowance
  <2>1. /\ reader.rows \subseteq AllRows /\ reader \in Reader
        /\ \A r \in Supervisors : reader.began[r] <= Len(change[r]) /\ reader.began[r] \in 0 .. MaxChanges
        /\ reader.start \in Nat
    BY DEF AllowanceInv, NothingLeftBehind, Reader
  <2>2. ASSUME NEW r \in Supervisors, NEW w \in 1 .. reader.began[r], <<r, w>> \notin reader.rows
        PROVE  reader.at = "reading" /\ RowPlace(AllRows', <<r, w>>) >= reader.start
    <3>1. reader.at = "reading" /\ RowPlace(AllRows, <<r, w>>) >= reader.start
      BY <2>2 DEF AllowanceInv, NothingLeftBehind
    <3>2. <<r, w>> \in AllRows
      <4>1. w \in 1 .. Len(change[r]) /\ w \in 1 .. MaxChanges
        BY <1>1, <2>1, <2>2
      <4> QED
        BY <1>3, <4>1 DEF AllRows
    <3> DEFINE T == AllRows'
    <3>3. T \in SUBSET (Supervisors \X (1 .. MaxChanges)) /\ AllRows \in SUBSET T
      BY <1>5
    <3> HIDE DEF T
    <3>4. /\ RowPlace(AllRows, <<r, w>>) \in Nat /\ RowPlace(T, <<r, w>>) \in Nat
          /\ RowPlace(AllRows, <<r, w>>) <= RowPlace(T, <<r, w>>)
      BY <3>2, <3>3, RowsMoveOn
    <3>5. RowPlace(T, <<r, w>>) >= reader.start
      BY <2>1, <3>1, <3>4
    <3> QED
      BY <3>1, <3>5 DEF T
  <2>3. \A r \in Supervisors : reader.began[r] <= Len(change'[r])
    <3> SUFFICES ASSUME NEW r \in Supervisors PROVE reader.began[r] <= Len(change'[r])
      OBVIOUS
    <3> QED
      BY <1>1, <1>3, <2>1
  <2> QED
    BY <1>5, <2>1, <2>2, <2>3
<1> QED
  BY <1>4, <1>6 DEF AllowanceInv, TimesKnown, SaveSupervisorAllowance

LEMMA ReadingBegins == AllowanceInv /\ BeginReading => AllowanceInv'
<1> SUFFICES ASSUME AllowanceInv, BeginReading PROVE AllowanceInv'
  OBVIOUS
<1>1. UNCHANGED <<change, clock, zone, begun>>
  BY DEF BeginReading
<1>2. \A s \in Supervisors : Len(change[s]) \in 0 .. MaxChanges /\ DOMAIN change[s] = 1 .. Len(change[s])
  BY DEF AllowanceInv, Histories
<1>3. /\ reader'.at = "reading" /\ reader'.rows = {} /\ reader'.start = 0
      /\ reader'.began = [s \in Supervisors |-> Len(change[s])]
      /\ DOMAIN reader' = {"at", "rows", "start", "began"}
      /\ reader' = [at |-> "reading", rows |-> {}, start |-> 0,
                    began |-> [s \in Supervisors |-> Len(change[s])]]
  BY DEF BeginReading, NotReading
<1>4. reader' \in Reader
  BY <1>2, <1>3 DEF Reader
<1>5. AllRows' = AllRows
  BY <1>1 DEF AllRows
<1>6. ASSUME NEW s \in Supervisors, NEW v \in 1 .. Len(change[s])
      PROVE  RowPlace(AllRows, <<s, v>>) >= 0
  <2>1. <<s, v>> \in AllRows
    BY <1>2, AllowancesAssumption DEF AllRows
  <2>2. RowPlace(AllRows, <<s, v>>) \in Nat
    BY <2>1, RowsAreRows, RowsMoveOn
  <2> QED
    BY <2>2
<1>7. NothingLeftBehind'
  <2>1. \A s \in Supervisors : reader'.began[s] <= Len(change[s])
    BY <1>2, <1>3
  <2> QED
    BY <1>1, <1>3, <1>5, <1>6, <2>1 DEF NothingLeftBehind
<1> QED
  BY <1>1, <1>4, <1>7 DEF AllowanceInv, Histories, TimesKnown

LEMMA PageRead == AllowanceInv /\ ReadPage => AllowanceInv'
<1> SUFFICES ASSUME AllowanceInv, ReadPage PROVE AllowanceInv'
  OBVIOUS
<1> DEFINE page == Page(reader.start)
<1>1. UNCHANGED <<change, clock, zone, begun>> /\ reader.at = "reading"
  BY DEF ReadPage
<1>2. /\ reader \in Reader /\ reader.start \in Nat /\ reader.rows \subseteq AllRows
      /\ \A s \in Supervisors : reader.began[s] <= Len(change[s]) /\ reader.began[s] \in 0 .. MaxChanges
      /\ \A s \in Supervisors : Len(change[s]) \in 0 .. MaxChanges /\ DOMAIN change[s] = 1 .. Len(change[s])
  BY <1>1 DEF AllowanceInv, Histories, NothingLeftBehind, Reader
<1>3. page \subseteq AllRows
  BY DEF Page
<1>4. /\ reader'.rows = reader.rows \cup page /\ reader'.start = reader.start + PageSize
      /\ reader'.at = IF Cardinality(page) < PageSize THEN "done" ELSE "reading"
      /\ reader'.began = reader.began
  <2> HIDE DEF page
  <2> QED
    BY <1>2 DEF ReadPage, Reader, page
<1> HIDE DEF page
<1>5. reader' \in Reader
  <2>1. page \subseteq Supervisors \X (1 .. MaxChanges)
    BY <1>3, RowsAreRows
  <2>2. reader.start + PageSize \in Nat
    BY <1>2, AllowancesAssumption
  <2> QED
    BY <1>2, <1>4, <2>1, <2>2 DEF ReadPage, Reader, page
<1>6. AllRows' = AllRows
  BY <1>1 DEF AllRows
<1>7. ASSUME NEW s \in Supervisors, NEW v \in 1 .. reader.began[s], <<s, v>> \notin reader.rows \cup page
      PROVE  reader'.at = "reading" /\ RowPlace(AllRows, <<s, v>>) >= reader.start + PageSize
  <2>1. RowPlace(AllRows, <<s, v>>) >= reader.start
    BY <1>1, <1>7 DEF AllowanceInv, NothingLeftBehind
  <2>2. <<s, v>> \in AllRows
    <3>1. v \in 1 .. Len(change[s]) /\ v \in 1 .. MaxChanges
      BY <1>2, <1>7, AllowancesAssumption
    <3> QED
      BY <1>2, <3>1 DEF AllRows
  <2>3. <<s, v>> \notin Page(reader.start)
    BY <1>7 DEF page
  <2>4. RowPlace(AllRows, <<s, v>>) >= reader.start + PageSize /\ Cardinality(page) = PageSize
    BY <1>2, <2>1, <2>2, <2>3, PageIsFull DEF page
  <2> QED
    BY <1>4, <2>4, AllowancesAssumption
<1>8. NothingLeftBehind'
  BY <1>1, <1>2, <1>3, <1>4, <1>6, <1>7 DEF NothingLeftBehind
<1> QED
  BY <1>1, <1>5, <1>8 DEF AllowanceInv, Histories, TimesKnown

LEMMA TimeMoved ==
  ASSUME AllowanceInv, NEW z \in Zones, NEW time \in Nat, clock <= time, MoveOn(z, time)
  PROVE  AllowanceInv'
<1> DEFINE m == MonthIn(z, time)
<1>1. clock \in Nat /\ begun \in Nat /\ begun <= MonthIn("Johannesburg", clock)
  BY DEF AllowanceInv, TimesKnown
<1>2. begun' = Max({begun, m}) /\ clock' = time /\ zone' = z /\ UNCHANGED <<change, reader>>
  BY DEF MoveOn
<1>3. m \in Nat /\ m <= MonthIn("Johannesburg", time) /\ MonthIn("Johannesburg", time) \in Nat
  BY ZonesApart DEF Zones
<1>4. MonthIn("Johannesburg", clock) <= MonthIn("Johannesburg", time) /\ MonthIn("Johannesburg", clock) \in Nat
  BY <1>1, TimeGoesOn, ZonesApart DEF Zones
<1> HIDE DEF m
<1>5. Max({begun, m}) \in {begun, m}
  BY <1>1, <1>3 DEF Max
<1>6. TimesKnown'
  BY <1>1, <1>2, <1>3, <1>4, <1>5 DEF TimesKnown
<1>7. AllRows' = AllRows
  BY <1>2 DEF AllRows
<1> QED
  BY <1>2, <1>6, <1>7 DEF AllowanceInv, Histories, NothingLeftBehind

\* Histories, clock and reading stay consistent.
LEMMA AllowancesStep == AllowanceInv /\ [AllowanceNext]_allowanceVars => AllowanceInv'
<1> SUFFICES ASSUME AllowanceInv, [AllowanceNext]_allowanceVars PROVE AllowanceInv'
  OBVIOUS
<1>1. clock \in Nat /\ zone \in Zones
  BY DEF AllowanceInv, TimesKnown
<1>2. CASE \E s \in Supervisors, v \in 0 .. MaxChanges, m \in Months, a \in Amounts :
             SaveSupervisorAllowance(s, v, m, a)
  BY <1>2, SavedChange
<1>3. CASE BeginReading
  BY <1>3, ReadingBegins
<1>4. CASE ReadPage
  BY <1>4, PageRead
<1>5. CASE TimeMovesOn
  <2>1. clock + 1 \in Nat /\ clock <= clock + 1
    BY <1>1
  <2> QED
    BY <1>1, <1>5, <2>1, TimeMoved DEF TimeMovesOn
<1>6. CASE ChangeZone
  <2>1. PICK z \in Zones : MoveOn(z, clock)
    BY <1>6 DEF ChangeZone
  <2> QED
    BY <1>1, <2>1, TimeMoved
<1>7. CASE UNCHANGED allowanceVars
  <2>1. AllRows' = AllRows
    BY <1>7 DEF AllRows, allowanceVars
  <2> QED
    BY <1>7, <2>1 DEF allowanceVars, AllowanceInv, Histories, TimesKnown, NothingLeftBehind
<1> QED
  BY <1>2, <1>3, <1>4, <1>5, <1>6, <1>7 DEF AllowanceNext

LEMMA AllowanceInvariant == AllowanceSpec => []AllowanceInv
<1> QED
  BY AllowancesStart, AllowancesStep, PTL DEF AllowanceSpec

\* Every change that was there when the reading began is received, however many
\* are saved between two pages; with at most one more, the preview is of one
\* moment (readSupervisorAllowances, previewMonthlyEarnings).
THEOREM ReadingPassesNothingOver == AllowanceSpec => []NoChangePassedOver
<1>1. AllowanceInv => NoChangePassedOver
  <2> SUFFICES ASSUME AllowanceInv, reader.at = "done", NEW s \in Supervisors
               PROVE  /\ \A v \in 1 .. reader.began[s] : <<s, v>> \in reader.rows
                      /\ Len(change[s]) <= reader.began[s] + 1 =>
                           \E k \in reader.began[s] .. Len(change[s]) : \A m \in Months :
                             PreviewMonthlyEarnings(s, m) = InForce(change[s], 1 .. k, m)
    BY DEF NoChangePassedOver
  <2> DEFINE seen == {v \in 1 .. MaxChanges : <<s, v>> \in reader.rows}
             b == reader.began[s]
             n == Len(change[s])
  <2>1. \A v \in 1 .. b : <<s, v>> \in reader.rows
    BY DEF AllowanceInv, NothingLeftBehind
  <2>2. n \in Nat /\ n <= MaxChanges /\ DOMAIN change[s] = 1 .. n /\ b \in Nat /\ b <= n /\ MaxChanges \in Nat
    BY AllowancesAssumption DEF AllowanceInv, Histories, NothingLeftBehind, Reader
  <2>3. seen \subseteq 1 .. n
    <3>1. reader.rows \subseteq AllRows
      BY DEF AllowanceInv, NothingLeftBehind
    <3>2. \A v : <<s, v>> \in AllRows => v \in DOMAIN change[s]
      BY DEF AllRows
    <3> QED
      BY <2>2, <3>1, <3>2
  <2>4. 1 .. b \subseteq seen
    <3>1. \A v \in 1 .. b : v \in 1 .. MaxChanges
      BY <2>2
    <3> QED
      BY <2>1, <3>1
  <2>5. \A m \in Months : PreviewMonthlyEarnings(s, m) = InForce(change[s], seen, m)
    BY DEF PreviewMonthlyEarnings
  <2> HIDE DEF seen, b, n
  <2>6. ASSUME n <= b + 1 PROVE \E k \in b .. n : seen = 1 .. k
    <3>1. CASE b + 1 \in seen
      <4>1. n = b + 1
        BY <2>2, <2>3, <2>6, <3>1
      <4>2. \A v : v \in seen <=> v \in 1 .. n
        <5>1. \A v \in 1 .. n : v \in 1 .. b \/ v = b + 1
          BY <2>2, <4>1
        <5> QED
          BY <2>3, <2>4, <3>1, <5>1
      <4>3. seen = 1 .. n
        BY <2>3, <4>2
      <4> QED
        BY <2>2, <4>3
    <3>2. CASE b + 1 \notin seen
      <4>1. \A v \in 1 .. n : v \in 1 .. b \/ v = b + 1
        BY <2>2, <2>6
      <4>2. seen = 1 .. b
        BY <2>3, <2>4, <3>2, <4>1
      <4> QED
        BY <2>2, <4>2
    <3> QED
      BY <3>1, <3>2
  <2>7. n <= b + 1 => \E k \in b .. n : \A m \in Months :
                         PreviewMonthlyEarnings(s, m) = InForce(change[s], 1 .. k, m)
    BY <2>5, <2>6
  <2> QED
    BY <2>1, <2>7 DEF b, n
<1> QED
  BY <1>1, AllowanceInvariant, PTL

\* A month that is over keeps what every supervisor was due for it, however the
\* owner saves and moves the business between zones
\* (configure_supervisor_allowance).
THEOREM EndedMonthsStay == AllowanceSpec => EndedMonthsKept
<1>1. ASSUME AllowanceInv, [AllowanceNext]_allowanceVars, NEW s \in Supervisors, NEW m \in Months, m < begun
      PROVE  InForce(change'[s], DOMAIN change'[s], m) = InForce(change[s], DOMAIN change[s], m)
  <2>1. clock \in Nat /\ zone \in Zones /\ begun \in Nat /\ begun <= MonthIn("Johannesburg", clock)
    BY <1>1 DEF AllowanceInv, TimesKnown
  <2>2. /\ CurrentMonth \in Nat /\ MonthIn("Johannesburg", clock) <= CurrentMonth + 1
        /\ MonthIn("Johannesburg", clock) \in Nat
    BY <2>1, ZonesApart DEF CurrentMonth, Zones
  <2>3. ASSUME NEW r \in Supervisors, NEW v, NEW month \in Months, NEW a \in Amounts,
               SaveSupervisorAllowance(r, v, month, a)
        PROVE  InForce(change'[s], DOMAIN change'[s], m) = InForce(change[s], DOMAIN change[s], m)
    <3> DEFINE new == [month |-> month, amount |-> a]
    <3>1. month \in Nat /\ m \in Nat /\ month > CurrentMonth
      BY <2>3, AllowancesAssumption DEF SaveSupervisorAllowance, MonthAllowed
    <3>2. month > m
      BY <1>1, <2>1, <2>2, <3>1
    <3>3. new \in Change /\ new.month > m /\ change[s] \in Seq(Change)
      BY <1>1, <3>2 DEF Change, AllowanceInv, Histories
    <3>4. change' = [change EXCEPT ![r] = Append(@, new)] /\ change \in [Supervisors -> Seq(Change)]
      BY <1>1, <2>3 DEF SaveSupervisorAllowance, AllowanceInv, Histories
    <3> HIDE DEF new
    <3>5. change'[s] = IF s = r THEN Append(change[s], new) ELSE change[s]
      BY <3>4
    <3> QED
      BY <3>1, <3>3, <3>5, LaterChange
  <2>4. CASE UNCHANGED change
    BY <2>4
  <2> QED
    BY <1>1, <2>3, <2>4
       DEF AllowanceNext, BeginReading, ReadPage, TimeMovesOn, ChangeZone, MoveOn, allowanceVars
<1>2. AllowanceInv /\ [AllowanceNext]_allowanceVars =>
        [\A s \in Supervisors, m \in Months :
           m < begun => AllowanceIn(s, m)' = AllowanceIn(s, m)]_allowanceVars
  BY <1>1 DEF AllowanceIn
<1> QED
  BY <1>2, AllowanceInvariant, PTL DEF AllowanceSpec, EndedMonthsKept
=============================================================================
