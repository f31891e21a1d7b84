------------------------------- MODULE Quotes -------------------------------
(***************************************************************************)
(* Quotes and their conversion into bookings. Several office users act on  *)
(* pages opened at any earlier time, so a request may carry any version    *)
(* the quote ever had, and any request may be repeated after a lost        *)
(* answer. Each call holds the quote's row from its first read to its      *)
(* commit and is one step. Bookings are also inserted directly, without a  *)
(* version, and a booking goes on to be moved or cancelled. Who may act,   *)
(* and the wording of reasons and evidence, are left out. A VAT policy is   *)
(* named by its version; quotes and bookings freeze the policy they saw.   *)
(***************************************************************************)
EXTENDS Naturals, Sequences

CONSTANTS
  Quotes,          \* one for each request key
  Selections,      \* what may be quoted
  Starts,          \* the starts a booking may be asked for
  OpenStarts,      \* those inside the working hours
  MaxRate,         \* bound on changes of the catalogue
  MaxPolicy,       \* bound on changes of the VAT settings
  NoQuote, NoBooking

\* What a conversion is asked for: a start, and whether a reason to work
\* outside the hours came with it.
Details == [start : Starts, override : BOOLEAN]

QuoteRow ==
  [status : {"draft", "issued", "accepted", "declined", "cancelled", "converted"},
   version : Nat \ {0}, selection : Selections, price : Nat, tax : Nat,
   booking : Nat \cup {NoBooking}, conversion : Details \cup {NoBooking}]

ASSUME QuotesAssumption ==
  OpenStarts \subseteq Starts /\ NoBooking \notin Nat /\ NoQuote \notin QuoteRow

VARIABLES
  quote,           \* [quotes -> row of business_quotes, or NoQuote]
  booking,         \* rows of one_off_bookings that name a quote, in order
  handoff,         \* rows of quote_invoice_handoffs: <<quote, booking>>
  rate,            \* what the catalogue charges
  policy,          \* version of business_vat_settings
  contact,         \* whether the customer and the address are active
  receipts         \* [quote, asked, booking]: the answers conversions gave
quoteVars == <<quote, booking, handoff, rate, policy, contact, receipts>>

Row(q) == quote[q]
Made(q) == Row(q) # NoQuote

QuotesInit ==
  /\ quote = [q \in Quotes |-> NoQuote]
  /\ booking = <<>> /\ handoff = {} /\ receipts = {}
  /\ rate = 1 /\ policy = 0 /\ contact = TRUE

\* A repeated request key with the same details answers with the quote it
\* made, with other details it is refused: only the first one changes a row.
CreateQuote(q, selection) ==
  /\ ~Made(q) /\ contact
  /\ quote' = [quote EXCEPT ![q] =
       [status |-> "draft", version |-> 1, selection |-> selection, price |-> rate,
        tax |-> policy, booking |-> NoBooking, conversion |-> NoBooking]]
  /\ UNCHANGED <<booking, handoff, rate, policy, contact, receipts>>

Transitions ==
  {<<"draft", "issued">>, <<"draft", "cancelled">>,
   <<"issued", "accepted">>, <<"issued", "declined">>, <<"issued", "cancelled">>,
   <<"accepted", "converted">>, <<"accepted", "cancelled">>}

\* Issuing holds the VAT settings, shared, until it commits.
Issuable(q) == Row(q).tax = policy

ChangeQuote(q, version, status) ==
  /\ Made(q) /\ version = Row(q).version
  /\ <<Row(q).status, status>> \in Transitions
  /\ status = "issued" => Issuable(q)
  /\ quote' = [quote EXCEPT ![q].status = status, ![q].version = @ + 1]
  /\ UNCHANGED <<booking, handoff, rate, policy, contact, receipts>>

\* The triggers of an inserted booking: the agreement is copied from the
\* quote, the handoff written and the quote closed, in the same transaction.
Bookable(q, asked) ==
  /\ Row(q).status = "accepted"
  /\ contact
  /\ asked.start \in OpenStarts \/ asked.override
  /\ \A b \in DOMAIN booking : booking[b].quote # q

InsertBooking(q, asked) ==
  /\ booking' = Append(booking,
       [quote |-> q, made |-> asked, start |-> asked.start, status |-> "draft",
        price |-> Row(q).price, selection |-> Row(q).selection, tax |-> Row(q).tax])
  /\ handoff' = handoff \cup {<<q, Len(booking) + 1>>}
  /\ quote' = [quote EXCEPT ![q].status = "converted", ![q].version = @ + 1,
                            ![q].booking = Len(booking) + 1, ![q].conversion = asked]

InsertDirectly(q, asked) ==
  /\ Made(q) /\ Bookable(q, asked)
  /\ InsertBooking(q, asked)
  /\ UNCHANGED <<rate, policy, contact, receipts>>

Receipt(q, asked, b) == [quote |-> q, asked |-> asked, booking |-> b]

ConvertQuote(q, version, asked) ==
  /\ Made(q) /\ Row(q).status # "converted"
  /\ version = Row(q).version
  /\ Bookable(q, asked)
  /\ InsertBooking(q, asked)
  /\ receipts' = receipts \cup {Receipt(q, asked, Len(booking) + 1)}
  /\ UNCHANGED <<rate, policy, contact>>

\* Mutant: a repeated conversion is not compared with the one that was made.
AnyReplay(q, asked) == TRUE

ReplayMatches(q, asked) == Row(q).conversion = asked

\* The version is not looked at: a lost answer may be asked for again from
\* the page that was first submitted.
ConvertAgain(q, asked) ==
  /\ Made(q) /\ Row(q).status = "converted"
  /\ ReplayMatches(q, asked)
  /\ <<q, Row(q).booking>> \in handoff
  /\ receipts' = receipts \cup {Receipt(q, asked, Row(q).booking)}
  /\ UNCHANGED <<quote, booking, handoff, rate, policy, contact>>

\* The booking's own life, which the quote does not follow.
MoveBooking(b, start) ==
  /\ booking[b].status # "cancelled"
  /\ booking' = [booking EXCEPT ![b].start = start]
  /\ UNCHANGED <<quote, handoff, rate, policy, contact, receipts>>

CancelBooking(b) ==
  /\ booking[b].status # "cancelled"
  /\ booking' = [booking EXCEPT ![b].status = "cancelled"]
  /\ UNCHANGED <<quote, handoff, rate, policy, contact, receipts>>

ChangeRate ==
  /\ rate < MaxRate /\ rate' = rate + 1
  /\ UNCHANGED <<quote, booking, handoff, policy, contact, receipts>>

\* configure_business_vat: the owner saves the settings of the version seen.
ConfigureVat(version) ==
  /\ version = policy /\ policy < MaxPolicy
  /\ policy' = policy + 1
  /\ UNCHANGED <<quote, booking, handoff, rate, contact, receipts>>

ChangeContact ==
  /\ contact' = ~contact
  /\ UNCHANGED <<quote, booking, handoff, rate, policy, receipts>>

SeenVersions(q) == IF Made(q) THEN 1 .. Row(q).version ELSE {}

QuotesNext ==
  \/ \E q \in Quotes :
       \/ \E s \in Selections : CreateQuote(q, s)
       \/ \E v \in SeenVersions(q) :
            \/ \E t \in {"issued", "accepted", "declined", "cancelled"} : ChangeQuote(q, v, t)
            \/ \E a \in Details : ConvertQuote(q, v, a)
       \/ \E a \in Details : InsertDirectly(q, a) \/ ConvertAgain(q, a)
  \/ \E b \in DOMAIN booking : CancelBooking(b) \/ \E s \in Starts : MoveBooking(b, s)
  \/ \E v \in 0 .. policy : ConfigureVat(v)
  \/ ChangeRate \/ ChangeContact

QuotesSpec == QuotesInit /\ [][QuotesNext]_quoteVars

-----------------------------------------------------------------------------
(* What conversions guarantee *)

BookingsOf(q) == {b \in DOMAIN booking : booking[b].quote = q}

\* However conversions, their retries, direct inserts, cancellations of the
\* quote and changes of the booking follow each other: a converted quote has
\* exactly one booking and one handoff, at the price, selection and tax that
\* were accepted, no other quote has any, and every conversion that was ever
\* answered was answered with that booking, made for the details it asked
\* for (docs/quotes-and-conversion.md: an identical retry returns the
\* existing booking, conflicting details return a conflict).
OneBookingPerAgreement ==
  /\ \A q \in Quotes :
       IF Made(q) /\ Row(q).status = "converted"
         THEN /\ BookingsOf(q) = {Row(q).booking}
              /\ handoff \cap ({q} \X Nat) = {<<q, Row(q).booking>>}
              /\ booking[Row(q).booking].price = Row(q).price
              /\ booking[Row(q).booking].selection = Row(q).selection
              /\ booking[Row(q).booking].tax = Row(q).tax
         ELSE BookingsOf(q) = {} /\ handoff \cap ({q} \X Nat) = {}
  /\ \A r \in receipts :
       /\ Made(r.quote) /\ Row(r.quote).booking = r.booking
       /\ booking[r.booking].made = r.asked
=============================================================================
