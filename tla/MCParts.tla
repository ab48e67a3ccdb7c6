------------------------------ MODULE MCParts -------------------------------
(***************************************************************************)
(* Parts that share no state, side by side in one run: a behaviour is a    *)
(* behaviour of one part, chosen at the start, while the others rest.      *)
(* Nothing is composed here, so that the states add up and do not          *)
(* multiply; what is composed for its interaction is composed in Trade.    *)
(***************************************************************************)
EXTENDS Orders, Organization, RecoveryMail, Book, Views, Places, Files, Device, TLC

VARIABLE part

Parts == {"links", "deal", "organization", "mail", "book", "views", "places", "files", "device"}

-----------------------------------------------------------------------------
(* Links and orders: v, a trader; fa, a farmer, whom v buys from; e,      *)
(* another organisation.  "links" starts without a link, "deal" with fa    *)
(* linked.                                                                 *)
CONSTANTS v, fa, e, pf, o1, w1, w2, n1

MCRefs == LinkIds \cup OrderIds
MCMay == [o \in Orgs |->
            IF o = fa THEN {"order:create", "order:respond", "linked:read"} ELSE Permission]
MCOwnerOf == [p \in Partners |-> v]
MCKindOf == [p \in Partners |-> "supplier"]
MCPhoneOf == [p \in Partners |-> n1]
MCVerified == [o \in Orgs |-> IF o = fa THEN n1 ELSE NoPhone]

NotLinked == [l \in LinkIds |-> NoLink]
FarmerLinked ==
  [l \in LinkIds |-> [partner |-> pf, linked |-> fa, status |-> "active", code |-> 0, age |-> "over"]]
MCStartLinks == {NotLinked, FarmerLinked}
MCNoOrders == [o \in OrderIds |-> NoOrder]

-----------------------------------------------------------------------------
(* The organisation: tr, a firm of o, or none yet; x, who was removed from *)
(* it or is new, y, who is new.                                            *)
CONSTANTS o, x, y, tr, n, b1, b2, d1, d2

MCFirmOf == [b \in Branches |-> tr]
MCStaffLimit == [i \in Firms |-> 1]
MCBranchLimit == [i \in Firms |-> 1]
World(kind, staff, new) ==
  [firm |-> [i \in Firms |-> IF i = tr THEN [type |-> kind, founder |-> o] ELSE GoneFirm],
   staff |-> [i \in Firms |-> IF i = tr THEN staff ELSE {}], new |-> new]
NoFirmYet == [firm |-> [i \in Firms |-> NoFirm], staff |-> [i \in Firms |-> {}], new |-> {x}]
MCWorlds == {World("trader", {x}, {y}), World("enterprise", {x}, {}), NoFirmYet}

-----------------------------------------------------------------------------
(* The recovery mail of two users with two addresses.                      *)
CONSTANTS ua, ub, e1, e2, c1, c2

-----------------------------------------------------------------------------
(* The book: receipts of latex and coffee, one paid in part, two to be     *)
(* paid later; files to import; an empty book and one of version 1.         *)
BookLine(product, formula, gross, tare, quality, price) ==
  [product |-> product, formula |-> formula, gross |-> gross, tare |-> tare,
   quality |-> quality, loss |-> Unset, price |-> price * DONG, total |-> Unset]

Latex  == BookLine("latex", "rubberLatex", 1001, 0, 31, 430)
Wet    == BookLine("latex", "rubberLatex", 500, 0, 0, 430)
Coffee == BookLine("coffee", "netAfterTare", 1000, 30, Unset, 1050)
Sold   == BookLine("coffee", "standard", 300, 0, Unset, 2000)
Factory == BookLine("latex", "rubberLatex", 600, 0, 28, 900)

MCRules ==
  <<[active |-> TRUE, product |-> "coffee", pickup |-> "any", minWeight |-> 900,
     metric |-> "none", steps |-> {}, fixed |-> 0, percent |-> 20],
    [active |-> TRUE, product |-> "any", pickup |-> "pickup", minWeight |-> Unset,
     metric |-> "quality", steps |-> {[from |-> 20, amount |-> 100 * DONG], [from |-> 30, amount |-> 400 * DONG]},
     fixed |-> 0, percent |-> 0]>>

Form(kind, lines, paid, date, due) ==
  [kind |-> kind, lines |-> lines, paid |-> paid * DONG, date |-> date, creditTerms |-> due,
   adjustments |-> SuggestAdjustments(MCRules, lines, "pickup")]

MCForms ==
  {Form("purchase", <<Latex, Coffee>>, 0, 3, {4}),
   Form("purchase", <<Coffee, Wet>>, 15000, 4, {}),
   Form("sale", <<Sold, Factory>>, 5000, 6, {6})}

Heading == <<Word("ngay can"), Word("ten nong ho"), Word("hang"), Word("can duoc"), Word("gia"),
             Word("da tra")>>
OldRow(date, paid) ==
  <<date, Word("ba"), Word("latex"), Number("6", 600), Figure("900", 900 * DONG), paid>>
NoWord == <<Word(""), Blank, Blank>>

(* A file of two rows that is taken; one that is taken with a price beyond  *)
(* the limit and 2000,5 dong paid; one of four rows, with headings in       *)
(* another order; one with wrong rows; one without the price; one of -6 kg; *)
(* an empty one; the heading alone; two lists of sellers.                   *)
MCSheets ==
  {<<Heading, OldRow(DayText("1/1", 0), Figure("2000", 2000 * DONG)), OldRow(FreeText("jan 2", 2), Blank)>>,
   <<Heading, [OldRow(DayText("1/1", 0), Figure("2000,5", 2000 * DONG + 1))
                 EXCEPT ![5] = Number("2500", 2500 * DONG)]>>,
   <<Reverse(Heading), Reverse(OldRow(DayText("1/1", 0), Figure("0", 0))), NoWord,
     Reverse(OldRow(Date("2/1", 1), Blank)), Reverse(OldRow(Number("3", 3), Number("70000", 70000 * DONG))),
     Reverse(OldRow(DayText("2/1", 1), Number("1", DONG)))>>,
   <<Heading, OldRow(Word("soon"), Blank), OldRow(DayText("1/1", 0), Number("-5", -5 * DONG)), NoWord,
     OldRow(Number("2", 2), Blank), <<DayText("1/1", 0), Blank, Word("latex"), Word("much")>>,
     OldRow(Date("2/1", 1), Word("all"))>>,
   <<SubSeq(Heading, 1, 4), SubSeq(OldRow(DayText("1/1", 0), Blank), 1, 4)>>,
   <<Heading, [OldRow(DayText("1/1", 0), Blank) EXCEPT ![4] = Number("-6", -600)]>>,
   << >>,
   <<Heading, NoWord>>,
   <<<<Word("dia chi"), Word("ho ten")>>, <<Blank, Word("ba")>>, <<Word("north")>>>>,
   <<<<Word("ho ten")>>, <<Word("ba")>>, NoWord, <<Word("ba")>>>>}

MCLimits == [lines |-> 2, adjustments |-> 2, creditTerms |-> 1, quantity |-> 2000]

MCContracts ==
  {[kind |-> "purchase", party |-> 1, name |-> "ba", product |-> "latex", start |-> 0, end |-> 2,
    quantity |-> 900, closed |-> FALSE],
   [kind |-> "sale", party |-> Unset, name |-> "ba", product |-> "coffee", start |-> 4, end |-> 6,
    quantity |-> 300, closed |-> TRUE]}

MCSaved ==
  LET empty == [parties |-> [k \in Kinds |-> << >>], receipts |-> << >>, drafts |-> << >>,
                prices |-> [p \in {"latex", "coffee"} |-> 0], born |-> 0]
  IN  {empty,
       [empty EXCEPT !.born = 2, !.parties["purchase"] = <<[id |-> 1, name |-> "tu"]>>,
          !.receipts = <<[id |-> 2, date |-> 1, supplierName |-> "tu", supplierId |-> 1,
                          amountPaid |-> 3000 * DONG, product |-> "coffee", gross |-> 901,
                          deduction |-> 3, price |-> 1050 * DONG]>>]}

-----------------------------------------------------------------------------
(* What two owners write on one reader.                                    *)
Written(id, owner, at, kind, b, by) ==
  [id |-> id, owner |-> owner, at |-> at, kind |-> kind, branch |-> b, by |-> by, total |-> 1,
   payments |-> [m \in Hands, d \in Days |-> 0], deleted |-> FALSE]

MCWritable ==
  {Written(1, "v", 1, "purchase", "none", "mai"), Written(2, "v", 1, "purchase", "b1", "bay"),
   Written(3, "e", 2, "sale", "none", "bay")}

-----------------------------------------------------------------------------
vars == <<part, chain, partnerLinks, tradeOrders, organization, mailing, bookVars, viewVars,
          placeVars, fileVars, deviceVars>>

(* A part that rests is in one of its initial states.                      *)
Init ==
  /\ part \in Parts
  /\ ChainInit /\ LinksInit /\ OrdersInit
  /\ links = IF part = "deal" THEN FarmerLinked ELSE NotLinked
  /\ OrganizationInit
  /\ part # "organization" => firm = NoFirmYet.firm
  /\ RecoveryMailInit
  /\ BookInit
  /\ part # "book" => book.receipts = << >>
  /\ ViewsInit
  /\ PlacesInit
  /\ part # "places" => entitledToPrices
  /\ FilesInit
  /\ part # "files" => folder = {}
  /\ DeviceInit

LinksPart == part = "links" /\ LinksNext /\ UNCHANGED tradeOrders
DealPart == part = "deal" /\ OrdersNext

Next ==
  /\ UNCHANGED part
  /\ \/ /\ part \in {"links", "deal"}
        /\ UNCHANGED <<organization, mailing, bookVars, viewVars, placeVars, fileVars, deviceVars>>
        /\ LinksPart \/ DealPart
     \/ /\ part = "organization"
        /\ UNCHANGED <<chain, partnerLinks, tradeOrders, mailing, bookVars, viewVars, placeVars, fileVars, deviceVars>>
        /\ OrganizationNext
     \/ /\ part = "mail"
        /\ UNCHANGED <<chain, partnerLinks, tradeOrders, organization, bookVars, viewVars, placeVars, fileVars, deviceVars>>
        /\ RecoveryMailNext
     \/ /\ part = "book"
        /\ UNCHANGED <<chain, partnerLinks, tradeOrders, organization, mailing, viewVars, placeVars, fileVars, deviceVars>>
        /\ BookNext
     \/ /\ part = "views"
        /\ UNCHANGED <<chain, partnerLinks, tradeOrders, organization, mailing, bookVars, placeVars, fileVars, deviceVars>>
        /\ ViewsNext
     \/ /\ part = "places"
        /\ UNCHANGED <<chain, partnerLinks, tradeOrders, organization, mailing, bookVars, viewVars, fileVars, deviceVars>>
        /\ PlacesNext
     \/ /\ part = "files"
        /\ UNCHANGED <<chain, partnerLinks, tradeOrders, organization, mailing, bookVars, viewVars, placeVars, deviceVars>>
        /\ FilesNext
     \/ /\ part = "device"
        /\ UNCHANGED <<chain, partnerLinks, tradeOrders, organization, mailing, bookVars, viewVars, placeVars, fileVars>>
        /\ DeviceNext

Spec == Init /\ [][Next]_vars

(* Who serves and who asks do not matter.  A part that rests is the same   *)
(* under every permutation, so those of different parts go together.       *)
Exchange(S, other) == CHOOSE p \in Permutations(S) : \A i \in S : (p[i] # i) = other

MCSymmetry ==
  {Exchange(Workers, i) @@ Exchange(Desks, i) @@ Exchange(Calls, i)
     @@ Exchange(Branches, j) @@ Exchange(Users, j) @@ Exchange(Addresses, k) : i, j, k \in BOOLEAN}
=============================================================================
