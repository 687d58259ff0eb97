------------------------------ MODULE MCReport ------------------------------
(***************************************************************************)
(* The messages of the device and the cookies of Chrome, each with a view; *)
(* "SMS" is a section without a dialog, recognised with ==, and "Google    *)
(* Chrome" opens a dialog that offers the cookies.  The table of messages  *)
(* keeps the numbers of the device, that of cookies counts its rows.       *)
(***************************************************************************)
EXTENDS Report, TLC

CONSTANTS sms, chrome, smsTable, cookiesTable, smsView, cookiesView,
          smsBox, chromeBox, chromeCookies

MCTableOf == [p \in Parts |-> IF p = sms THEN smsTable ELSE cookiesTable]
MCShows == [v \in Views |-> IF v = smsView THEN {sms} ELSE {chrome}]
MCSavesTo == [v \in Views |-> IF v = smsView THEN smsTable ELSE cookiesTable]
MCGroups == {{v} : v \in Views}

MCContents == [s \in Sections |-> IF s = smsBox THEN <<sms>> ELSE <<chrome>>]
MCOptions == [b \in Boxes |-> IF b = chromeBox THEN <<chromeCookies>> ELSE <<>>]
MCLooks == [b \in Boxes |-> {s \in Sections : b = chromeBox /\ s = chromeCookies}]

MCSymmetry == Permutations(Ids) \union Permutations(Copies)
=============================================================================
