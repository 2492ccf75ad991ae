------------------------------ MODULE VerifyPage ------------------------------
(***************************************************************************)
(* The page a verifier opens (app/verify/page.tsx), from the link of a QR  *)
(* code, which carries the token, or with an empty field to paste one in.  *)
(* The link may change while the page is mounted: the effect that depends  *)
(* on its token then sends it, whatever is under way.                      *)
(***************************************************************************)
EXTENDS AuthSession

\* The state of the page when the token, or None, is in the link and so in the
\* field.  asked is the token it sent last for verification, sent are those it
\* ever sent, and overlapped tells whether it sent one while another was under
\* way (history).
VerifyState(token) ==
    [page |-> "verify", mounted |-> TRUE, link |-> token, input |-> token, loading |-> FALSE,
     result |-> None, error |-> FALSE, asked |-> None, sent |-> {}, overlapped |-> FALSE]

SentKeepsResult(page, token) ==
    [page EXCEPT !.error = FALSE, !.loading = TRUE, !.asked = token, !.sent = @ \cup {token}]

\* The page once it sent the token.
Sent(page, token) ==
    [page EXCEPT !.error = FALSE, !.result = None, !.loading = TRUE,
                 !.asked = token, !.sent = @ \cup {token}]

HandleVerify(page, token) ==
    /\ ui' = Sent(page, token)
    /\ Await("verify", token, None, {"verifyQRToken"})

\* The token in the link is sent at once.
VerifyMount ==
    /\ ui = Opening("verify")
    /\ \/ /\ ui' = VerifyState(None)
          /\ UNCHANGED calls
       \/ \E token \in QRTokens : HandleVerify(VerifyState(token), token)
    /\ SameSession
    /\ UNCHANGED <<world, feed>>

\* Back, Forward or the link of the bar lead to the same page with another
\* token, or none.  The field stays as it is.
LinkChanges ==
    /\ On("verify")
    /\ \/ /\ ui.link # None
          /\ ui' = [ui EXCEPT !.link = None]
          /\ UNCHANGED calls
       \/ \E token \in QRTokens \ {ui.link} :
              HandleVerify([ui EXCEPT !.link = token, !.overlapped = @ \/ ui.loading], token)
    /\ SameSession
    /\ UNCHANGED <<world, feed>>

VerifyAlwaysEnabled == ui.page = "verify"

\* The button is disabled={loading}.
VerifyEnabled == ~ui.loading

\* A blank token is not sent; an earlier result then stays.
SubmitToken ==
    /\ On("verify")
    /\ VerifyEnabled
    /\ \/ /\ ui.input = None
          /\ ui' = [ui EXCEPT !.error = TRUE]
          /\ UNCHANGED calls
       \/ ui.input # None /\ HandleVerify(ui, ui.input)
    /\ SameSession
    /\ UNCHANGED <<world, feed>>

\* The field may be edited at any time, also while a token is verified.
EditToken ==
    /\ On("verify")
    /\ \E token \in (QRTokens \cup {None}) \ {ui.input} : ui' = [ui EXCEPT !.input = token]
    /\ SameSession
    /\ UNCHANGED <<world, feed, calls>>

HandleVerifyResumes(c) ==
    /\ Resumes(c, "verify")
    /\ Sets(c, IF Fulfilled(c, "verifyQRToken")
               THEN [ui EXCEPT !.loading = FALSE, !.result = Value(c, "verifyQRToken")]
               ELSE [ui EXCEPT !.loading = FALSE, !.error = TRUE])
    /\ End(c)
    /\ SameSession
    /\ UNCHANGED <<world, feed>>

-----------------------------------------------------------------------------
\* The identity on the screen is that of a token this page sent, not of another
\* one in the field or of a visit before; and of the token sent last, unless the
\* link changed while a token was verified: then an earlier answer may be shown.
VerdictIsOfTheToken ==
    On("verify") /\ ui.result # None =>
        /\ ui.result \in ui.sent
        /\ ~ui.overlapped => ui.result = ui.asked
=============================================================================
