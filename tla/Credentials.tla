---------------------------- MODULE Credentials ----------------------------
(***************************************************************************)
(* Where a credential travels. `tunnel` (cli tunnel.rs) is a proxy on      *)
(* loopback that adds the API key and forwards a browser's requests to a   *)
(* run's gateway; it hands redirects back. Every other client that carries *)
(* a key, a token or a presigned URL (protocol transfer.rs                 *)
(* credentialed_client_builder) follows redirects within one origin. The   *)
(* browser, the app behind the gateway and the redirecting server are      *)
(* outside the program.                                                    *)
(***************************************************************************)
EXTENDS Naturals, Sequences

CONSTANTS
    MaxVisits,    \* bound: requests of the browser
    MaxRedirects  \* MAX_SAME_HOST_REDIRECTS
ASSUME CredentialsAssumption == MaxVisits \in Nat /\ MaxRedirects \in Nat

VARIABLES
    browser,      \* its place, the origin it is at, its cookie, whether it logged in
    atTunnel,      \* the headers of the request at the tunnel
    upstream,     \* the headers of the request the tunnel has sent, and to whom
    visits,
    apiClient        \* the credentialed client: its place, where its request is, its hops

credentialVars == <<browser, atTunnel, upstream, visits, apiClient>>

\* An origin is a scheme and a host: the gateway is an https one, and an app behind it, which
\* is spoken to in plain http, may take itself for the http one. "home, other scheme" has the
\* host of home, and another scheme or port.
Origins == {"tunnel", "gateway", "gateway over http", "elsewhere"}
Servers == {"home", "home, other scheme", "elsewhere"}

\* A header may occur several times in a message.
HeaderNames == {"salad-api-key", "connection", "x-hop", "cookie", "host"}
Headers == [HeaderNames -> Seq({"browser", "key", "x-hop", "session", "tunnel", "gateway"})]
NoHeaders == [n \in HeaderNames |-> <<>>]

CredentialsTypeOK ==
    /\ browser \in [pc: {"idle", "waiting"}, at: Origins \cup {"nowhere"},
                    cookie: BOOLEAN, loggedIn: BOOLEAN]
    /\ atTunnel \in Headers
    /\ upstream \in [headers: Headers, at: Origins \cup {"nowhere"}]
    /\ visits \in 0 .. MaxVisits
    /\ apiClient \in [pc: {"asking", "done"}, at: Servers, hops: 0 .. MaxRedirects]

Nowhere == [headers |-> NoHeaders, at |-> "nowhere"]

CredentialsInit ==
    /\ browser = [pc |-> "idle", at |-> "nowhere", cookie |-> FALSE, loggedIn |-> FALSE]
    /\ atTunnel = NoHeaders /\ upstream = Nowhere
    /\ visits = 0
    /\ apiClient = [pc |-> "asking", at |-> "home", hops |-> 0]
-----------------------------------------------------------------------------
(***************************************************************************)
(* The browser. A page may send a key of its own, and may declare headers  *)
(* to be of one hop. An HTTP/2 browser splits its cookies over several.    *)
(***************************************************************************)
Cookies == IF browser.cookie THEN <<"session", "session">> ELSE <<>>

Visit(own, hop) ==
    /\ browser.pc = "idle" /\ visits < MaxVisits
    /\ visits' = visits + 1
    /\ browser' = [browser EXCEPT !.pc = "waiting", !.at = "tunnel"]
    /\ atTunnel' = [NoHeaders EXCEPT
          !["salad-api-key"] = IF own THEN <<"browser">> ELSE <<>>,
          !["connection"]    = IF hop THEN <<"x-hop">> ELSE <<>>,
          !["x-hop"]         = IF hop THEN <<"browser">> ELSE <<>>,
          !["cookie"]        = Cookies,
          !["host"]          = <<"tunnel">>]
    /\ UNCHANGED <<upstream, apiClient>>
-----------------------------------------------------------------------------
(***************************************************************************)
(* tunnel: forward.                                                        *)
(***************************************************************************)
HopByHop == {"connection", "host"}
Named(headers) == {headers["connection"][i] : i \in 1 .. Len(headers["connection"])}
StripHopByHop(headers) ==
    [n \in HeaderNames |-> IF n \in HopByHop \cup Named(headers) THEN <<>> ELSE headers[n]]

AppendKey(headers) ==                           \* mutant: beside what the page has sent
    [headers EXCEPT !["salad-api-key"] = Append(@, "key")]
InsertKey(headers) == [headers EXCEPT !["salad-api-key"] = <<"key">>]

Send ==
    /\ atTunnel # NoHeaders
    /\ upstream' = [headers |-> [InsertKey(StripHopByHop(atTunnel)) EXCEPT !["host"] = <<"gateway">>],
                    at |-> "gateway"]
    /\ atTunnel' = NoHeaders
    /\ UNCHANGED <<browser, visits, apiClient>>

TooLarge ==                                     \* over MAX_REQUEST_BODY, or unreadable
    /\ atTunnel # NoHeaders
    /\ atTunnel' = NoHeaders
    /\ browser' = [browser EXCEPT !.pc = "idle"]
    /\ UNCHANGED <<upstream, visits, apiClient>>

SendFails ==                                    \* 502
    /\ upstream # Nowhere
    /\ upstream' = Nowhere
    /\ browser' = [browser EXCEPT !.pc = "idle"]
    /\ UNCHANGED <<atTunnel, visits, apiClient>>

\* rewrite_upstream_url: the match is from the scheme to the end of the host. Every other URL
\* passes through untouched, the gateway's over http too.
Rewritten(origin) == IF origin = "gateway" THEN "tunnel" ELSE origin

StripCookieDomain(cookie) == IF cookie = "domain" THEN "host only" ELSE cookie

\* http_client: Policy::none.
TunnelFollows == FALSE

\* The app takes the gateway for its own host, in its redirects and in the cookie of a
\* login. A browser keeps a cookie without a domain.
HandBack(location, login) ==
    /\ upstream' = Nowhere
    /\ browser' = [browser EXCEPT !.pc = "idle",
                                  !.at = IF location = "none" THEN @ ELSE Rewritten(location),
                                  !.cookie = @ \/ (login /\ StripCookieDomain("domain") = "host only"),
                                  !.loggedIn = @ \/ login]

Respond(location, login) ==
    /\ upstream # Nowhere
    /\ IF location # "none" /\ TunnelFollows
       THEN upstream' = [upstream EXCEPT !.at = location] /\ UNCHANGED browser
       ELSE HandBack(location, login)
    /\ UNCHANGED <<atTunnel, visits, apiClient>>
-----------------------------------------------------------------------------
(***************************************************************************)
(* The credentialed client, and a server that redirects as it likes.       *)
(***************************************************************************)
SameOrigin(a, b) == a = b

TooManyRedirects(hops) == hops > MaxRedirects

\* previous() counts the URL that was asked first.
Redirect(to) ==
    /\ apiClient.pc = "asking"
    /\ apiClient' = IF ~SameOrigin(apiClient.at, to) \/ TooManyRedirects(apiClient.hops + 1)
                 THEN [apiClient EXCEPT !.pc = "done"]
                 ELSE [apiClient EXCEPT !.at = to, !.hops = apiClient.hops + 1]
    /\ UNCHANGED <<browser, atTunnel, upstream, visits>>

Responded ==
    /\ apiClient.pc = "asking"
    /\ apiClient' = [apiClient EXCEPT !.pc = "done"]
    /\ UNCHANGED <<browser, atTunnel, upstream, visits>>

ClientStep == Responded \/ \E to \in Servers : Redirect(to)
-----------------------------------------------------------------------------
CredentialsNext ==
    \/ \E own, hop \in BOOLEAN : Visit(own, hop)
    \/ Send \/ TooLarge \/ SendFails
    \/ \E location \in {"none", "gateway", "gateway over http", "elsewhere"}, login \in BOOLEAN :
          Respond(location, login)
    \/ ClientStep

CredentialsSpec == CredentialsInit /\ [][CredentialsNext]_credentialVars
-----------------------------------------------------------------------------
\* A credential is sent to the origin it is for and to no other, whoever redirects; and the
\* gateway gets the key of this process, not one a page has sent along, with all of the
\* browser's cookies and without what was meant for one hop.
KeyStaysHome ==
    /\ apiClient.at = "home" /\ upstream.at \in {"nowhere", "gateway"}
    /\ upstream # Nowhere =>
          /\ upstream.headers["salad-api-key"] = <<"key">>
          /\ upstream.headers["x-hop"] = <<>>
          /\ upstream.headers["cookie"] = Cookies

\* An app that redirects to itself by the gateway's own https URL does not send the browser
\* to the gateway, where a navigation carries no key; and a login lasts. Of an app that takes
\* http for its scheme it says nothing: that redirect leaves the tunnel (tunnel.rs has a test
\* that it passes through).
OwnRedirectsComeBack ==
    /\ browser.at # "gateway"
    /\ browser.loggedIn => browser.cookie
\* tunnel.rs and the clients: secrets stay where they belong, and logins work.
CredentialsStayHome == KeyStaysHome /\ OwnRedirectsComeBack
=============================================================================
