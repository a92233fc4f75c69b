------------------------------ MODULE Decisions ------------------------------
(***************************************************************************)
(* Pure decisions of the client, each with a definition of what it is for: *)
(* capture tiers, the choice of the pinned device, whether to apply an     *)
(* update, the widget's place on the screen, its portal paths, the address *)
(* the uplink dials and the redirect that ends a sign-in.                  *)
(*                                                                         *)
(* Characters are their byte values.                                       *)
(***************************************************************************)
EXTENDS Integers, Sequences, SequencesExt

-----------------------------------------------------------------------------
(* Tiers: tier.rs classify, fed from the registry by os.rs, and the copy   *)
(* the service keeps because it must not link the audio crate.             *)

Classify(os) ==
    IF os.arch # "X64" \/ os.major < 10 THEN "none"
    ELSE IF os.sku \in {"Server", "ServerCore"}
         THEN IF os.build >= 20348 THEN "A" ELSE "none"
    ELSE IF os.build >= 22000 THEN "A"
    ELSE IF os.build >= 18362 THEN "B" ELSE "none"

SentinelCaptureTier(os) ==
    LET server == os.sku = "Server"
        floor == IF server THEN 20348 ELSE 22000 IN
    IF os.build >= floor THEN "A"
    ELSE IF ~server /\ os.build >= 18362 THEN "B" ELSE "none"

\* The two agree on every x64 Windows 10 or later that is no Server Core.
TierRight(os, tier) ==
    os.arch = "X64" /\ os.major >= 10 /\ os.sku # "ServerCore" => tier = Classify(os)

-----------------------------------------------------------------------------
(* The pinned device: container id first, friendly name as the fallback,   *)
(* never another device.  0 is no container and no name.                   *)

Usable(d) == d.render /\ d.active

\* Whether pinned entry p selects device d, by its container or by its name.
Selects(by, p, d) ==
    IF by = "container" THEN d.container = p.container ELSE p.name # 0 /\ d.name = p.name

\* The first of a set of positions.
First(S) == CHOOSE i \in S : \A j \in S : i <= j

\* The usable devices the i-th pinned entry selects by the given test, and the entries that
\* select one.
Found(c, by, i) == {k \in DOMAIN c.devices : /\ Usable(c.devices[k])
                                             /\ Selects(by, c.pinned[i], c.devices[k])}
Wanted(c, by) == {i \in DOMAIN c.pinned : Found(c, by, i) # {}}

\* The first device a pinned entry selects by the given test, for the first
\* entry that selects one; 0 for none.
FirstFound(c, by) ==
    IF Wanted(c, by) = {} THEN 0 ELSE First(Found(c, by, First(Wanted(c, by))))

ResolvePinned(c) ==
    LET byContainer == FirstFound(c, "container") IN
    IF byContainer # 0 THEN byContainer ELSE FirstFound(c, "name")

\* Only an active render device the policy names, none only if there is none,
\* and never one that matches by name while another is there by container.
Exact(c, d) == \E i \in DOMAIN c.pinned : d.container = c.pinned[i].container
Matching(c) ==
    {j \in DOMAIN c.devices :
       /\ Usable(c.devices[j])
       /\ \/ Exact(c, c.devices[j])
          \/ \E i \in DOMAIN c.pinned : c.devices[j].name = c.pinned[i].name}

PinnedRight(c, k) ==
    /\ k = 0 <=> Matching(c) = {}
    /\ k # 0 => k \in Matching(c)
    /\ (\E j \in Matching(c) : Exact(c, c.devices[j])) => Exact(c, c.devices[k])

-----------------------------------------------------------------------------
(* Updates: update.rs parses dotted versions, pads them to three fields and *)
(* compares them as the vectors they are.                                  *)

Bad == -1  \* a field that is not a number

\* A version never parses to the empty vector: <<>> is None.
Parse(v) == IF v = <<>> \/ \E i \in DOMAIN v : v[i] = Bad THEN <<>>
            ELSE [i \in 1..(IF Len(v) < 3 THEN 3 ELSE Len(v)) |-> IF i <= Len(v) THEN v[i] ELSE 0]

\* The order of vectors: the first field that differs decides, else the length.
Below(a, b) ==
    \/ \E i \in DOMAIN a \cap DOMAIN b : a[i] < b[i] /\ \A j \in 1..(i - 1) : a[j] = b[j]
    \/ Len(a) < Len(b) /\ \A j \in DOMAIN a : a[j] = b[j]
AtMost(a, b) == a = b \/ Below(a, b)

Decide(o) ==
    LET staged == Parse(o.staged) current == Parse(o.current) IN
    IF staged = <<>> \/ current = <<>> THEN "Nothing"
    ELSE IF AtMost(staged, current) THEN "Nothing"
    ELSE IF o.inCall THEN "DeferInCall" ELSE "Apply"

\* The number a version of three fields below base stands for.
Number(v, base) == (v[1] * base + v[2]) * base + v[3]

Swapped(o) == [o EXCEPT !.staged = o.current, !.current = o.staged]

\* Applied only outside a call, and never taken back by the version it replaced; and of
\* versions of up to three fields exactly the ones that are newer as numbers are applied.
UpdateRight(o, base, d) ==
    /\ d = "Apply" => ~o.inCall
    /\ d # "Nothing" => Decide(Swapped(o)) = "Nothing"
    /\ Len(o.staged) <= 3 /\ Len(o.current) <= 3 =>
          (d # "Nothing" <=> /\ Parse(o.staged) # <<>> /\ Parse(o.current) # <<>>
                             /\ Number(Parse(o.staged), base) > Number(Parse(o.current), base))

-----------------------------------------------------------------------------
(* snap_to_edge, one axis: the widget's start and length, the work area's. *)

Abs(n) == IF n < 0 THEN -n ELSE n
Clamp(n, low, high) == IF n < low THEN low ELSE IF n > high THEN high ELSE n

SnapToEdge(w) ==
    LET end == w.start + w.length
        snapped == IF Abs(w.at - w.start) <= w.threshold THEN w.start
                   ELSE IF Abs(end - (w.at + w.size)) <= w.threshold THEN end - w.size
                   ELSE w.at
        high == IF end - w.size < w.start THEN w.start ELSE end - w.size IN
    Clamp(snapped, w.start, high)

\* On the work area whenever it fits, at its start when it does not, and not
\* moved when it was inside and away from the edges.
SnapRight(w, x) ==
    LET end == w.start + w.length IN
    /\ x >= w.start
    /\ IF w.size <= w.length THEN x + w.size <= end ELSE x = w.start
    /\ w.at > w.start + w.threshold /\ w.at + w.size < end - w.threshold => x = w.at

-----------------------------------------------------------------------------
(* widget/mod.rs: openPortal takes a path of the configured site.          *)

Dot == 46
Slash == 47
Colon == 58
Backslash == 92
Letter == 97

Has(s, t) == \E i \in 0..(Len(s) - Len(t)) : \A j \in 1..Len(t) : s[i + j] = t[j]

ValidatePortalPath(p) ==
    ~ \/ ~(Len(p) >= 1 /\ p[1] = Slash)
      \/ Len(p) >= 2 /\ p[1] = Slash /\ p[2] = Slash
      \/ Has(p, <<Colon, Slash, Slash>>)
      \/ Has(p, <<Backslash>>)
      \/ Has(p, <<Dot, Dot>>)

\* The part of a path between the cuts i and j.
Cuts(p) == {i \in DOMAIN p : p[i] = Slash} \cup {Len(p) + 1}
Adjacent(p, i, j) ==
    /\ i \in Cuts(p) /\ j \in Cuts(p) /\ i < j
    /\ ~\E k \in Cuts(p) : i < k /\ k < j
Segment(p, i, j) == SubSeq(p, i + 1, j - 1)

\* Appended to the site's origin it names a page of the site: it begins at
\* the root, names no host and climbs no directory; and every plain path of
\* letters is let through.
PortalRight(p, ok) ==
    /\ ok => /\ p[1] = Slash
             /\ \A i, j \in Cuts(p) : Adjacent(p, i, j) => Segment(p, i, j) # <<Dot, Dot>>
             /\ Len(p) >= 2 => p[2] \notin {Slash, Backslash}
    /\ /\ p # <<>> /\ p[1] = Slash
       /\ \A i, j \in Cuts(p) :
             Adjacent(p, i, j) => i + 1 < j /\ \A k \in (i + 1)..(j - 1) : p[k] = Letter
       => ok

-----------------------------------------------------------------------------
(* Where requests go.  An uplink URL is a scheme and the tokens after it:  *)
(* 127.0.0.1 or localhost, another host, a colon, a slash, a port number,  *)
(* and the parts of the bracketed loopback address.                        *)

Local == 1
Other == 2
Port == 80
Bracketed == <<91, Colon, Colon, 49, 93>>

UpTo(s, stops) ==
    LET at == {i \in DOMAIN s : s[i] \in stops} IN
    IF at = {} THEN s ELSE SubSeq(s, 1, First(at) - 1)

\* A host ends at the first colon, so that [::1] is named here but never matches.
ValidateUrl(u) == \/ u.scheme = "wss"
                  \/ u.scheme = "ws"
                        /\ UpTo(u.tokens, {Slash, Colon}) \in {<<Local>>, Bracketed}

\* The address connected to; <<>> when there is no host.
HostPort(u) ==
    LET authority == UpTo(u.tokens, {Slash}) IN
    IF authority = <<>> \/ Colon \in ToSet(authority) THEN authority
    ELSE authority \o <<Colon, IF u.scheme = "wss" THEN 443 ELSE Port>>

\* WsTransport::connect: checked by one reading of the URL, dialled by another.
Dialled(u) == IF ValidateUrl(u) THEN HostPort(u) ELSE <<>>

\* The host that is dialled is the host that was checked, and without TLS it is this
\* machine.
DialledRight(u, a) ==
    a # <<>> => /\ u.scheme \in {"ws", "wss"}
                /\ UpTo(a, {Colon}) = UpTo(u.tokens, {Slash, Colon})
                /\ u.scheme = "ws" => UpTo(a, {Colon}) = <<Local>>

-----------------------------------------------------------------------------
(* The redirect of a sign-in, on a port every local program can reach: the *)
(* requests that arrive in order.  A value is 0 when empty, 1 when it is   *)
(* this attempt's, 2 otherwise.                                            *)

\* The value of the last pair with the key; -1 for none.
LastValue(pairs, k) ==
    LET at == {i \in DOMAIN pairs : pairs[i][1] = k} IN
    IF at = {} THEN -1 ELSE pairs[CHOOSE i \in at : \A j \in at : j <= i][2]

ParseCallback(q) ==
    LET code == LastValue(q.pairs, "code")
        state == LastValue(q.pairs, "state") IN
    [ok |-> LastValue(q.pairs, "error") = -1 /\ state # -1 /\ code > 0,
     code |-> code, state |-> state]

Failed == [ok |-> FALSE, code |-> -1, state |-> -1]
ServeOne(q) == IF q.path = "callback" THEN ParseCallback(q) ELSE Failed

\* The first request that is not for another path ends the wait; without one it times out.
WaitForCallback(requests) ==
    LET ending == {i \in DOMAIN requests : requests[i].path # "other"} IN
    IF ending = {} THEN Failed ELSE ServeOne(requests[First(ending)])

\* The code handed to the token endpoint; -1 when the attempt fails before.
ExchangedCode(requests) ==
    LET callback == WaitForCallback(requests) IN
    IF callback.ok /\ callback.state = 1 THEN callback.code ELSE -1

\* A code is exchanged only if the request that carried it names this attempt and no
\* other request came first, and a plain answer is exchanged in either order of its
\* pairs, with a favicon request before it or anything after it.
RedirectRight(requests, code) ==
    LET first(i) == \A j \in 1..(i - 1) : requests[j].path = "other"
        plain(q) == q.path = "callback" /\ {<<"code", 1>>, <<"state", 1>>} = ToSet(q.pairs) IN
    /\ code # -1 => \E i \in DOMAIN requests :
                       /\ {<<"code", code>>, <<"state", 1>>} \subseteq ToSet(requests[i].pairs)
                       /\ \A pair \in ToSet(requests[i].pairs) : pair[1] # "error"
                       /\ first(i)
    /\ (\E i \in DOMAIN requests : plain(requests[i]) /\ first(i)) => code = 1
==============================================================================
