------------------------------ MODULE MCDetail ------------------------------
EXTENDS Detail

Key(n) == [i \in 1..n |-> IF i = 1 THEN 4 ELSE 9]
Share(group, n) == [code |-> group, data |-> Key(n), after |-> 0]
Compressed == [code |-> 23, data |-> <<2>> \o Tail(Key(33)), after |-> 0]
Item(code, data) == [code |-> code, data |-> data, after |-> 0]
Known(type, raw, form, value) == [ext_type |-> type, raw |-> raw, body |-> Body(form, value)]
Unread(type, raw) == [ext_type |-> type, raw |-> raw, body |-> Opaque]

ClientShares(shares) ==
  Known(51, Framed(2, Written(Shares, shares)), "KeyShare", shares)
ServerShare(share) == Known(51, Written(Shares, <<share>>), "KeyShare", <<share>>)

Ticket == [code |-> 0, data |-> <<5, 6>>, after |-> 66051]
Host == <<Item(0, <<104>>)>>
Alpn(names) == Known(16, Framed(2, Written(Protocols, names)), "Alpn", names)

MCOffers ==
  [ClientHello |-> {
     Known(0, Framed(2, Written(Names, Host)), "ServerName", Host),
     Known(10, Framed(2, Codes(<<29, 256>>)), "SupportedGroups", <<29, 256>>),
     Alpn(<<Item(0, <<104, 50>>), Item(0, <<104>>)>>),
     Known(41, Framed(2, Written(Identities, <<Ticket>>)) \o Framed(2, <<1, 8>>), "PreSharedKey",
           [identities |-> <<Ticket>>, binders_len |-> 2]),
     Known(42, << >>, "EarlyData", << >>),
     Known(43, Framed(1, Codes(<<2570, 772, 771>>)), "SupportedVersions", <<2570, 772, 771>>),
     Known(43, Framed(1, Codes(<<771, 772>>)), "SupportedVersions", <<771, 772>>),
     Known(45, Framed(1, <<1>>), "PskKeyExchangeModes", <<1>>),
     Unread(23, << >>),
     ClientShares(<<Share(29, 32)>>),
     ClientShares(<<Share(2570, 1), Share(23, 65), Compressed>>)},
   ServerHello |-> {
     ServerShare(Share(29, 32)), ServerShare(Share(256, 256)), ServerShare(Share(23, 65)),
     ServerShare(Share(4588, 49)),
     Known(43, <<3, 4>>, "SupportedVersions", <<772>>),
     Unread(41, <<0, 0>>), Unread(65281, <<0>>),
     Alpn(<<Item(0, <<104, 50>>)>>)},
   HelloRetryRequest |-> {
     Unread(51, <<0, 23>>),
     Known(43, <<3, 4>>, "SupportedVersions", <<772>>),
     Known(44, Framed(2, <<1, 2>>), "Cookie", <<1, 2>>)}]

MCSeeds == {<< >>, <<0, 7, 0, 1, 5, 0, 0, 0>>, <<0, 14, 0, 1, 5, 0, 0, 0, 1, 0>>}
=============================================================================
