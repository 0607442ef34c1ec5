SPECIFICATION FairSpec
CONSTANTS
 Clients={c1,c2}
 Remote={c2}
 Cancellers={x1}
 Databases={d1,d2}
 Restless={d1}
 Minted={k1}
 BackendKeys={b1}
 NoKey=NoKey
 TlsFiles=TRUE
 Budget=2
 Floor=1
 DialTime=1
 Negotiations=1
INVARIANT SessionsAreSound
PROPERTY ConnectionsSettle
CHECK_DEADLOCK FALSE
