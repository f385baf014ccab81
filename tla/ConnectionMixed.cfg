CONSTANTS
  j1 = j1
  n1 = n1
  w1 = w1
  JavaHosts <- NoJava
  NativeHosts <- OneNative
  Writers <- OneWriter
  Kinds <- DataAndRequest
  MaxConns = 1
  MaxFrames = 1
SPECIFICATION Spec
INVARIANT KindsAgree
