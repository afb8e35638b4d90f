SPECIFICATION PartsSpec
CONSTANTS
    Parts = {"pattern", "sort", "mixed", "ints", "errors", "handlers", "coroutines", "limits", "header", "buffers"}
    HeaderBuffer = 8
    LUA_MAXCAPTURES = 2
    Queries <- MCQueries
    Values = {"keep", "text", "refuse"}
    Main = Main
    Coroutine = {c1, c2}
    MaxCCalls = 3
    ExtraCCalls = 2
    BasicCI = 3
    MaxCalls = 3
    HandlerKinds = {"none", "script", "value"}
    c1 = c1
    c2 = c2
    text1 = text1
    obj1 = obj1
    val1 = val1
    None1 = None1
INVARIANTS PatternFinds PatternGoesThroughAll PatternStaysInside ArraySorted ArrayKeepsElements TablesSound ArraysRecognised   TextIsKept
CHECK_DEADLOCK FALSE
