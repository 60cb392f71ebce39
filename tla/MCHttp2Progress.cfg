\* An upload from a source beside a segmented answer into a receiver.
SPECIFICATION FairSpec
CONSTANTS
    StreamCount = 2
    maximumConcurrentStreams = 2
    initialWindowSize = 1
    peerInitialWindowSize = 1
    kHttp2InitialWindowSize = 2
    kHttp2MaximumWindowSize = 2
    maximumFrameSize = 1
    kTerminatedStreamMemoryCount = 1
    Streaming = {1}
    Async = {}
    Early = {}
    Chunked = {2}
    Trailered = {}
    responseSize <- ShortDownload
    maximumBodySize = 0
    maximumRequestsPerConnection = 0
    kStreamingSendQueueLimit = 1
    MayShutDown = FALSE
    requestSize <- ShortUpload
    Streamed = {1}
    Receiver = {2}
    Impatient = {2}
    Cancellable = {}
    MayTimeOut = FALSE
    maximumResponseBodyBytes = 0
    maximumOpenedStreamCount = 2
PROPERTIES RequestEnds
\* A stop with a request unfinished is a violation of RequestEnds itself; MCHttp2.cfg checks deadlock.
CHECK_DEADLOCK FALSE
