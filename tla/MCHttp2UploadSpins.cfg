\* An upload is answered before its end while another request reads the connection.
SPECIFICATION Spec
CONSTANTS
    StreamCount = 2
    maximumConcurrentStreams = 2
    initialWindowSize = 2
    peerInitialWindowSize = 2
    kHttp2InitialWindowSize = 4
    kHttp2MaximumWindowSize = 4
    maximumFrameSize = 2
    kTerminatedStreamMemoryCount = 1
    Streaming = {1}
    Async = {}
    Early = {1}
    Chunked = {}
    Trailered = {}
    responseSize <- AnswerThenDownload
    maximumBodySize = 0
    maximumRequestsPerConnection = 0
    kStreamingSendQueueLimit = 1
    MayShutDown = FALSE
    requestSize <- UploadThenDownload
    Streamed = {}
    Receiver = {2}
    Impatient = {}
    Cancellable = {}
    MayTimeOut = FALSE
    maximumResponseBodyBytes = 0
    maximumOpenedStreamCount = 2
INVARIANTS EventLoopNeverSpins
